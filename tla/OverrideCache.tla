---------------------------- MODULE OverrideCache ----------------------------
(***************************************************************************)
(* The override cache of a gateway, for one user: concurrent Lookups share *)
(* an entry that lives for ttl, and on a miss share one GET.  What matters *)
(* of an override is how recent it is, so that every state of the key      *)
(* override:{user_id}, present, absent or unreadable, is a version.        *)
(*                                                                         *)
(* A step of a Lookup is what it does under the mutex, or a wait.          *)
(***************************************************************************)
EXTENDS Naturals, FiniteSets

CONSTANTS Callers,    \* bound: Lookups in progress at one time
          TTL,        \* ttl of an entry
          Timeout,    \* of the GET
          MaxTime,    \* bound: the clock
          MaxVersion, \* bound: changes of the key
          NoCaller,   \* no lookup is in flight
          Error       \* what a GET that failed brings, and the answer of it

ASSUME TimesAssumption == /\ TTL \in Nat \ {0} /\ Timeout \in Nat \ {0}
                          /\ MaxTime \in Nat /\ MaxVersion \in Nat
                          /\ NoCaller \notin Callers /\ Error \notin Nat

VARIABLES
    now,     \* the clock
    version, \* the state of the key in Redis
    ended,   \* history: ended[v], when version v was replaced (MaxTime + 1: not yet)
    entry,   \* entries[userID]: what it says and when it expires
    flight,  \* inflight[userID]: the caller that does the lookup
    pc,      \* pc[c]: where Lookup is
    leader,  \* leader[c]: whose lookup c waits for
    start,   \* start[c]: when c sent its GET
    result,  \* result[c]: what c fetched; what c was answered once it is done
    newest,  \* history: the newest version anyone was answered
    least    \* history: least[c], what newest was when c called

cacheVars == <<entry, flight>>
redisVars == <<version, ended>>
callVars  == <<pc, leader, start, result, newest, least>>
vars == <<now, redisVars, cacheVars, callVars>>

Versions == 0 .. MaxVersion
Answer   == Versions \union {Error}

\* "missed": before the write lock; "sent", "got": the GET is under way, its reply is
\* fetched; "stored": before fl.done is closed; "waiting": for another's fl.done.
Steps == {"idle", "missed", "sent", "got", "stored", "waiting", "done"}

Init ==
    /\ now = 0
    /\ version = 0
    /\ ended = [v \in Versions |-> MaxTime + 1]
    /\ entry = [value |-> Error, expires |-> 0]
    /\ flight = NoCaller
    /\ pc = [c \in Callers |-> "idle"]
    /\ leader = [c \in Callers |-> NoCaller]
    /\ start = [c \in Callers |-> 0]
    /\ result = [c \in Callers |-> Error]
    /\ newest = 0
    /\ least = [c \in Callers |-> 0]

-----------------------------------------------------------------------------
\* Definitions whose name begins with Faulty are plausible bugs, put in the place of the
\* definition after them to see that a property notices.
FaultyHit == entry.value # Error

\* time.Now().Before(e.expiresAt)
Hit == now < entry.expires

FaultyShared == FALSE

\* A lookup of the user is in flight.
Shared == flight # NoCaller

\* The callers in S have their answer.
Answered(S, value) ==
    /\ pc' = [c \in Callers |-> IF c \in S THEN "done" ELSE pc[c]]
    /\ result' = [c \in Callers |-> IF c \in S THEN value ELSE result[c]]
    /\ leader' = [c \in Callers |-> IF c \in S THEN NoCaller ELSE leader[c]]
    /\ newest' = IF value # Error /\ value > newest THEN value ELSE newest

\* Lookup, under the read lock.
Call(c) ==
    /\ pc[c] \in {"idle", "done"}
    /\ least' = [least EXCEPT ![c] = newest]
    /\ IF Hit THEN Answered({c}, entry.value)
       ELSE /\ pc' = [pc EXCEPT ![c] = "missed"]
            /\ result' = [result EXCEPT ![c] = Error]
            /\ UNCHANGED <<leader, newest>>
    /\ UNCHANGED <<now, redisVars, cacheVars, start>>

\* Under the write lock: the entry again, then the lookup in flight, then one's own.
Enter(c) ==
    /\ pc[c] = "missed"
    /\ \/ /\ Hit
          /\ Answered({c}, entry.value)
          /\ UNCHANGED <<flight, start>>
       \/ /\ ~Hit /\ Shared
          /\ pc' = [pc EXCEPT ![c] = "waiting"]
          /\ leader' = [leader EXCEPT ![c] = flight]
          /\ UNCHANGED <<flight, start, result, newest>>
       \/ /\ ~Hit /\ ~Shared
          /\ pc' = [pc EXCEPT ![c] = "sent"]
          /\ flight' = c
          /\ start' = [start EXCEPT ![c] = now]
          /\ UNCHANGED <<leader, result, newest>>
    /\ UNCHANGED <<now, redisVars, entry, least>>

\* Redis executes the GET.
Fetch(c) ==
    /\ pc[c] = "sent"
    /\ pc' = [pc EXCEPT ![c] = "got"]
    /\ result' = [result EXCEPT ![c] = version]
    /\ UNCHANGED <<now, redisVars, cacheVars, leader, start, newest, least>>

\* The GET fails, times out, or the caller's client hangs up: no version, whoever waits.
FetchFails(c) ==
    /\ pc[c] \in {"sent", "got"}
    /\ pc' = [pc EXCEPT ![c] = "got"]
    /\ result' = [result EXCEPT ![c] = Error]
    /\ UNCHANGED <<now, redisVars, cacheVars, leader, start, newest, least>>

FaultyComplete(c) == result[c] # Error

\* Good or bad, every reply is published.
Complete(c) == TRUE

\* An error is not cached.
Lifetime(value) == IF value = Error THEN 0 ELSE TTL

\* The entry replaces the old one, and the lookup is no longer in flight.
Store(c) ==
    /\ pc[c] = "got"
    /\ Complete(c)
    /\ entry' = [value |-> result[c], expires |-> now + Lifetime(result[c])]
    /\ flight' = NoCaller
    /\ pc' = [pc EXCEPT ![c] = "stored"]
    /\ start' = [start EXCEPT ![c] = 0]
    /\ UNCHANGED <<now, redisVars, leader, result, newest, least>>

\* close(fl.done): the caller and everyone who waited have the answer.
Close(c) ==
    /\ pc[c] = "stored"
    /\ Answered({c} \union {d \in Callers : leader[d] = c}, result[c])
    /\ UNCHANGED <<now, redisVars, cacheVars, start, least>>

-----------------------------------------------------------------------------
\* The key is set, overwritten, deleted or expires.
Change ==
    /\ version < MaxVersion
    /\ version' = version + 1
    /\ ended' = [ended EXCEPT ![version] = now]
    /\ UNCHANGED <<now, cacheVars, callVars>>

\* Goroutines run without delays that matter; a GET takes up to Timeout.
Elapse ==
    /\ now < MaxTime
    /\ \A c \in Callers : \/ pc[c] \in {"idle", "waiting", "done"}
                          \/ pc[c] \in {"sent", "got"} /\ now < start[c] + Timeout
    /\ now' = now + 1
    /\ pc' = [c \in Callers |-> IF pc[c] = "done" THEN "idle" ELSE pc[c]]
    /\ result' = [c \in Callers |-> IF pc[c] = "done" THEN Error ELSE result[c]]
    /\ least' = [c \in Callers |-> IF pc[c] = "done" THEN 0 ELSE least[c]]
    /\ UNCHANGED <<redisVars, cacheVars, leader, start, newest>>

Lookup(c) == Call(c) \/ Enter(c) \/ Fetch(c) \/ FetchFails(c) \/ Store(c) \/ Close(c)

Next == (\E c \in Callers : Lookup(c)) \/ Change \/ Elapse

Spec == Init /\ [][Next]_vars

-----------------------------------------------------------------------------
\* Every component stays in its domain, and never are two GETs under way for one user
\* (what the in-flight marker is for).
TypeOK ==
    /\ now \in 0 .. MaxTime
    /\ version \in Versions
    /\ ended \in [Versions -> Nat]
    /\ entry \in [value : Answer, expires : Nat]
    /\ flight \in Callers \union {NoCaller}
    /\ pc \in [Callers -> Steps]
    /\ leader \in [Callers -> Callers \union {NoCaller}]
    /\ start \in [Callers -> Nat]
    /\ result \in [Callers -> Answer]
    /\ newest \in Versions
    /\ least \in [Callers -> Versions]
    /\ Cardinality({c \in Callers : pc[c] \in {"sent", "got"}}) <= 1

\* Reads do not go back: nobody is answered with an override older than one that somebody
\* had been answered with before the call, although entries, shared lookups and lookups
\* that were overtaken mix.  (Lookups that fail bring no override at all.)
MonotoneReads ==
    \A c \in Callers : (pc[c] = "done" /\ result[c] # Error) => result[c] >= least[c]

\* An override that was replaced or removed is answered for no longer than the entry's ttl
\* and one GET timeout.
BoundedStaleness ==
    [][\A c \in Callers : (pc[c] # "done" /\ pc'[c] = "done" /\ result'[c] # Error)
          => now < ended[result'[c]] + TTL + Timeout]_vars

-----------------------------------------------------------------------------
\* Goroutines run on, and a GET ends, if only by its timeout.
Fairness == \A c \in Callers : WF_vars(Enter(c) \/ Fetch(c) \/ FetchFails(c) \/ Store(c) \/ Close(c))

FairSpec == Spec /\ Fairness

\* Nobody waits for ever for the lookup of another, however that one ends.
NoLostWaiter == \A c \in Callers : pc[c] = "waiting" ~> pc[c] = "done"
=============================================================================
