---------------------------- MODULE GatewayCheck ----------------------------
(***************************************************************************)
(* The /check handler of the gateways, command by command, on top of what  *)
(* replication promises (RegionalViews, which SyncCluster implements).     *)
(* Each region has one gateway; it serves requests concurrently, and the   *)
(* commands of different requests interleave in Redis.  One user: users    *)
(* share nothing.  The local limiter, with the override it is given, is    *)
(* its outcome, either one at any time.  The region test and the tier      *)
(* test, which answer 400 before any state is touched, are left out.       *)
(***************************************************************************)
EXTENDS Naturals, FiniteSets

CONSTANTS us, eu, asia, \* the regions the request schema accepts
          Busy,         \* bound: the regions that get requests; the view of another
                        \* decides nothing and is left alone
          Requests,     \* bound: requests in progress at one time
          user,         \* the user (with its tier) all of them are for
          Limits,       \* the values GlobalLimit takes as policies change ...
          StaticLimit,  \* ... of which that of the static policy
          LastWindow,   \* bound: the minutes are 0..LastWindow
          MaxCount,     \* bound: requests counted per region and window
          MaxErrors     \* bound: requests per region and window whose global check fails

Regions == {us, eu, asia}
Keys    == {user} \X (0 .. LastWindow)

ASSUME RegionsAssumption == us # eu /\ us # asia /\ eu # asia /\ Busy \subseteq Regions
ASSUME LimitsAssumption == /\ Limits \subseteq Nat \ {0} /\ StaticLimit \in Limits
                           /\ LastWindow \in Nat /\ MaxCount \in Nat /\ MaxErrors \in Nat

VARIABLES
    now, count, view, \* see RegionalViews
    policy,           \* policy[r]: GlobalLimit in the policy store of gateway r
    req,              \* req[q]: where request q is in the handler
    admitted,         \* history: admitted[r][k], slot values of the requests let through
    uncounted,        \* history: uncounted[r][k], those let through without a slot value
    errors            \* history: errors[r][k], requests whose global check failed

vars == <<now, count, view, policy, req, admitted, uncounted, errors>>
viewVars == <<now, count, view>>
history == <<admitted, uncounted, errors>>

Views == INSTANCE RegionalViews WITH Durable <- TRUE

\* pc says how far the handler is; a request that is answered leaves "idle" behind,
\* except that a denial by the global check is kept to be looked at.
Request == [pc : {"idle", "limiter", "global", "counted", "denied"},
            region : Regions, key : Keys, limit : Limits, local : BOOLEAN, slot : Nat]

InProgress == {"limiter", "global", "counted"}

NoRequest == [pc |-> "idle", region |-> us, key |-> <<user, 0>>,
              limit |-> StaticLimit, local |-> FALSE, slot |-> 0]

Init == /\ Views!Init
        /\ policy = [r \in Regions |-> StaticLimit]
        /\ req = [q \in Requests |-> NoRequest]
        /\ admitted = [r \in Regions |-> [k \in Keys |-> {}]]
        /\ uncounted = [r \in Regions |-> [k \in Keys |-> 0]]
        /\ errors = [r \in Regions |-> [k \in Keys |-> 0]]

Answered(q) == [req EXCEPT ![q] = NoRequest]

\* The answer to a request that was counted is what the local limiter said.
AnsweredLocally(q) ==
    /\ req' = Answered(q)
    /\ admitted' = IF req[q].local
                   THEN [admitted EXCEPT ![req[q].region][req[q].key] = @ \union {req[q].slot}]
                   ELSE admitted

\* A command of the global check for k reports an error to gateway r.
ReportsError(r, k) ==
    /\ errors[r][k] < MaxErrors
    /\ errors' = [errors EXCEPT ![r][k] = @ + 1]

\* A request arrives at gateway r and takes the policy of the moment.
Arrive(q, r) ==
    /\ req[q].pc \notin InProgress
    /\ req' = [req EXCEPT ![q] = [NoRequest EXCEPT !.pc = "limiter", !.region = r, !.limit = policy[r]]]
    /\ UNCHANGED <<viewVars, policy, history>>

\* The local limiter answers.
Limiter(q, allowed) ==
    /\ req[q].pc = "limiter"
    /\ req' = [req EXCEPT ![q] = [@ EXCEPT !.pc = "global", !.local = allowed]]
    /\ UNCHANGED <<viewVars, policy, history>>

\* Its error refuses the request, without the global check.
LimiterFails(q) ==
    /\ req[q].pc = "limiter"
    /\ req' = Answered(q)
    /\ UNCHANGED <<viewVars, policy, history>>

\* What HINCRBY returns.
OwnSlot(r, k) == view[r][k][r] + 1

\* HINCRBY of the own slot, for every request, whatever the local limiter said; the
\* window was read from the clock just before.
Counted(q, k) ==
    LET r == req[q].region
    IN  /\ req[q].pc = "global"
        /\ Views!Count(r, k)
        /\ req' = [req EXCEPT ![q] = [@ EXCEPT !.pc = "counted", !.key = k, !.slot = OwnSlot(r, k)]]
        /\ UNCHANGED <<policy, history>>

\* HINCRBY reports an error, though it may have run: there is no global check, and what
\* the local limiter lets through goes through without a slot value.
CountFails(q, k) ==
    LET r == req[q].region
    IN  /\ req[q].pc = "global"
        /\ Views!Usable(k)
        /\ ReportsError(r, k)
        /\ Views!Count(r, k) \/ UNCHANGED viewVars
        /\ req' = Answered(q)
        /\ uncounted' = IF req[q].local THEN [uncounted EXCEPT ![r][k] = @ + 1] ELSE uncounted
        /\ UNCHANGED <<policy, admitted>>

\* Definitions whose name begins with Faulty are plausible bugs, put in the place of the
\* definition after them to see that a property notices.
FaultySumOfPeers(f, r) == f[us] + f[eu] + f[asia] - f[r]

\* The slots the HGETALL of gateway r returns, added up.
Sum(f, r) == f[us] + f[eu] + f[asia]

FaultyReached(sum, limit) == sum >= limit

\* The global cap: more requests than the limit, the own one included.
Exceeds(sum, limit) == sum > limit

\* Judging a request by what HINCRBY returned, its own region alone.
FaultyOverGlobalLimit(q) == Exceeds(req[q].slot, req[q].limit)

OverGlobalLimit(q) == LET r == req[q].region IN Exceeds(Sum(view[r][req[q].key], r), req[q].limit)

\* HGETALL, and the verdict: denied by the global check ...
Deny(q) ==
    /\ req[q].pc = "counted"
    /\ OverGlobalLimit(q)
    /\ req' = [req EXCEPT ![q].pc = "denied"]
    /\ UNCHANGED <<viewVars, policy, history>>

\* ... or what the local limiter said.
Pass(q) ==
    /\ req[q].pc = "counted"
    /\ ~OverGlobalLimit(q)
    /\ AnsweredLocally(q)
    /\ UNCHANGED <<viewVars, policy, uncounted, errors>>

\* HGETALL reports an error: what the local limiter said, with no global check.
DecideFails(q) ==
    /\ req[q].pc = "counted"
    /\ ReportsError(req[q].region, req[q].key)
    /\ AnsweredLocally(q)
    /\ UNCHANGED <<viewVars, policy, uncounted>>

FaultyValid(l) == TRUE

Valid(l) == l > 0

\* The policy store of gateway r finds limit l in Redis: it adopts it if it is valid and
\* goes back to the static policy if not.
PolicyChange(r, l) ==
    /\ policy' = [policy EXCEPT ![r] = IF Valid(l) THEN l ELSE StaticLimit]
    /\ UNCHANGED <<viewVars, req, history>>

\* Replication, which the gateway has no part in.
Replicate ==
    /\ \/ \E r \in Busy, o \in Regions, k \in Keys : \E v \in 1 .. count[o][k] : Views!Learn(r, o, k, v)
       \/ \E r \in Regions, k \in Keys : Views!Forget(r, {k})
    /\ UNCHANGED <<policy, req, history>>

\* Redis timeouts keep a request well under a minute: none spans two window changes.
NextMinute ==
    /\ \A q \in Requests : req[q].pc = "counted" => req[q].key[2] = now
    /\ Views!NextMinute
    /\ UNCHANGED <<policy, req, history>>

Handler(q) == \/ \E r \in Busy : Arrive(q, r)
              \/ \E allowed \in BOOLEAN : Limiter(q, allowed)
              \/ LimiterFails(q)
              \/ \E k \in Keys : Counted(q, k)
              \/ \E k \in Keys : CountFails(q, k)
              \/ Deny(q)
              \/ Pass(q)
              \/ DecideFails(q)

Next == \/ \E q \in Requests : Handler(q)
        \/ \E r \in Busy, l \in Limits \union {0} : PolicyChange(r, l)
        \/ Replicate
        \/ NextMinute

Spec == Init /\ [][Next]_vars

-----------------------------------------------------------------------------
\* Every component stays in its domain; among other things no gateway ever works with
\* a limit that a valid policy cannot have.
TypeOK == /\ now \in 0 .. LastWindow
          /\ count \in [Regions -> [Keys -> Nat]]
          /\ view \in [Regions -> [Keys -> [Regions -> Nat]]]
          /\ policy \in [Regions -> Limits]
          /\ req \in [Requests -> Request]
          /\ admitted \in [Regions -> [Keys -> SUBSET Nat]]
          /\ uncounted \in [Regions -> [Keys -> Nat]]
          /\ errors \in [Regions -> [Keys -> Nat]]

\* However stale the view, however the commands interleave and whichever of them fail: in
\* one window a region lets through no more requests than the largest limit its policies
\* set and one for each request whose global check failed, which goes through unchecked
\* (handler.go: "skipping global check").  Three regions that cannot hear each other let
\* through three times that.
AdmissionBounded ==
    \A r \in Regions, k \in Keys : \E l \in Limits :
        Cardinality(admitted[r][k]) + uncounted[r][k] <= l + errors[r][k]

\* Two requests never carry the same slot value of the same key, and a request still
\* to be decided does not carry one that was let through.
OneRequestPerSlot ==
    \A q \in Requests : req[q].pc = "counted" =>
        /\ req[q].slot \notin admitted[req[q].region][req[q].key]
        /\ \A p \in Requests \ {q} :
              (req[p].pc = "counted" /\ req[p].region = req[q].region /\ req[p].key = req[q].key)
                  => req[p].slot # req[q].slot

\* The global check turns a request away only when more requests than the limit were
\* really made in the window, over all regions: staleness errs on the side of
\* letting through (sync-constitution II 2).
NoFalseDenial ==
    \A q \in Requests : req[q].pc = "denied" =>
        count[us][req[q].key] + count[eu][req[q].key] + count[asia][req[q].key] > req[q].limit

\* A denial by the global check is no accident of the moment: once it has denied a request,
\* it lets no other of the region and the window pass that has not a larger limit, even one
\* that was counted before.  (One whose check fails goes through unchecked.)
DenialIsFinal ==
    [][\A p, q \in Requests :
          (/\ req[p].pc = "denied" /\ Pass(q)
           /\ req[p].region = req[q].region /\ req[p].key = req[q].key)
              => req[q].limit > req[p].limit]_vars

\* The parts of the inductive invariant behind these.  No view exceeds the count; a request
\* to be decided holds a slot value of a window still in use that its region has reached;
\* and so did the requests let through, unless the window is over; only errors let through
\* requests without a slot value; and the sum a request was denied by is not forgotten.
ViewsTrue == \A r, o \in Regions, k \in Keys : view[r][k][o] <= count[o][k]

CountedReached ==
    \A q \in Requests : req[q].pc = "counted" =>
        /\ Views!Usable(req[q].key)
        /\ req[q].slot \in 1 .. view[req[q].region][req[q].key][req[q].region]

AdmittedReached ==
    \A r \in Regions, k \in Keys : ~Views!Over(k) => admitted[r][k] \subseteq 1 .. view[r][k][r]

ErrorsAccount ==
    \A r \in Regions, k \in Keys : IsFiniteSet(admitted[r][k]) /\ uncounted[r][k] <= errors[r][k]

DeniedStands ==
    \A p \in Requests : (req[p].pc = "denied" /\ ~Views!Over(req[p].key)) =>
        Exceeds(Sum(view[req[p].region][req[p].key], req[p].region), req[p].limit)

CheckInv == /\ TypeOK /\ ViewsTrue /\ CountedReached /\ AdmittedReached /\ ErrorsAccount
            /\ AdmissionBounded /\ OneRequestPerSlot /\ NoFalseDenial /\ DeniedStands
=============================================================================
