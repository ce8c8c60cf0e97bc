--------------------------- MODULE RegionalViews ---------------------------
(***************************************************************************)
(* What counter replication promises to a gateway, with no process,        *)
(* message or failure in sight.  Every region counts its own requests per  *)
(* key (a user in a one-minute window) and holds a view of what the other  *)
(* regions counted: the hash rl:global:{tier}:{user_id}:{window_id} of its *)
(* own Redis, one field per region.  A view may lag, but it only ever      *)
(* rises, never past what the peer really counted, and is forgotten only   *)
(* once the window can no longer be used.  SyncCluster implements it.      *)
(***************************************************************************)
EXTENDS Naturals

CONSTANTS Regions,     \* us, eu, asia
          Keys,        \* pairs <<user, window>>
          LastWindow,  \* bound: windows are 0..LastWindow
          MaxCount,    \* bound: requests counted per region and key
          Durable      \* FALSE when a Redis may restart without its data

VARIABLES now,   \* the current window
          count, \* count[o][k]: requests region o counted for key k
          view   \* view[r][k][o]: what region r believes of count[o][k]

vars == <<now, count, view>>

Nothing == [o \in Regions |-> 0]

\* A window requests may still be counted in: the current one, and the previous
\* one for a request stamped just before the minute or by a slower clock.
Usable(k) == k[2] \in {now - 1, now}

\* A plausible bug, put in the place of Over to see that a property notices.
FaultyOverAtOnce(k) == k[2] < now

\* The window is over, so that its key may have expired.
Over(k) == k[2] + 1 < now

Init == /\ now = 0
        /\ count = [o \in Regions |-> [k \in Keys |-> 0]]
        /\ view = [r \in Regions |-> [k \in Keys |-> Nothing]]

\* Region r counts one more request for k, and sees it at once.
Count(r, k) ==
    /\ Usable(k)
    /\ count[r][k] < MaxCount
    /\ count' = [count EXCEPT ![r][k] = @ + 1]
    /\ view' = [view EXCEPT ![r][k][r] = @ + 1]
    /\ UNCHANGED now

\* Region r learns that peer o had counted v requests for k.
Learn(r, o, k, v) ==
    /\ o # r
    /\ view[r][k][o] < v
    /\ view' = [view EXCEPT ![r][k][o] = v]
    /\ UNCHANGED <<now, count>>

\* Region r forgets keys: by expiry, or with its whole Redis.
Forget(r, S) ==
    /\ Durable => \A k \in S : Over(k)
    /\ view' = [view EXCEPT ![r] = [k \in Keys |->
                    IF k \in S THEN Nothing ELSE view[r][k]]]
    /\ UNCHANGED <<now, count>>

NextMinute == /\ now < LastWindow
              /\ now' = now + 1
              /\ UNCHANGED <<count, view>>

Next == \/ \E r \in Regions, k \in Keys : Count(r, k)
        \/ \E r, o \in Regions, k \in Keys :
                \E v \in 1 .. count[o][k] : Learn(r, o, k, v)
        \/ \E r \in Regions : \E S \in SUBSET Keys : Forget(r, S)
        \/ NextMinute

Spec == Init /\ [][Next]_vars
=============================================================================
