------------------------------ MODULE Security ------------------------------
(***************************************************************************)
(* packages/security: the request limit of securityPlugin and the          *)
(* permission matrix.                                                      *)
(***************************************************************************)
EXTENDS Naturals, FiniteSets, Sequences

CONSTANTS
    Ips,
    MAX_REQUESTS_PER_MINUTE,
    MaxRequests,    \* bound: requests made
    MaxSeconds      \* bound: the clock, of which ONE_MINUTE are a minute

ONE_MINUTE == 3

ASSUME LimitAssumption ==
    MAX_REQUESTS_PER_MINUTE \in Nat \ {0} /\ MaxRequests \in Nat /\ MaxSeconds \in Nat

(* defaultPermissions.                                                     *)
DefaultPermissions ==
    [action \in {"team:write", "team:read", "tool:approve", "mcp:manage"} |->
       {"owner", "admin"} \cup (IF action \in {"team:write", "team:read"} THEN {"operator"} ELSE {})
                          \cup (IF action = "team:read" THEN {"viewer"} ELSE {})]

Roles == {"owner", "admin", "operator", "viewer"}
Actions == DOMAIN DefaultPermissions \cup {"unknown"}

(* Mutant: an action that is not in the matrix is nobody's to refuse.      *)
OpenCan(roles, action) ==
    action \in DOMAIN DefaultPermissions => roles \cap DefaultPermissions[action] # {}

Can(roles, action) ==
    action \in DOMAIN DefaultPermissions /\ roles \cap DefaultPermissions[action] # {}

VARIABLES
    buckets,        \* ip -> [count, resetAt], count 0 for no bucket
    seconds,
    asked           \* the requests so far: ip, time, whether limited (history)

limitVars == <<buckets, seconds, asked>>

LimitTypeOK ==
    /\ buckets \in [Ips -> [count : 0..MaxRequests, resetAt : 0..MaxSeconds + ONE_MINUTE]]
    /\ seconds \in 0..MaxSeconds /\ Len(asked) <= MaxRequests

LimitInit ==
    /\ buckets = [ip \in Ips |-> [count |-> 0, resetAt |-> 0]]
    /\ seconds = 0 /\ asked = <<>>

(* Mutant: every request moves the end of the window.                      *)
SlidingBucket(bucket) ==
    IF bucket.count = 0 \/ bucket.resetAt <= seconds
    THEN [count |-> 1, resetAt |-> seconds + ONE_MINUTE]
    ELSE [count |-> bucket.count + 1, resetAt |-> seconds + ONE_MINUTE]

(* The bucket after one more request.                                      *)
NextBucket(bucket) ==
    IF bucket.count = 0 \/ bucket.resetAt <= seconds
    THEN [count |-> 1, resetAt |-> seconds + ONE_MINUTE]
    ELSE [bucket EXCEPT !.count = @ + 1]

(* The onRequest hook; what is over the limit is counted too.              *)
Limit(ip) ==
    /\ Len(asked) < MaxRequests
    /\ buckets' = [buckets EXCEPT ![ip] = NextBucket(@)]
    /\ asked' = Append(asked, [ip |-> ip, at |-> seconds,
                               limited |-> buckets'[ip].count > MAX_REQUESTS_PER_MINUTE])
    /\ UNCHANGED seconds

LimitTime == seconds < MaxSeconds /\ seconds' = seconds + 1 /\ UNCHANGED <<buckets, asked>>

LimitNext == LimitTime \/ \E ip \in Ips : Limit(ip)

-----------------------------------------------------------------------------
(* Nobody is limited who has not asked more than the limit within the last *)
(* minute, whatever others ask; and in no minute is anybody let through    *)
(* more than twice the limit, which is what windows with a fixed start     *)
(* allow.                                                                  *)
LimitsFair ==
    LET of(ip, from, upto) == {i \in DOMAIN asked : /\ asked[i].ip = ip
                                                    /\ asked[i].at \in from..upto} IN
    \A i \in DOMAIN asked :
      LET ip == asked[i].ip
          first == IF asked[i].at < ONE_MINUTE THEN 0 ELSE asked[i].at - ONE_MINUTE + 1
      IN
      /\ asked[i].limited =>
           Cardinality({j \in of(ip, first, asked[i].at) : j <= i}) > MAX_REQUESTS_PER_MINUTE
      /\ Cardinality({j \in of(ip, asked[i].at, asked[i].at + ONE_MINUTE - 1) :
                        ~asked[j].limited}) <= 2 * MAX_REQUESTS_PER_MINUTE

(* Another role never takes a permission away, an action outside of the    *)
(* matrix is nobody's, and whoever may manage or approve may also write.   *)
PermissionsGrow == \A roles \in SUBSET Roles, action \in Actions :
    /\ Can(roles, action) => \A r \in Roles : Can(roles \cup {r}, action)
    /\ ~Can(roles, "unknown")
    /\ Can(roles, action) => Can(roles, "team:read")
=============================================================================
