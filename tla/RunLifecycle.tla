---------------------------- MODULE RunLifecycle ----------------------------
(***************************************************************************)
(* What AgentOrchestrator promises the callers of run() and resume(),      *)
(* with the graph left out: a call ends, or dies; it works on a gated run  *)
(* only once somebody approved that run; it reports "completed" only if    *)
(* the run was planned, and "waiting_approval" only if nothing was done.   *)
(***************************************************************************)
CONSTANTS Calls, Runs

VARIABLES
    call,       \* call -> "idle", "active", "returned" or "dead"
    run,        \* call -> the run it is about
    gated,      \* call -> TRUE when that run needs an approval
    worked,     \* call -> TRUE once the run it sees has been planned
    reported,   \* call -> the status it returned, or "none"
    approved    \* run -> TRUE once a caller approved it

vars == <<call, run, gated, worked, reported, approved>>

Init ==
    /\ call = [c \in Calls |-> "idle"]
    /\ run \in [Calls -> Runs]
    /\ gated = [c \in Calls |-> FALSE]
    /\ worked = [c \in Calls |-> FALSE]
    /\ reported = [c \in Calls |-> "none"]
    /\ approved = [r \in Runs |-> FALSE]

Start(c, r, needsApproval) ==
    /\ call[c] = "idle"
    /\ call' = [call EXCEPT ![c] = "active"]
    /\ run' = [run EXCEPT ![c] = r]
    /\ gated' = [gated EXCEPT ![c] = needsApproval]
    /\ UNCHANGED <<worked, reported, approved>>

(* A resumed call may find the run as another call left it, or not at all; *)
(* and where two runs have one id, it may find the other one, which need   *)
(* not be gated.                                                           *)
Resume(c, r, yes) ==
    /\ call[c] = "idle"
    /\ run' = [run EXCEPT ![c] = r]
    /\ approved' = [approved EXCEPT ![r] = @ \/ yes]
    /\ \/ /\ call' = [call EXCEPT ![c] = "active"]
          /\ \E g, w \in BOOLEAN : /\ g /\ w => approved'[r]
                                   /\ gated' = [gated EXCEPT ![c] = g]
                                   /\ worked' = [worked EXCEPT ![c] = w]
       \/ /\ call' = [call EXCEPT ![c] = "dead"]
          /\ UNCHANGED <<gated, worked>>
    /\ UNCHANGED reported

Work(c) ==
    /\ call[c] = "active"
    /\ gated[c] => approved[run[c]]
    /\ worked' = [worked EXCEPT ![c] = TRUE]
    /\ UNCHANGED <<call, run, gated, reported, approved>>

Finish(c, status) ==
    /\ call[c] = "active"
    /\ status = "completed" => worked[c]
    /\ status = "failed" => worked[c] \/ gated[c]
    /\ status = "waiting_approval" => gated[c] /\ ~worked[c]
    /\ call' = [call EXCEPT ![c] = "returned"]
    /\ reported' = [reported EXCEPT ![c] = status]
    /\ UNCHANGED <<run, gated, worked, approved>>

(* A node threw, or the process restarted and took every call with it.     *)
Die(dying) ==
    /\ \A c \in dying : call[c] = "active"
    /\ call' = [c \in Calls |-> IF c \in dying THEN "dead" ELSE call[c]]
    /\ UNCHANGED <<run, gated, worked, reported, approved>>

Next ==
    \/ \E c \in Calls, r \in Runs, b \in BOOLEAN : Start(c, r, b) \/ Resume(c, r, b)
    \/ \E c \in Calls : Work(c)
    \/ \E c \in Calls, s \in {"completed", "failed", "waiting_approval"} : Finish(c, s)
    \/ \E dying \in SUBSET Calls : Die(dying)

Spec == Init /\ [][Next]_vars
=============================================================================
