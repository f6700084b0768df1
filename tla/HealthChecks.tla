---------------------------- MODULE HealthChecks ----------------------------
(***************************************************************************)
(* observability/health and slos: the health and readiness checks, run one *)
(* after the other against a timeout, or one of them alone without any,    *)
(* with the status the endpoints answer with; and the error budgets of the *)
(* service level objectives.                                               *)
(***************************************************************************)
EXTENDS Integers, FiniteSets, Sequences

CONSTANTS
    Probes,         \* requests to /health, /ready and /health/:checkName
    SLOs,           \* id -> [target, budget], in per mille
    SloValues       \* measured values, in per mille

ASSUME SloAssumption ==
    /\ IsFiniteSet(DOMAIN SLOs) /\ SloValues \subseteq Nat
    /\ \A id \in DOMAIN SLOs : SLOs[id].target \in Nat /\ SLOs[id].budget \in Nat \ {0}

(* The checks that monitoring-setup registers, in their order, with the    *)
(* results each can give; a check that hangs is cut off, and counts as     *)
(* unhealthy like one that rejects.                                        *)
CheckNames == {"database", "redis", "litellm", "disk_space", "memory", "migrations", "services"}
HealthSeq == <<"database", "litellm", "memory">>
ReadinessSeq == <<"migrations", "services">>
Critical(name) == name \in {"database", "redis", "migrations", "services"}
Answers(name) ==
    CASE name \in {"database", "redis", "migrations", "services"} -> {"healthy", "unhealthy"}
      [] name = "litellm" -> {"healthy", "degraded"}
      [] OTHER -> {"healthy", "degraded", "unhealthy"}
Results == {"healthy", "degraded", "unhealthy"}

VARIABLES
    probe,          \* probe -> which endpoint, and the results so far
    sloStatus       \* id -> the last status calculated

healthVars == <<probe, sloStatus>>

NoProbe == [kind |-> "idle", results |-> <<>>, rejected |-> {}, verdict |-> "none", code |-> 0]
NoStatus == [current |-> -1, consumed |-> 0, status |-> "none"]
HealthTypeOK ==
    /\ \A p \in Probes :
         /\ probe[p].kind \in {"idle", "health", "ready", "one", "done_health", "done_ready", "done_one"}
         /\ \A i \in DOMAIN probe[p].results : probe[p].results[i] \in Results
         /\ probe[p].rejected \subseteq 1..3
         /\ probe[p].verdict \in Results \cup {"none", "ready", "not_ready"}
         /\ probe[p].code \in {0, 200, 404, 503}
    /\ \A id \in DOMAIN SLOs :
         sloStatus[id].status \in {"none", "healthy", "warning", "critical"}

HealthInit ==
    /\ probe = [p \in Probes |-> NoProbe]
    /\ sloStatus = [id \in DOMAIN SLOs |-> NoStatus]

ChecksOf(kind) == IF kind \in {"health", "done_health"} THEN HealthSeq ELSE ReadinessSeq

Ask(p, kind) ==
    /\ probe[p].kind = "idle"
    /\ probe' = [probe EXCEPT ![p] = [NoProbe EXCEPT !.kind = kind,
                    !.verdict = IF kind = "health" THEN "healthy" ELSE "ready"]]
    /\ UNCHANGED sloStatus

(* Mutant: a check that comes later decides.                               *)
LastVerdict(kind, verdict, name, result, rejected) ==
    IF kind = "ready" THEN IF result = "healthy" THEN "ready" ELSE "not_ready"
    ELSE IF Critical(name) /\ result = "unhealthy" THEN "unhealthy"
    ELSE IF ~rejected /\ result = "degraded" THEN "degraded" ELSE verdict

(* The status after one more result.                                       *)
Verdict(kind, verdict, name, result, rejected) ==
    IF kind = "ready" THEN IF result = "healthy" THEN verdict ELSE "not_ready"
    ELSE IF Critical(name) /\ result = "unhealthy" THEN "unhealthy"
    ELSE IF ~rejected /\ result = "degraded" /\ verdict # "unhealthy" THEN "degraded"
    ELSE verdict

StatusCode(verdict) == IF verdict \in {"healthy", "degraded", "ready"} THEN 200 ELSE 503

(* One check of checkHealth or checkReadiness: its result, or "unhealthy"  *)
(* when it rejects or takes too long.  After the last the endpoint answers.*)
Check(p) ==
    LET kind == probe[p].kind
        i == Len(probe[p].results) + 1
        last == i = Len(ChecksOf(kind))
    IN
    /\ kind \in {"health", "ready"}
    /\ \E rejected \in BOOLEAN :
       \E result \in IF rejected THEN {"unhealthy"} ELSE Answers(ChecksOf(kind)[i]) :
         LET v == Verdict(kind, probe[p].verdict, ChecksOf(kind)[i], result, rejected) IN
         probe' = [probe EXCEPT ![p] =
                    [kind |-> IF ~last THEN kind ELSE IF kind = "health" THEN "done_health"
                              ELSE "done_ready",
                     results |-> Append(@.results, result),
                     rejected |-> IF rejected THEN @.rejected \cup {i} ELSE @.rejected,
                     verdict |-> v,
                     code |-> IF last THEN StatusCode(v) ELSE 0]]
    /\ UNCHANGED sloStatus

(* GET /health/:checkName asks for a check by its name, and is answered    *)
(* 404 when it is registered under neither endpoint.                       *)
OneProbe(kind, results, code) ==
    [kind |-> kind, results |-> results, rejected |-> {}, verdict |-> "none", code |-> code]
AskOne(p) ==
    /\ probe[p].kind = "idle"
    /\ \/ probe' = [probe EXCEPT ![p] = OneProbe("one", <<>>, 0)]
       \/ probe' = [probe EXCEPT ![p] = OneProbe("done_one", <<>>, 404)]
    /\ UNCHANGED sloStatus

(* checkIndividual has no timeout: it is answered when the check is, if it *)
(* ever is, and a check that rejects counts as unhealthy.                  *)
CheckIndividual(p) ==
    /\ probe[p].kind = "one"
    /\ \E result \in Results :
         probe' = [probe EXCEPT ![p] = OneProbe("done_one", <<result>>, StatusCode(result))]
    /\ UNCHANGED sloStatus

-----------------------------------------------------------------------------
(* calculateStatus: what of the error budget is consumed, as a fraction of *)
(* it, and what is left, never less than none.                             *)
Consumed(id, current) == IF current >= SLOs[id].target THEN 0 ELSE SLOs[id].target - current
Remaining(id, current) ==
    IF Consumed(id, current) >= SLOs[id].budget THEN 0
    ELSE SLOs[id].budget - Consumed(id, current)

(* Mutant: the larger threshold is tested first.                           *)
WarningFirstStatus(id, current) ==
    IF 4 * Remaining(id, current) < SLOs[id].budget THEN "warning"
    ELSE IF 10 * Remaining(id, current) < SLOs[id].budget THEN "critical" ELSE "healthy"

BudgetStatus(id, current) ==
    IF 10 * Remaining(id, current) < SLOs[id].budget THEN "critical"
    ELSE IF 4 * Remaining(id, current) < SLOs[id].budget THEN "warning" ELSE "healthy"

CalculateStatus(id, current) ==
    /\ sloStatus' = [sloStatus EXCEPT ![id] =
                      [current |-> current, consumed |-> Consumed(id, current),
                       status |-> BudgetStatus(id, current)]]
    /\ UNCHANGED probe

(* generateReport, getByStatus, hasViolations.                             *)
Reported == {id \in DOMAIN SLOs : sloStatus[id].status # "none"}
ByStatus(status) == {id \in Reported : sloStatus[id].status = status}
(* getTimeToExhaustion is null, endless, or a number.                      *)
TimeToExhaustion(id) ==
    IF sloStatus[id].status = "none" \/ Remaining(id, sloStatus[id].current) = 0 THEN "null"
    ELSE IF sloStatus[id].consumed = 0 THEN "Infinity" ELSE "hours"

Probing(p) ==
    Ask(p, "health") \/ Ask(p, "ready") \/ Check(p) \/ AskOne(p) \/ CheckIndividual(p)

HealthNext ==
    \/ \E p \in Probes : Probing(p)
    \/ \E id \in DOMAIN SLOs, v \in SloValues : CalculateStatus(id, v)

-----------------------------------------------------------------------------
(* The answer of a probe follows from all results whatever their order: it *)
(* is 503 exactly when a critical check was unhealthy or cut off, or when  *)
(* a readiness check was anything but healthy; "degraded" needs a check    *)
(* that said so.  A check asked for alone is 503 when it is unhealthy,     *)
(* also one that does not count against /health.                           *)
HealthJudged == \A p \in Probes :
    LET seq == ChecksOf(probe[p].kind)
        got(r) == {i \in DOMAIN probe[p].results : probe[p].results[i] = r}
    IN
    /\ probe[p].kind = "done_health" =>
         /\ probe[p].code = 503 <=> \E i \in got("unhealthy") : Critical(seq[i])
         /\ probe[p].verdict = "degraded" <=> got("degraded") # {} /\ probe[p].code = 200
    /\ probe[p].kind = "done_ready" =>
         (probe[p].code = 503 <=> got("healthy") # DOMAIN seq)
    /\ probe[p].kind = "done_one" =>
         (probe[p].code = 503 <=> probe[p].results = <<"unhealthy">>)

(* The report of the objectives adds up and ranks them: of two objectives  *)
(* the one that has a larger part of its budget left never has the worse   *)
(* status, and one is never exhausted without being a violation.           *)
Rank(status) == CASE status = "healthy" -> 0 [] status = "warning" -> 1 [] OTHER -> 2
SlosRanked ==
    /\ Cardinality(Reported) = Cardinality(ByStatus("healthy"))
         + Cardinality(ByStatus("warning")) + Cardinality(ByStatus("critical"))
    /\ \A a, b \in Reported :
         LET left(x) == Remaining(x, sloStatus[x].current) IN
         left(a) * SLOs[b].budget >= left(b) * SLOs[a].budget =>
           Rank(sloStatus[a].status) <= Rank(sloStatus[b].status)
    /\ \A id \in Reported : TimeToExhaustion(id) = "null" => id \in ByStatus("critical")
=============================================================================
