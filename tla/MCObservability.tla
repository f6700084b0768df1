--------------------------- MODULE MCObservability ---------------------------
EXTENDS AlertManager, AuditLog, HealthChecks, Telemetry, Integrations, Security, TLC

Rule(metric, filter, operator, threshold, max, period, channels) ==
    [metric |-> metric, filter |-> filter, operator |-> operator, threshold |-> threshold,
     max |-> max, period |-> period, channels |-> channels]
CONSTANTS l1, l2
MCRules == << Rule("errors", NoLabel, "gt", 1, 2, 1, 0), Rule("errors", l1, "gte", 1, 0, 0, 1),
              Rule("depth", NoLabel, "lt", 1, 1, 1, 0) >>
MCSLOs == [availability |-> [target |-> 999, budget |-> 1],
           latency |-> [target |-> 950, budget |-> 50],
           cache |-> [target |-> 700, budget |-> 300]]
MCSloValues == {0, 410, 430, 700, 904, 912, 950, 998, 1000}

VARIABLE part
allVars == <<part, alertVars, auditVars, healthVars, telVars, intVars, limitVars>>

Init ==
    /\ part \in {"alerts", "audit", "probes", "slos", "traces", "http", "registry",
                 "tokens", "calls", "limits"}
    /\ AlertInit /\ AuditInit /\ HealthInit /\ TelemetryInit /\ IntInit /\ LimitInit
    /\ part # "audit" => logLevel = "all" /\ ~shipper
    /\ part # "traces" => ~reporter
    /\ part # "calls" => cloudId

Alerts(A) == /\ part = "alerts" /\ A
             /\ UNCHANGED <<part, auditVars, healthVars, telVars, intVars, limitVars>>
Audit(A) == /\ part = "audit" /\ A
            /\ UNCHANGED <<part, alertVars, healthVars, telVars, intVars, limitVars>>
Health(name, A) == /\ part = name /\ A
                   /\ UNCHANGED <<part, alertVars, auditVars, telVars, intVars, limitVars>>
Telemetry(name, A) == /\ part = name /\ A
                      /\ UNCHANGED <<part, alertVars, auditVars, healthVars, intVars, limitVars>>
Clients(name, A) == /\ part = name /\ A
                    /\ UNCHANGED <<part, alertVars, auditVars, healthVars, telVars, limitVars>>
Limits(A) == /\ part = "limits" /\ A
             /\ UNCHANGED <<part, alertVars, auditVars, healthVars, telVars, intVars>>

Next ==
    \/ Alerts(AlertNext) \/ Audit(AuditNext) \/ Limits(LimitNext)
    \/ Health("probes", \E p \in Probes : Probing(p))
    \/ Health("slos", \E id \in DOMAIN SLOs, v \in SloValues : CalculateStatus(id, v))
    \/ Telemetry("traces", \E c \in Calls : Tracing(c))
    \/ Telemetry("http", \E q \in HttpRequests : Hooking(q))
    \/ Telemetry("registry", Counting)
    \/ Clients("tokens", Authorizing)
    \/ Clients("calls", \/ \E c \in ApiCalls : Calling(c)
                        \/ Len(pairs) = 0 /\ SetAccessToken(FALSE, FALSE))

Spec == Init /\ [][Next]_allVars

(* The state of every part is of its type.                                 *)
TypeOK == /\ AlertTypeOK /\ AuditTypeOK /\ HealthTypeOK /\ TelemetryTypeOK
          /\ IntTypeOK /\ LimitTypeOK

(* What is read of the system is true of it: the alerts, the audit log,    *)
(* the health answers and objectives, the traces and the counters.         *)
SignalsTrue ==
    CASE part = "alerts" -> AlertsAgree
      [] part = "audit" -> EntriesKept /\ LevelsNest
      [] part = "probes" -> HealthJudged
      [] part = "slos" -> SlosRanked
      [] part \in {"traces", "http", "registry"} -> TracesTold
      [] OTHER -> TRUE

(* The clients of other services keep their tokens together and change     *)
(* nothing twice; requests are limited and permitted as the matrix says.   *)
BoundariesKept ==
    CASE part = "tokens" -> TokensTogether
      [] part = "calls" -> ChangesOnce
      [] part = "limits" -> LimitsFair /\ PermissionsGrow
      [] OTHER -> TRUE
=============================================================================
