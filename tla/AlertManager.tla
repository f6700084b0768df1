---------------------------- MODULE AlertManager ----------------------------
(***************************************************************************)
(* observability/alerts.ts: values of metrics are evaluated against the    *)
(* rules; an alert is opened once per rule and labels, throttled per rule, *)
(* resolved per rule, and sent to the channels of the rule in order.       *)
(***************************************************************************)
EXTENDS Naturals, FiniteSets, Sequences

CONSTANTS
    Metrics,
    RuleSeq,        \* the registered rules, in the order of registration
    Labels, NoLabel, \* the label values of a metric
    Values,
    MaxAlerts,      \* bound: alerts in the history
    MaxTime         \* bound: the clock

(* A rule: the metric it is about, the label it asks for (or NoLabel), the *)
(* comparison, how many alerts are allowed in a period (0: no throttle)    *)
(* and how many channels it has.                                           *)
ASSUME RuleAssumption ==
    /\ RuleSeq \in Seq([metric : Metrics, filter : Labels \cup {NoLabel},
                        operator : {"gt", "gte", "lt", "lte", "eq", "neq"}, threshold : Nat,
                        max : Nat, period : Nat, channels : Nat])
    /\ Values \subseteq Nat /\ MaxAlerts \in Nat /\ MaxTime \in Nat

VARIABLES
    alerts,         \* activeAlerts: key -> place in the history, 0 for none
    history,        \* alertHistory, with how far each alert was sent, and
                    \* whether no value has contradicted its rule since (held)
    throttle,       \* rule -> [count, windowStart]
    now

alertVars == <<alerts, history, throttle, now>>

RuleIds == DOMAIN RuleSeq
Keys == RuleIds \X (Labels \cup {NoLabel})
NoWindow == [count |-> 0, windowStart |-> 0]

AlertTypeOK ==
    /\ alerts \in [Keys -> 0..MaxAlerts] /\ Len(history) <= MaxAlerts
    /\ \A i \in DOMAIN history :
         /\ history[i].key \in Keys /\ {history[i].resolved, history[i].held} \subseteq BOOLEAN
         /\ history[i].at \in 0..MaxTime
         /\ history[i].sent \in 0..RuleSeq[history[i].key[1]].channels
    /\ throttle \in [RuleIds -> [count : 0..MaxAlerts, windowStart : 0..MaxTime]]
    /\ now \in 0..MaxTime

AlertInit ==
    /\ alerts = [k \in Keys |-> 0] /\ history = <<>>
    /\ throttle = [r \in RuleIds |-> NoWindow] /\ now = 0

-----------------------------------------------------------------------------
(* evaluateCondition.                                                      *)
Holds(r, v) ==
    LET t == RuleSeq[r].threshold IN
    CASE RuleSeq[r].operator = "gt" -> v > t
      [] RuleSeq[r].operator = "gte" -> v >= t
      [] RuleSeq[r].operator = "lt" -> v < t
      [] RuleSeq[r].operator = "lte" -> v <= t
      [] RuleSeq[r].operator = "eq" -> v = t
      [] OTHER -> v # t

(* A value without labels passes any filter.                               *)
Concerns(r, metric, label) ==
    /\ RuleSeq[r].metric = metric
    /\ NoLabel \in {RuleSeq[r].filter, label} \/ RuleSeq[r].filter = label

(* isThrottled: a window that is over is dropped, whether or not an alert  *)
(* follows.                                                                *)
Over(s, r) == s.throttle[r].count > 0 /\ now - s.throttle[r].windowStart > RuleSeq[r].period
Unthrottled(s, r) == IF Over(s, r) THEN [s EXCEPT !.throttle[r] = NoWindow] ELSE s
IsThrottled(s, r) == s.throttle[r].count > 0 /\ s.throttle[r].count >= RuleSeq[r].max

(* Mutant: the window starts over with every alert.                        *)
RestartWindow(window) == [count |-> 1, windowStart |-> now]

(* updateThrottleState.                                                    *)
UpdateThrottleState(window) ==
    IF window.count = 0 THEN [count |-> 1, windowStart |-> now]
    ELSE [window EXCEPT !.count = @ + 1]

Opened(s, r, label) ==
    [s EXCEPT !.history = Append(@, [key |-> <<r, label>>, resolved |-> FALSE, held |-> TRUE,
                                     at |-> now, sent |-> 0]),
              !.alerts[<<r, label>>] = Len(s.history) + 1,
              !.throttle[r] = IF RuleSeq[r].max = 0 THEN @ ELSE UpdateThrottleState(@)]

TriggerAlert(s, r, label) ==
    IF s.alerts[<<r, label>>] # 0 THEN s
    ELSE LET t == IF RuleSeq[r].max = 0 THEN s ELSE Unthrottled(s, r) IN
         IF RuleSeq[r].max > 0 /\ IsThrottled(t, r) THEN t ELSE Opened(t, r, label)

(* Mutant: the alert stays among the active ones.                          *)
ForgetfulResolveAlert(s, r) ==
    [s EXCEPT !.history = [i \in DOMAIN @ |-> IF @[i].key[1] = r
                                              THEN [@[i] EXCEPT !.resolved = TRUE] ELSE @[i]]]

(* resolveAlert: of the rule, for whichever labels.                        *)
ResolveAlert(s, r) ==
    [s EXCEPT !.history = [i \in DOMAIN @ |->
                             IF @[i].key[1] = r /\ i = s.alerts[@[i].key]
                             THEN [@[i] EXCEPT !.resolved = TRUE] ELSE @[i]],
              !.alerts = [k \in Keys |-> IF k[1] = r THEN 0 ELSE @[k]]]

Evaluate(s, r, value, label) ==
    IF Holds(r, value) THEN TriggerAlert(s, r, label) ELSE ResolveAlert(s, r)

(* evaluateMetric goes through the rules in order: what is after the first *)
(* n of them, of which those that the metric does not concern are skipped. *)
Evaluated(metric, value, label) ==
    LET after[n \in 0..Len(RuleSeq)] ==
          IF n = 0 THEN [alerts |-> alerts, history |-> history, throttle |-> throttle]
          ELSE IF Concerns(n, metric, label) THEN Evaluate(after[n - 1], n, value, label)
          ELSE after[n - 1]
    IN after[Len(RuleSeq)]

(* A value that does not satisfy a rule contradicts its alerts.            *)
Contradicts(metric, value, label, alert) ==
    Concerns(alert.key[1], metric, label) /\ ~Holds(alert.key[1], value)

EvaluateMetric(metric, value, label) ==
    LET s == Evaluated(metric, value, label) IN
    /\ Len(s.history) <= MaxAlerts
    /\ alerts' = s.alerts /\ throttle' = s.throttle
    /\ history' = [i \in DOMAIN s.history |->
                     [s.history[i] EXCEPT
                        !.held = @ /\ ~Contradicts(metric, value, label, s.history[i])]]
    /\ UNCHANGED now

(* Mutant: one channel too many.                                           *)
OverSendNotification(i) ==
    /\ i \in DOMAIN history /\ history[i].sent <= RuleSeq[history[i].key[1]].channels
    /\ history' = [history EXCEPT ![i].sent = @ + 1]
    /\ UNCHANGED <<alerts, throttle, now>>

(* sendNotifications: nobody waits for it, and a channel that fails is     *)
(* only logged.                                                            *)
SendNotification(i) ==
    /\ i \in DOMAIN history /\ history[i].sent < RuleSeq[history[i].key[1]].channels
    /\ history' = [history EXCEPT ![i].sent = @ + 1]
    /\ UNCHANGED <<alerts, throttle, now>>

AlertTime == now < MaxTime /\ now' = now + 1 /\ UNCHANGED <<alerts, history, throttle>>

AlertNext ==
    \/ \E metric \in Metrics, v \in Values, l \in Labels \cup {NoLabel} :
         EvaluateMetric(metric, v, l)
    \/ \E i \in 1..MaxAlerts : SendNotification(i)
    \/ AlertTime

-----------------------------------------------------------------------------
(* The list of active alerts is what the history says is unresolved: one   *)
(* alert per rule and labels, each about a condition that no value of the  *)
(* rule has contradicted since; and a throttled rule opens no more alerts  *)
(* in a window than it may.                                                *)
AlertsAgree ==
    /\ \A i \in DOMAIN history :
         ~history[i].resolved <=> alerts[history[i].key] = i
    /\ \A k \in Keys : alerts[k] # 0 =>
         history[alerts[k]].key = k /\ history[alerts[k]].held
    /\ \A r \in RuleIds : throttle[r].count > 0 =>
         LET opened == {i \in DOMAIN history :
                          /\ history[i].key[1] = r
                          /\ history[i].at >= throttle[r].windowStart
                          /\ history[i].at <= throttle[r].windowStart + RuleSeq[r].period}
         IN Cardinality(opened) <= RuleSeq[r].max
=============================================================================
