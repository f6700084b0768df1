------------------------------ MODULE AuditLog ------------------------------
(***************************************************************************)
(* apps/api/middleware/audit.ts, which makes an event of a request, and    *)
(* observability/audit-logger.ts, which buffers the events and ships them, *)
(* if it was given a shipper: monitoring-setup gives it none.              *)
(***************************************************************************)
EXTENDS Naturals, FiniteSets, SequencesExt

CONSTANTS
    BUFFER_SIZE,
    MaxEntries,     \* bound: entries logged
    MaxShipFailures \* bound: rejected shipments

ASSUME AuditAssumption ==
    BUFFER_SIZE \in Nat \ {0} /\ MaxEntries \in Nat /\ MaxShipFailures \in Nat

Methods == {"GET", "POST", "PUT", "DELETE"}
Resources == {"users", "teams", "runs", "permissions", "other"}
Requests == [method : Methods, resource : Resources, ok : BOOLEAN]
LogLevels == {"all", "high", "critical"}

(* shouldAudit: what writes, and reads of what is sensitive.               *)
ShouldAudit(q) == q.method # "GET" \/ q.resource \in {"users", "teams", "permissions"}

(* parseRequest: whatever is neither a POST nor a DELETE, a read included, *)
(* counts as an update, and anything else that is done to a run as its     *)
(* cancellation.                                                           *)
Verb(q) ==
    IF q.resource = "permissions" THEN IF q.method = "POST" THEN "grant" ELSE "revoke"
    ELSE IF q.resource = "other" THEN q.method
    ELSE CASE q.method = "POST" -> "create"
           [] q.method = "DELETE" -> "delete"
           [] OTHER -> IF q.resource = "runs" THEN "cancel" ELSE "update"

(* The events that other code tells by logLogin, logPermissionChange,      *)
(* logDataAccess, logSensitiveToolApproval, logSecurityEvent and           *)
(* logConfigChange: their verb, whether it went well, and the severity     *)
(* each of these passes.                                                   *)
Event(verb, ok, severity) == [verb |-> verb, ok |-> ok, severity |-> severity]
Told == {Event("login", TRUE, "low"), Event("failed_login", FALSE, "medium"),
         Event("grant", TRUE, "high"), Event("revoke", TRUE, "high"),
         Event("read", TRUE, "low"), Event("create", TRUE, "low"), Event("update", TRUE, "low"),
         Event("delete", TRUE, "medium"), Event("export", TRUE, "medium"),
         Event("tool", TRUE, "high"), Event("security", FALSE, "critical"),
         Event("config", TRUE, "medium")}

(* Mutant: failures are looked at first.                                   *)
FailuresFirstSeverity(verb, ok) ==
    IF verb \in {"export", "config"} \/ ~ok THEN "high"
    ELSE IF verb \in {"security", "tool", "delete", "DELETE", "grant", "revoke"} THEN "critical"
    ELSE IF verb \in {"create", "update"} THEN "medium" ELSE "low"

(* inferSeverity, by the verb of the event type, where no severity was     *)
(* passed; "tool" and "security" are the types that start with security.   *)
InferSeverity(verb, ok) ==
    IF verb \in {"security", "tool", "delete", "DELETE", "grant", "revoke"} THEN "critical"
    ELSE IF verb \in {"export", "config"} \/ ~ok THEN "high"
    ELSE IF verb \in {"create", "update"} THEN "medium" ELSE "low"

ShouldLog(level, severity) ==
    \/ level = "all"
    \/ level = "high" /\ severity \in {"high", "critical"}
    \/ level = "critical" /\ severity = "critical"

(* The requests and the told events that are logged at a level.            *)
Logged(level, q) == ShouldAudit(q) /\ ShouldLog(level, InferSeverity(Verb(q), q.ok))
LoggedTold(level, e) == ShouldLog(level, e.severity)

-----------------------------------------------------------------------------
VARIABLES
    logLevel,
    shipper,        \* the configuration has a shipper
    entries,        \* how many entries were logged (history)
    buffer,
    ships,          \* shipments under way
    shipped,        \* entries the shipper has (history)
    timers,         \* flush intervals that are set
    logger,         \* "on", "stopping", "off"
    lastShip,       \* the shipment that shutdown waits for
    early,          \* shutdown found a shipment under way (history)
    stopAt,         \* entries logged when shutdown was called (history)
    shipFailures

auditVars == <<logLevel, shipper, entries, buffer, ships, shipped, timers, logger, lastShip,
               early, stopAt, shipFailures>>

AuditTypeOK ==
    /\ logLevel \in LogLevels /\ shipper \in BOOLEAN /\ entries \in 0..MaxEntries
    /\ \A i \in DOMAIN buffer : buffer[i] \in 1..MaxEntries
    /\ \A s \in ships : \A i \in DOMAIN s : s[i] \in 1..MaxEntries
    /\ \A i \in DOMAIN shipped : shipped[i] \in 1..MaxEntries
    /\ timers \in 0..1 /\ logger \in {"on", "stopping", "off"}
    /\ early \in BOOLEAN /\ stopAt \in 0..MaxEntries /\ shipFailures \in 0..MaxShipFailures

AuditInit ==
    /\ logLevel \in LogLevels /\ shipper \in BOOLEAN /\ entries = 0 /\ buffer = <<>> /\ ships = {} /\ shipped = <<>>
    /\ timers = 1 /\ logger = "on" /\ lastShip = <<>> /\ early = FALSE
    /\ stopAt = 0 /\ shipFailures = 0

(* Mutant: the buffer is emptied only once the entries are shipped.        *)
LazyFlush(b) == /\ ships' = IF b = <<>> \/ ~shipper THEN ships ELSE ships \cup {b}
                /\ buffer' = b

(* flush takes the whole buffer, and returns at once without a shipper.    *)
Flush(b) == IF b = <<>> \/ ~shipper
            THEN ships' = ships /\ buffer' = b
            ELSE ships' = ships \cup {b} /\ buffer' = <<>>

(* log, also after a shutdown, of what is severe enough; a full buffer is  *)
(* flushed at once, also when only a shipment that failed has made it full.*)
Log(severity) ==
    /\ entries < MaxEntries
    /\ ShouldLog(logLevel, severity)
    /\ entries' = entries + 1
    /\ LET b == Append(buffer, entries + 1) IN
       IF Len(b) >= BUFFER_SIZE THEN Flush(b) ELSE buffer' = b /\ UNCHANGED ships
    /\ UNCHANGED <<logLevel, shipper, shipped, timers, logger, lastShip, early, stopAt, shipFailures>>

FlushInterval ==
    /\ timers > 0 /\ buffer # <<>>
    /\ Flush(buffer)
    /\ UNCHANGED <<logLevel, shipper, entries, shipped, timers, logger, lastShip, early,
                   stopAt, shipFailures>>

ShipDone(s) ==
    /\ s \in ships
    /\ ships' = ships \ {s} /\ shipped' = shipped \o s
    /\ logger' = IF logger = "stopping" /\ lastShip = s THEN "off" ELSE logger
    /\ UNCHANGED <<logLevel, shipper, entries, buffer, timers, lastShip, early, stopAt, shipFailures>>

(* Mutant: a rejected shipment is only logged.                             *)
DroppingShipFails(s) ==
    /\ s \in ships /\ shipFailures < MaxShipFailures
    /\ ships' = ships \ {s} /\ shipFailures' = shipFailures + 1
    /\ logger' = IF logger = "stopping" /\ lastShip = s THEN "off" ELSE logger
    /\ UNCHANGED <<logLevel, shipper, entries, buffer, shipped, timers, lastShip, early, stopAt>>

(* The entries go back to the front of the buffer, for the next flush, if  *)
(* there is one.                                                           *)
ShipFails(s) ==
    /\ s \in ships /\ shipFailures < MaxShipFailures
    /\ ships' = ships \ {s} /\ buffer' = s \o buffer /\ shipFailures' = shipFailures + 1
    /\ logger' = IF logger = "stopping" /\ lastShip = s THEN "off" ELSE logger
    /\ UNCHANGED <<logLevel, shipper, entries, shipped, timers, lastShip, early, stopAt>>

(* shutdown waits for its own flush only.                                  *)
Shutdown ==
    /\ logger = "on"
    /\ timers' = 0
    /\ Flush(buffer)
    /\ lastShip' = buffer /\ early' = (ships # {}) /\ stopAt' = entries
    /\ logger' = IF buffer = <<>> \/ ~shipper THEN "off" ELSE "stopping"
    /\ UNCHANGED <<logLevel, shipper, entries, shipped, shipFailures>>

AuditNext ==
    \/ \E q \in Requests : ShouldAudit(q) /\ Log(InferSeverity(Verb(q), q.ok))
    \/ \E e \in Told : Log(e.severity)
    \/ FlushInterval \/ Shutdown
    \/ \E s \in ships : ShipDone(s) \/ ShipFails(s)

-----------------------------------------------------------------------------
(* Every entry that was logged is in one place at any time: buffered, on   *)
(* its way or shipped, and in each place once.  The buffer is in the order *)
(* in which they were logged unless a shipment failed.  With a shipper, a  *)
(* shutdown that found no shipment under way ends with all entries before  *)
(* it shipped, unless a shipment failed; without one nothing ever leaves   *)
(* the buffer, at no size and by no shutdown.                              *)
Apart(s, t) == ToSet(s) \cap ToSet(t) = {}
EntriesKept ==
    /\ ToSet(shipped) \cup ToSet(buffer) \cup UNION {ToSet(s) : s \in ships} = 1..entries
    /\ \A s \in ships \cup {shipped, buffer} : IsInjective(s)
    /\ Apart(shipped, buffer)
    /\ \A s \in ships : /\ Apart(s, shipped) /\ Apart(s, buffer)
                       /\ \A t \in ships \ {s} : Apart(s, t)
    /\ shipFailures = 0 => \A i, j \in DOMAIN buffer : i < j => buffer[i] < buffer[j]
    /\ shipper /\ logger = "off" /\ ~early /\ shipFailures = 0 => 1..stopAt \subseteq ToSet(shipped)
    /\ ~shipper => ToSet(buffer) = 1..entries

(* Logging less is logging a part: what a stricter level records a laxer   *)
(* one records too, all writes at the laxest.  At the strictest level the  *)
(* requests that delete or that change permissions are there, also those   *)
(* that failed.  What other code tells is never rated above what its event *)
(* type and result would be: a change of permissions that is told is not   *)
(* logged at the strictest level, and neither is a deletion.               *)
LevelsNest ==
    /\ \A q \in Requests :
         /\ Logged("critical", q) => Logged("high", q)
         /\ Logged("high", q) => Logged("all", q)
         /\ q.method # "GET" => Logged("all", q)
         /\ q.method = "DELETE" \/ q.resource = "permissions" => Logged("critical", q)
    /\ \A e \in Told :
         /\ \A level \in LogLevels :
              LoggedTold(level, e) => ShouldLog(level, InferSeverity(e.verb, e.ok))
         /\ e.verb \in {"grant", "revoke"} => LoggedTold("high", e) /\ ~LoggedTold("critical", e)
         /\ e.verb = "delete" => ~LoggedTold("high", e)
=============================================================================
