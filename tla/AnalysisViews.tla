---------------------------- MODULE AnalysisViews ----------------------------
(***************************************************************************)
(* The analysis service with one request of its read API in flight:        *)
(* GET /devices/{id}, and GET /devices/{id}/telemetry of one window or of  *)
(* all.  They read several keys, one call of the repository after the      *)
(* other, while both consumer goroutines write them.  The requests that    *)
(* read one key (health, analysis, the list of devices) mix nothing and    *)
(* are left out, and so are those that read none.                          *)
(***************************************************************************)
EXTENDS Analysis

VARIABLES
    query,     \* the request in flight: what it reads next, of which device and windows
    seen       \* history: the telemetry messages projected when it read the telemetry

viewVars == <<query, seen>>

NoQuery == [next |-> "none", device |-> None, left |-> {}]

ViewInit == Init /\ query = NoQuery /\ seen = 0

\* A read of the repository comes back with a value, not ErrNotFound or another error.
Found(value) == storageUp /\ run # "stopped" /\ value # None

Reads(part) == query.next = part /\ UNCHANGED vars

\* The response is written, whatever it says.
Reply == query' = NoQuery /\ seen' = 0

------------------------------------------------------------------------------
\* How many telemetry messages the running process has projected or passed over.
Projected ==
    IF pc["telemetry"] \in {"aggregate", "roll", "evaluate", "analyse", "commit"}
        THEN position["telemetry"] + 1 ELSE position["telemetry"]

\* A request that finds no telemetry is answered at once.
ReadTelemetry(part, ws) ==
    /\ Reads("none")
    /\ run = "serving"
    /\ \E d \in Devices :
          /\ Found(latest["telemetry"][d])
          /\ query' = [next |-> part, device |-> d, left |-> ws]
    /\ seen' = Projected

\* handleDeviceComplete: an error or a missing part ends it.
BeginComplete == ReadTelemetry("health", {"1m"} \cap DOMAIN Windows)

HasMinute == "1m" \in DOMAIN Windows /\ Found(rolling[query.device]["1m"])

ReadHealth ==
    /\ Reads("health")
    /\ Found(latest["health"][query.device])
    /\ query' = [query EXCEPT !.next = "rolling"]
    /\ UNCHANGED seen

ReadRolling ==
    /\ Reads("rolling")
    /\ HasMinute
    /\ query' = [query EXCEPT !.next = "analysis", !.left = {}]
    /\ seen' = 0

GiveUp ==
    /\ \/ Reads("health") /\ ~Found(latest["health"][query.device])
       \/ Reads("rolling") /\ ~HasMinute
    /\ Reply

ReadAnalysis == Reads("analysis") /\ Reply

Complete == BeginComplete \/ ReadHealth \/ ReadRolling \/ GiveUp \/ ReadAnalysis

\* handleDeviceTelemetry: the window that is asked for, which must be configured, or all
\* of them; with more than one it goes on whatever a read comes to.
BeginTelemetry ==
    \/ \E w \in DOMAIN Windows : ReadTelemetry("windows", {w})
    \/ ReadTelemetry("windows", DOMAIN Windows)

ReadWindow ==
    /\ Reads("windows")
    /\ \E w \in query.left :
          \/ query.left = {w} /\ Reply
          \/ /\ query.left # {w}
             /\ query' = [query EXCEPT !.left = @ \ {w}]
             /\ UNCHANGED seen

Query == Complete \/ BeginTelemetry \/ ReadWindow

\* A request ends with the process.
ViewNext ==
    \/ Next /\ restarts' = restarts /\ UNCHANGED viewVars
    \/ Restart /\ Reply
    \/ Query

ViewSpec == ViewInit /\ [][ViewNext]_<<vars, viewVars>>

------------------------------------------------------------------------------
(* Properties *)

IsOf(m, d) == m # Junk /\ m.device = d

\* Window w of device d after one message more.
WindowStep(held, m, d, w) ==
    IF IsOf(m, d) THEN AddSample(held, m.sample, Windows[w]) ELSE held

\* Window w of device d after messages b+1..n of the telemetry topic.
WindowOver(tele, d, w, b, n) ==
    LET held[i \in b..n] == IF i = b THEN << >> ELSE WindowStep(held[i - 1], tele[i], d, w)
    IN held[n]

\* These metrics are of window w of d over messages b+1..n, one of them of d.
Covers(metrics, tele, d, w, b, n) ==
    /\ \E i \in (b + 1)..n : IsOf(tele[i], d)
    /\ metrics = CalculateMetrics(WindowOver(tele, d, w, b, n))

\* These metrics take in what the first r messages bring of d: they reach at least as far,
\* or there are none and nothing of d is there.
TakesIn(metrics, tele, d, w, r) ==
    \/ metrics = None /\ \A i \in 1..r : ~IsOf(tele[i], d)
    \/ \E n \in r..Len(tele) : \E b \in 0..n : Covers(metrics, tele, d, w, b, n)

\* A view never mixes its telemetry with older metrics than those of the event before:
\* from its first read on, whatever windows it has yet to read, each holds metrics of
\* the event it showed, of the one before, or of a later one (HandleTelemetry saves every
\* window of a message before it turns to the next; handleDeviceComplete and
\* handleDeviceTelemetry read the telemetry first).  With storage up, before shutdown,
\* without redelivery.
ViewLagsAtMostOne ==
    ( /\ query.next \in {"health", "rolling", "windows"}
      /\ rejoins = 0 /\ Faults \cap {"storage", "shutdown"} = {} ) =>
        \A w \in query.left :
            TakesIn(rolling[query.device][w], log["telemetry"], query.device, w, seen - 1)
==============================================================================
