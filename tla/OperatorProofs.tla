---------------------------- MODULE OperatorProofs ----------------------------
(***************************************************************************)
(* What the daemon does for whoever operates it and what it tells them,    *)
(* proved for every number of clients, reads, restarts and crashes: the    *)
(* reports of health (RuntimeHealth), the exit codes of the command line   *)
(* (ApiClient) and what a join leaves behind (JoinNetwork).                *)
(***************************************************************************)
EXTENDS RuntimeHealth, ApiClient, JoinNetwork, TLAPS

(* ---------------------------- health reports --------------------------- *)

Report == [bluez : BOOLEAN, adapters : {"none", "off", "on"}, bnep : BOOLEAN,
           nap : {"no", "unknown", "yes"}, nm : BOOLEAN, fwd : BOOLEAN]
Status == [health : {"none", "error", "degraded", "healthy"}, adapter : BOOLEAN, panu : BOOLEAN,
           nap : {"no", "unknown", "yes"}, nm : BOOLEAN]
Screens == {"overview", "networks", "diagnostics"}
Body == [shows : Screens \cup {"offline"}, status : Status, system : {"none", "off", "on"}]
Terminal == [at : {"loading", "cloning", "waiting", "quit"}, screen : Screens, body : Body]

\* A read uses what the earlier ones found: there are adapters only with a BlueZ
\* that was up, and a host only with the prerequisites of a client.
Consistent(r) ==
  /\ r \in Report
  /\ r.adapters # "none" => r.bluez
  /\ r.nap = "yes" => PanuAvailable(r)

\* Before read n the fields of the later reads have their defaults.
ReadSoFar(r, n) ==
  /\ Consistent(r)
  /\ n = 1 => r.adapters = "none"
  /\ n \in 1 .. 4 => r.nap = "no"

OfOneReport(s, adapters) ==
  \E r \in Report, ok \in BOOLEAN : s = Observation(r, ok) /\ adapters = r.adapters

HealthTyped ==
  /\ machine \in Machine /\ report \in Report /\ last \in Report /\ status \in Status
  /\ system \in {"none", "off", "on"} /\ reconciled \in BOOLEAN /\ probe \in 1 .. 7
  /\ phase \in {"down", "probing", "serving"} /\ worker \in {"none", "parked", "probing", "system"}
  /\ statusLock \in {"free", "worker", "reader"} /\ tui \in Terminal

HealthInv ==
  /\ HealthTyped
  /\ ReadSoFar(report, probe)
  /\ worker # "none" <=> phase = "serving"
  /\ statusLock = "worker" <=> worker = "system"
  /\ statusLock = "reader" <=> tui.at = "cloning"
  /\ phase = "serving" =>
       /\ Consistent(last) /\ status = Observation(last, reconciled)
       /\ IF worker = "system" THEN last = report ELSE system = last.adapters
  /\ tui.at = "cloning" =>
       phase = "serving" /\ tui.body.shows = "diagnostics" /\ tui.body.status = status
  /\ tui.at # "cloning" /\ tui.body.shows = "diagnostics" =>
       OfOneReport(tui.body.status, tui.body.system)

\* What a report is published as.
LEMMA ObservationTyped ==
  ASSUME NEW r \in Report, NEW ok \in BOOLEAN
  PROVE  Observation(r, ok) \in Status
<1>1. ClassifySupport(r) \in {"unsupported", "degraded", "client", "full"}
  BY DEF ClassifySupport
<1>2. HealthForSupport(ClassifySupport(r), ok) \in {"error", "degraded", "healthy"}
  BY <1>1 DEF HealthForSupport
<1> QED
  BY <1>2 DEF Observation, NodeCapabilities, PanuAvailable, Report, Status

\* Health is good exactly with the prerequisites of a client and a restored network;
\* one that could host must also be able to forward (classify_support).
LEMMA HealthyIs ==
  ASSUME NEW r, Consistent(r), NEW ok \in BOOLEAN
  PROVE  (Observation(r, ok).health = "healthy") <=>
           (ok /\ PanuAvailable(r) /\ r.nm /\ (r.nap = "no" \/ (r.nap = "yes" /\ r.fwd)))
BY DEF Observation, HealthForSupport, ClassifySupport, PanuAvailable, Consistent, Report

\* PlatformCheck offers a role when nothing blocks it or is unknown.
LEMMA OfferedIs ==
  ASSUME NEW s \in Status, NEW role \in {"observed", "blocked", "unknown"}
  PROVE  (Offered(s, role) = "observed") <=> (s.adapter /\ role = "observed" /\ s.nm /\ s.health = "healthy")
BY DEF Offered, Combine, Backend, Status

\* What the desktop offers for the status published from r.
LEMMA OffersFollowReport ==
  ASSUME NEW r, Consistent(r), NEW ok \in BOOLEAN
  PROVE  LET s == Observation(r, ok) IN
         /\ PlatformCheck(s).create = "observed" <=>
              /\ ok /\ PanuAvailable(r) /\ r.nm /\ r.fwd /\ r.nap = "yes"
         /\ PlatformCheck(s).join = "observed" <=>
              /\ ok /\ PanuAvailable(r) /\ r.nm
              /\ r.nap = "no" \/ (r.nap = "yes" /\ r.fwd)
<1> DEFINE s == Observation(r, ok)
<1>0. r \in Report
  BY DEF Consistent
<1>1. s \in Status
  BY <1>0, ObservationTyped
<1>2. s.adapter = (r.adapters = "on") /\ s.panu = PanuAvailable(r) /\ s.nap = r.nap /\ s.nm = r.nm
  BY DEF Observation, NodeCapabilities
<1>3. ObservedCapability(s.nap) \in {"observed", "blocked", "unknown"}
      /\ (ObservedCapability(s.nap) = "observed" <=> s.nap = "yes")
  BY <1>1 DEF ObservedCapability, Status
<1>4. PlatformCheck(s).create = "observed" <=>
        (s.adapter /\ s.nap = "yes" /\ s.nm /\ s.health = "healthy")
  <2>1. PlatformCheck(s).create = Offered(s, ObservedCapability(s.nap))
    BY DEF PlatformCheck
  <2> QED
    BY <2>1, <1>1, <1>3, OfferedIs
<1>5. PlatformCheck(s).join = "observed" <=>
        (s.adapter /\ s.panu /\ s.nm /\ s.health = "healthy")
  <2>1. PlatformCheck(s).join = Offered(s, IF s.panu THEN "observed" ELSE "blocked")
    BY DEF PlatformCheck
  <2> QED
    BY <2>1, <1>1, OfferedIs
<1>6. (s.health = "healthy") <=>
        (ok /\ PanuAvailable(r) /\ r.nm /\ (r.nap = "no" \/ (r.nap = "yes" /\ r.fwd)))
  BY HealthyIs
<1>7. PanuAvailable(r) => r.adapters = "on"
  BY DEF PanuAvailable
<1> HIDE DEF s
<1>8. /\ PlatformCheck(s).create = "observed" <=>
           /\ ok /\ PanuAvailable(r) /\ r.nm /\ r.fwd /\ r.nap = "yes"
      /\ PlatformCheck(s).join = "observed" <=>
           /\ ok /\ PanuAvailable(r) /\ r.nm
           /\ r.nap = "no" \/ (r.nap = "yes" /\ r.fwd)
  BY <1>2, <1>4, <1>5, <1>6, <1>7
<1> QED
  BY <1>8 DEF s

\* The status and the adapters of one report never contradict each other.
LEMMA OneReportShows ==
  ASSUME NEW s, NEW adapters, OfOneReport(s, adapters)
  PROVE  /\ s.adapter <=> adapters = "on"
         /\ s.health \in {"healthy", "degraded"} => adapters # "none"
<1> PICK r \in Report, ok \in BOOLEAN : s = Observation(r, ok) /\ adapters = r.adapters
  BY DEF OfOneReport
<1>1. s.adapter = (r.adapters = "on") /\ s.health = HealthForSupport(ClassifySupport(r), ok)
  BY DEF Observation, NodeCapabilities
<1>2. r.adapters = "none" => ClassifySupport(r) = "unsupported"
  BY DEF ClassifySupport
<1>3. HealthForSupport("unsupported", ok) = "error"
  BY DEF HealthForSupport
<1> QED
  BY Zenon, <1>1, <1>2, <1>3

\* The later reads of a report, one by one.
LEMMA ReadIs ==
  ASSUME NEW r, NEW n
  PROVE  /\ n = 4 => Read(r, n) = [r EXCEPT !.nap = InspectNap(r)]
         /\ n = 5 => Read(r, n) = [r EXCEPT !.nm = machine.nm]
         /\ n = 6 => Read(r, n) = [r EXCEPT !.fwd = machine.fwd]
<1>1. ASSUME n = 4 PROVE Read(r, n) = [r EXCEPT !.nap = InspectNap(r)]
  <2>1. n # 1 /\ n # 2 /\ n # 3 /\ n # 5 /\ n # 6
    BY <1>1
  <2> QED
    BY Zenon, <1>1, <2>1 DEF Read
<1>2. ASSUME n = 5 PROVE Read(r, n) = [r EXCEPT !.nm = machine.nm]
  <2>1. n # 1 /\ n # 2 /\ n # 3 /\ n # 4 /\ n # 6
    BY <1>2
  <2> QED
    BY Zenon, <1>2, <2>1 DEF Read
<1>3. ASSUME n = 6 PROVE Read(r, n) = [r EXCEPT !.fwd = machine.fwd]
  <2>1. n # 1 /\ n # 2 /\ n # 3 /\ n # 4 /\ n # 5
    BY <1>3
  <2> QED
    BY Zenon, <1>3, <2>1 DEF Read
<1> QED
  BY Zenon, <1>1, <1>2, <1>3

\* A read of the report builds on the ones before it (report).
LEMMA ReadKeeps ==
  ASSUME machine \in Machine, NEW r, NEW n \in 1 .. 6, ReadSoFar(r, n)
  PROVE  ReadSoFar(Read(r, n), n + 1)
<1>0. r \in Report
  BY SMTT(20) DEF ReadSoFar, Consistent
<1>1. CASE n = 1
  BY SMTT(20), <1>0, <1>1 DEF Read, ReadSoFar, Consistent, Report, PanuAvailable, Machine
<1>2. CASE n = 2
  BY SMTT(20), <1>0, <1>2 DEF Read, ReadSoFar, Consistent, Report, PanuAvailable, ReadAdapters, Machine
<1>3. CASE n = 3
  BY <1>0, <1>3 DEF Read, ReadSoFar, Consistent, Report, PanuAvailable, Machine
<1>4. CASE n = 4
  <2> DEFINE q == [r EXCEPT !.nap = InspectNap(r)]
  <2>1. Read(r, n) = q
    BY Zenon, <1>4, ReadIs
  <2>2. InspectNap(r) \in {"no", "unknown", "yes"}
    BY DEF InspectNap
  <2>3. q \in Report
    BY <1>0, <2>2 DEF Report
  <2>4. /\ q.bluez = r.bluez /\ q.adapters = r.adapters
        /\ q.bnep = r.bnep /\ q.nap = InspectNap(r)
    BY <1>0 DEF Report
  <2> HIDE DEF q
  <2>5. q.nap = "yes" => PanuAvailable(q)
    BY <2>4 DEF InspectNap, PanuAvailable
  <2> QED
    BY SMTT(20), <1>4, <2>1, <2>3, <2>4, <2>5 DEF ReadSoFar, Consistent
<1>5. CASE n = 5
  <2> DEFINE q == [r EXCEPT !.nm = machine.nm]
  <2>1. Read(r, n) = q
    BY Zenon, <1>5, ReadIs
  <2>2. q \in Report
    BY <1>0 DEF Report, Machine
  <2>3. /\ q.bluez = r.bluez /\ q.adapters = r.adapters
        /\ q.bnep = r.bnep /\ q.nap = r.nap
    BY <1>0 DEF Report
  <2> HIDE DEF q
  <2> QED
    BY SMTT(20), <1>5, <2>1, <2>2, <2>3 DEF ReadSoFar, Consistent, PanuAvailable
<1>6. CASE n = 6
  <2> DEFINE q == [r EXCEPT !.fwd = machine.fwd]
  <2>1. Read(r, n) = q
    BY Zenon, <1>6, ReadIs
  <2>2. q \in Report
    BY <1>0 DEF Report, Machine
  <2>3. /\ q.bluez = r.bluez /\ q.adapters = r.adapters
        /\ q.bnep = r.bnep /\ q.nap = r.nap
    BY <1>0 DEF Report
  <2> HIDE DEF q
  <2> QED
    BY SMTT(20), <1>6, <2>1, <2>2, <2>3 DEF ReadSoFar, Consistent, PanuAvailable
<1> QED
  BY <1>1, <1>2, <1>3, <1>4, <1>5, <1>6

\* The values before anything was read or published.
LEMMA NoReportTyped == NoReport \in Report /\ ReadSoFar(NoReport, 1)
BY DEF NoReport, Report, ReadSoFar, Consistent

\* The status of a daemon that is not there.
LEMMA UnservedTyped == Unserved \in Status
BY DEF Unserved, Status

\* The screen of a front end that cannot reach the daemon.
LEMMA OfflineTyped == Offline \in Body /\ Offline.shows = "offline"
BY DEF Body, Screens, Offline, Status, Unserved

\* A report is begun or read further; nothing published changes.
LEMMA ProbeKeeps ==
  ASSUME HealthInv, ProbeStep \/ Start \/ Unpark
  PROVE  HealthInv'
<1> USE DEF HealthInv
<1>1. CASE ProbeStep
  <2>1. probe \in 1 .. 6 /\ ReadSoFar(report', probe')
    BY <1>1, ReadKeeps DEF ProbeStep, HealthTyped
  <2>2. report' \in Report /\ probe' \in 1 .. 7
    BY <1>1, <2>1 DEF ProbeStep, ReadSoFar, Consistent, HealthTyped
  <2>3. worker # "system"
    BY <1>1 DEF ProbeStep, Probing, HealthTyped
  <2> QED
    BY <1>1, <2>1, <2>2, <2>3 DEF ProbeStep, HealthTyped, service, OfOneReport
<1>2. CASE Start
  BY <1>2, NoReportTyped DEF Start, HealthTyped, service, OfOneReport
<1>3. CASE Unpark
  BY <1>3, NoReportTyped DEF Unpark, HealthTyped, service, OfOneReport
<1> QED
  BY <1>1, <1>2, <1>3

\* Publication: first the status and then the adapters, under the status lock
\* (update_runtime_observation).
LEMMA PublishKeeps ==
  ASSUME HealthInv, Serve \/ UpdateStatus \/ UpdateSystem
  PROVE  HealthInv'
<1> USE DEF HealthInv
<1>0. Consistent(report) /\ report \in Report
  BY DEF ReadSoFar, Consistent
<1>1. CASE Serve
  <2> PICK ok \in BOOLEAN : reconciled' = ok /\ status' = Observation(report, ok)
    BY <1>1 DEF Serve
  <2>1. status' \in Status
    BY SMTT(20), <1>0, ObservationTyped
  <2>2. tui.at # "cloning" /\ worker' = "parked" /\ statusLock # "worker"
    BY <1>1 DEF Serve, HealthTyped
  <2> QED
    BY <1>0, <1>1, <2>1, <2>2 DEF Serve, HealthTyped, Report, OfOneReport
<1>2. CASE UpdateStatus
  <2>1. status' \in Status
    BY <1>0, <1>2, ObservationTyped DEF UpdateStatus, HealthTyped
  <2> QED
    BY <1>0, <1>2, <2>1 DEF UpdateStatus, HealthTyped, OfOneReport
<1>3. CASE UpdateSystem
  BY <1>0, <1>3 DEF UpdateSystem, HealthTyped, Report, OfOneReport
<1> QED
  BY <1>1, <1>2, <1>3

\* The front end shows a body and lets go of the status lock.
LEMMA ScreenStep ==
  ASSUME HealthInv, NEW b \in Body, tui' = [tui EXCEPT !.at = "waiting", !.body = b],
         b.shows = "diagnostics" => OfOneReport(b.status, b.system),
         statusLock' = IF statusLock = "reader" THEN "free" ELSE statusLock,
         UNCHANGED <<machine, phase, worker, probe, report, reconciled, status, system, last>>
  PROVE  HealthInv'
<1>1. tui' \in Terminal /\ tui'.at = "waiting" /\ tui'.body = b
  BY Zenon DEF HealthInv, HealthTyped, Terminal
<1>2. HealthTyped'
  BY <1>1 DEF HealthInv, HealthTyped
<1> QED
  BY <1>1, <1>2 DEF HealthInv, OfOneReport

\* The front end loads, clones or waits.
LEMMA ShowKeeps ==
  ASSUME HealthInv, Load \/ Timeout \/ Key
  PROVE  HealthInv'
<1> USE DEF HealthInv
<1>1. CASE LoadOverview
  <2> DEFINE b == [shows |-> "overview", status |-> status, system |-> "none"]
  <2>1. b \in Body
    BY DEF HealthTyped, Body, Screens
  <2>2. tui' = [tui EXCEPT !.at = "waiting", !.body = b]
    BY <1>1 DEF LoadOverview
  <2> QED
    BY Zenon, <1>1, <2>1, <2>2, ScreenStep DEF LoadOverview, service
<1>2. CASE LoadList
  <2> DEFINE b == [shows |-> "networks", status |-> Unserved, system |-> "none"]
  <2>1. b \in Body
    BY DEF Body, Screens, Status, Unserved
  <2>2. tui' = [tui EXCEPT !.at = "waiting", !.body = b]
    BY <1>2 DEF LoadList
  <2> QED
    BY Zenon, <1>2, <2>1, <2>2, ScreenStep DEF LoadList, service
<1>3. CASE CloneStatus
  <2> DEFINE b == [shows |-> "diagnostics", status |-> status, system |-> "none"]
  <2>1. b \in Body
    BY DEF HealthTyped, Body, Screens
  <2>2. tui' = [tui EXCEPT !.at = "cloning", !.body = b]
    BY <1>3 DEF CloneStatus
  <2>3. tui' \in Terminal /\ tui'.at = "cloning" /\ tui'.body = b
    BY Zenon, <2>1, <2>2 DEF HealthTyped, Terminal
  <2>4. tui'.body.shows = "diagnostics" /\ tui'.body.status = status
    BY <2>3
  <2> QED
    BY <1>3, <2>3, <2>4 DEF CloneStatus, HealthTyped
<1>4. CASE CloneSystem
  <2>1. /\ status = Observation(last, reconciled) /\ system = last.adapters /\ last \in Report
        /\ reconciled \in BOOLEAN /\ tui.body.status = status
    BY <1>4 DEF CloneSystem, HealthTyped
  <2>2. OfOneReport(status, system)
    BY <2>1 DEF OfOneReport
  <2> DEFINE b == [tui.body EXCEPT !.system = system]
  <2>3. b \in Body /\ b.status = status /\ b.system = system
    BY <2>1 DEF HealthTyped, Terminal, Body
  <2>4. tui' = [tui EXCEPT !.at = "waiting", !.body = b]
    BY <1>4 DEF CloneSystem
  <2> QED
    BY Zenon, <1>4, <2>2, <2>3, <2>4, ScreenStep DEF CloneSystem, HealthTyped
<1>5. CASE LoadFails
  BY Zenon, <1>5, OfflineTyped, ScreenStep DEF LoadFails, service
<1>6. CASE Timeout \/ Key
  <2>1. tui.at = "waiting" /\ UNCHANGED <<machine, phase, worker, probe, report, service>>
    BY <1>6 DEF Timeout, Key
  <2>2. tui' \in Terminal /\ tui'.at # "cloning" /\ tui'.body = tui.body
    BY Zenon, <1>6 DEF Timeout, Key, HealthTyped, Terminal, Screens
  <2> QED
    BY <2>1, <2>2 DEF HealthTyped, service, OfOneReport
<1> QED
  BY <1>1, <1>2, <1>3, <1>4, <1>5, <1>6 DEF Load

\* The machine changes, or the daemon dies with what it published.
LEMMA SurroundingsKeep ==
  ASSUME HealthInv, Change \/ DaemonDies \/ UNCHANGED healthVars
  PROVE  HealthInv'
<1> USE DEF HealthInv
<1>1. CASE Change
  BY <1>1 DEF Change, HealthTyped, service, OfOneReport
<1>2. CASE DaemonDies
  <2>1. tui' \in Terminal /\ tui'.at # "cloning" /\ tui'.body \in {tui.body, Offline}
        /\ (tui.at = "cloning" => tui'.body = Offline)
    BY Zenon, <1>2, OfflineTyped DEF DaemonDies, HealthTyped, Terminal
  <2>2. tui'.body.shows = "diagnostics" => tui' = tui
    BY <1>2, <2>1, OfflineTyped DEF DaemonDies
  <2>3. HealthTyped'
    <3>1. /\ machine' \in Machine /\ report' \in Report /\ last' \in Report /\ status' \in Status
          /\ system' \in {"none", "off", "on"} /\ probe' \in 1 .. 7
      BY <1>2, NoReportTyped, UnservedTyped DEF DaemonDies, HealthTyped
    <3>2. reconciled' \in BOOLEAN
      BY Zenon, <1>2 DEF DaemonDies
    <3> QED
      BY <1>2, <2>1, <3>1, <3>2 DEF DaemonDies, HealthTyped
  <2> QED
    BY Zenon, <1>2, <2>1, <2>2, <2>3, NoReportTyped DEF DaemonDies, OfOneReport
<1>3. CASE UNCHANGED healthVars
  BY <1>3 DEF healthVars, HealthTyped, OfOneReport
<1> QED
  BY <1>1, <1>2, <1>3

\* For every number of changes, crashes and keys: what the service publishes and a
\* snapshot of diagnostics shows is one report, and the desktop's offers are
\* those of that report (runtime_health.rs, lib.rs, platform_check.rs).
THEOREM PublishedStaysOneReport == HealthSpec => []PublishedIsOneReport
<1>1. HealthInit => HealthInv
  <2>1. HealthInit => machine \in Machine
    <3>1. Ready \in Machine
      BY DEF Ready, Machine
    <3>2. Bare \in Machine
      BY DEF Bare, Machine
    <3> QED
      BY <3>1, <3>2 DEF HealthInit
  <2>2. HealthInit => tui \in Terminal /\ tui.at = "loading" /\ tui.body = Offline
    BY OfflineTyped DEF HealthInit, Terminal, Screens
  <2>3. HealthInit => HealthTyped
    <3>1. HealthInit => reconciled \in BOOLEAN
      BY Zenon DEF HealthInit
    <3> QED
      BY <2>1, <2>2, <3>1, NoReportTyped, UnservedTyped DEF HealthInit, HealthTyped
  <2> QED
    BY <2>2, <2>3, NoReportTyped, OfflineTyped DEF HealthInit, HealthInv
<1>2. HealthInv /\ [HealthNext]_healthVars => HealthInv'
  BY ProbeKeeps, PublishKeeps, ShowKeeps, SurroundingsKeep DEF HealthNext, Daemon
<1>3. HealthInv => PublishedIsOneReport
  <2> SUFFICES ASSUME HealthInv PROVE PublishedIsOneReport
    OBVIOUS
  <2>1. ASSUME phase = "serving" PROVE Consistent(last) /\ status = Observation(last, reconciled) /\ reconciled \in BOOLEAN
    BY <2>1 DEF HealthInv, HealthTyped
  <2> QED
    BY <2>1, OffersFollowReport, OneReportShows DEF HealthInv, PublishedIsOneReport
<1> QED
  BY <1>1, <1>2, <1>3, PTL DEF HealthSpec

(* --------------------------- the command line -------------------------- *)

Numbers == Versions \cup {CURRENT, <<0, 0>>}
Seen == [node : Nat, key : Nat, network : Networks \cup {NoNetwork}, version : Numbers]
Daemons == [up : BOOLEAN, version : Numbers, node : Nat, key : Nat, network : Networks \cup {NoNetwork}]
Requests == Reads \cup Mutations \cup Inspections
Commands == [at : {"idle", "connect", "version", "call", "reply", "done"},
            op : Requests \cup {"none", "usage", "help"}, step : 1 .. 3,
            outcome : {"none", "denied", "unsupported", "failed", "ack", "value"},
            before : Seen, diag : Seen, after : Seen, expected : Seen,
            applied : Nat, strayed : BOOLEAN, exit : Int]

CliTyped ==
  /\ daemon \in Daemons /\ cli \in [Clients -> Commands] /\ held \in [Clients -> SUBSET Seen]
  /\ restarts \in Nat /\ invocations \in Nat

\* A mutation is carried out only on the way to its acknowledgement.
AppliedOnce(cl) ==
  /\ cl.at \in {"connect", "version", "call", "reply"} =>
       cl.op \in Requests /\ (cl.op \in Mutations => cl.step = 1)
  /\ cl.at \in {"connect", "version", "call"} => cl.applied = 0
  /\ cl.at = "reply" /\ cl.op \in Mutations =>
       /\ cl.outcome \in {"denied", "unsupported", "failed", "ack"}
       /\ cl.applied = IF cl.outcome = "ack" THEN 1 ELSE 0
  /\ cl.at = "reply" /\ cl.op \notin Mutations =>
       cl.applied = 0 /\ cl.outcome \in {"value", "failed"}

\* The snapshot of diagnostics is of a daemon that was there at one moment of the
\* command, and whose node is not older than the one of the first status.
Snapshot(cl, ids, node) ==
  \E x \in ids : /\ x.key = cl.diag.key /\ x.network = cl.diag.network /\ x.version = cl.diag.version
                 /\ cl.before.node <= x.node /\ x.node <= node

Named(d) == [node |-> d.node, key |-> d.key, network |-> d.network, version |-> d.version]

Observed(cl, ids, d) ==
  /\ cl.at \notin {"idle", "done"} => Named(d) \in ids
  /\ cl.before.node <= d.node
  /\ cl.step = 3 \/ (cl.step = 2 /\ cl.at = "reply") => Snapshot(cl, ids, d.node)
  /\ cl.step = 3 /\ cl.at = "reply" => Snapshot(cl, ids, cl.after.node)

Honest(cl, ids) ==
  cl.at = "done" =>
    /\ cl.applied <= 1
    /\ cl.exit = 0 /\ cl.op \in Mutations => cl.applied = 1
    /\ cl.exit \in {2, 4, 5} => cl.applied = 0
    /\ cl.exit = 0 /\ cl.op \in Inspections => LocalKey(cl) \in ids

Sound(cl, ids, d) == AppliedOnce(cl) /\ Observed(cl, ids, d) /\ Honest(cl, ids)

CliInv ==
  /\ CliTyped
  /\ daemon.node <= restarts + 1
  /\ ~daemon.up => daemon.node <= restarts
  /\ \A c \in Clients : Sound(cli[c], held[c], daemon)

\* A snapshot stays one of the daemons seen while more are seen.
LEMMA SnapshotStays ==
  ASSUME NEW cl \in Commands, NEW ids \in SUBSET Seen, NEW more \in SUBSET Seen, ids \subseteq more,
         NEW m \in Nat, NEW n \in Nat, m <= n, Snapshot(cl, ids, m)
  PROVE  Snapshot(cl, more, n)
BY DEF Snapshot, Seen, Commands

\* The daemon changes under a command.
LEMMA DaemonMoves ==
  ASSUME NEW cl \in Commands, NEW ids \in SUBSET Seen, NEW more \in SUBSET Seen, ids \subseteq more,
         NEW d \in Daemons, NEW e \in Daemons, d.node <= e.node, Named(e) \in more \cup {Named(d)},
         Sound(cl, ids, d)
  PROVE  Sound(cl, more, e)
<1>1. d.node \in Nat /\ e.node \in Nat /\ cl.after.node \in Nat /\ cl.before.node \in Nat
  BY DEF Daemons, Commands, Seen
<1>2. Observed(cl, more, e)
  <2>1. ASSUME cl.step = 3 \/ (cl.step = 2 /\ cl.at = "reply")
        PROVE  Snapshot(cl, more, e.node)
    BY <1>1, <2>1, SnapshotStays DEF Sound, Observed
  <2>2. ASSUME cl.step = 3, cl.at = "reply"
        PROVE  Snapshot(cl, more, cl.after.node)
    BY <1>1, <2>2, SnapshotStays DEF Sound, Observed
  <2>3. cl.before.node <= e.node
    BY <1>1 DEF Sound, Observed
  <2>4. cl.at \notin {"idle", "done"} => Named(e) \in more
    BY DEF Sound, Observed
  <2> QED
    BY <2>1, <2>2, <2>3, <2>4 DEF Observed
<1>3. Honest(cl, more)
  BY DEF Sound, Honest
<1> QED
  BY <1>2, <1>3 DEF Sound

\* The step of one command, which leaves the daemon alone.
LEMMA ClientStep ==
  ASSUME CliInv, NEW c \in Clients, NEW cl \in Commands, cli' = [cli EXCEPT ![c] = cl],
         daemon' = daemon, restarts' = restarts, invocations' \in Nat,
         NEW ids \in SUBSET Seen, held' = [held EXCEPT ![c] = ids], Sound(cl, ids, daemon)
  PROVE  CliInv'
<1>1. CliTyped'
  BY DEF CliInv, CliTyped
<1>2. \A d \in Clients : Sound(cli'[d], held'[d], daemon)
  BY DEF CliInv, CliTyped
<1> QED
  BY <1>1, <1>2 DEF CliInv

\* The command line that ends with an exit code.
LEMMA EndTyped ==
  ASSUME NEW cl \in Commands, NEW code \in Int
  PROVE  /\ [cl EXCEPT !.at = "done", !.exit = code] \in Commands
         /\ [cl EXCEPT !.at = "done", !.exit = code].exit = code
         /\ [cl EXCEPT !.at = "done", !.exit = code].at = "done"
         /\ \A f \in {"op", "step", "before", "diag", "after", "applied"} :
              [cl EXCEPT !.at = "done", !.exit = code][f] = cl[f]
<1>1. [cl EXCEPT !.at = "done", !.exit = code] \in Commands
  BY Zenon DEF Commands
<1>2. [cl EXCEPT !.at = "done", !.exit = code].exit = code
  BY DEF Commands
<1>3. [cl EXCEPT !.at = "done", !.exit = code].at = "done"
  BY DEF Commands
<1>4. \A f \in {"op", "step", "before", "diag", "after", "applied"} :
              [cl EXCEPT !.at = "done", !.exit = code][f] = cl[f]
  BY Zenon DEF Commands
<1> QED
  BY <1>1, <1>2, <1>3, <1>4

\* A command begins (parse, connect).
LEMMA InvokeKeeps ==
  ASSUME CliInv, NEW c \in Clients, Invoke(c)
  PROVE  CliInv'
<1>1. /\ Identity = Named(daemon) /\ Identity \in Seen /\ daemon.node \in Nat
      /\ invocations' \in Nat
  BY DEF CliInv, CliTyped, Identity, Named, Daemons, Seen, Invoke
<1>2. Fresh \in Commands /\ Fresh.step = 1 /\ Fresh.before.node = 0 /\ Fresh.applied = 0
  BY DEF Fresh, Commands, NoIdentity, Seen, Numbers
<1>3. ASSUME NEW op \in {"usage", "help"}, NEW code \in Int, code \in {0, 2},
             cli' = [cli EXCEPT ![c] = [Fresh EXCEPT !.at = "done", !.op = op, !.exit = code]]
      PROVE  CliInv'
  <2> DEFINE cl == [Fresh EXCEPT !.at = "done", !.op = op, !.exit = code]
  <2>1. cl \in Commands /\ cl.at = "done" /\ cl.op = op /\ cl.step = 1
        /\ cl.before.node = 0 /\ cl.applied = 0
    BY Zenon, <1>2 DEF Commands, Fresh
  <2>2. Sound(cl, {Identity}, daemon)
    BY <1>1, <2>1 DEF Sound, AppliedOnce, Observed, Honest, Mutations, Inspections
  <2>3. cli' = [cli EXCEPT ![c] = cl] /\ held' = [held EXCEPT ![c] = {Identity}]
        /\ daemon' = daemon /\ restarts' = restarts /\ {Identity} \in SUBSET Seen
    BY Zenon, <1>1, <1>3 DEF Invoke
  <2> HIDE DEF cl
  <2> QED
    BY Zenon, <1>1, <2>1, <2>2, <2>3, ClientStep
<1>4. ASSUME NEW op \in Requests, NEW was \in Seen,
             cli' = [cli EXCEPT ![c] = [Fresh EXCEPT !.at = "connect", !.op = op, !.expected = was]]
      PROVE  CliInv'
  <2> DEFINE cl == [Fresh EXCEPT !.at = "connect", !.op = op, !.expected = was]
  <2>1. cl \in Commands /\ cl.at = "connect" /\ cl.op = op /\ cl.step = 1
        /\ cl.before.node = 0 /\ cl.applied = 0
    BY Zenon, <1>2 DEF Commands, Fresh
  <2>2. Sound(cl, {Identity}, daemon)
    BY <1>1, <2>1 DEF Sound, AppliedOnce, Observed, Honest
  <2>3. cli' = [cli EXCEPT ![c] = cl] /\ held' = [held EXCEPT ![c] = {Identity}]
        /\ daemon' = daemon /\ restarts' = restarts /\ {Identity} \in SUBSET Seen
    BY Zenon, <1>1, <1>4 DEF Invoke
  <2> HIDE DEF cl
  <2> QED
    BY Zenon, <1>1, <2>1, <2>2, <2>3, ClientStep
<1>5. Fresh.expected \in Seen
  BY <1>2 DEF Commands
<1>6. PICK op \in Requests \cup {"usage", "help"} :
        cli' = [cli EXCEPT ![c] =
                  IF op \in {"usage", "help"}
                  THEN [Fresh EXCEPT !.at = "done", !.op = op, !.exit = IF op = "help" THEN 0 ELSE 2]
                  ELSE [Fresh EXCEPT !.at = "connect", !.op = op,
                                     !.expected = IF op \in {"verify", "verifykey"}
                                                  THEN Identity ELSE @]]
  BY Zenon DEF Invoke, Requests
<1>7. CASE op \in {"usage", "help"}
  <2>1. PICK code \in Int : code = IF op = "help" THEN 0 ELSE 2
    OBVIOUS
  <2> QED
    BY Zenon, <1>3, <1>6, <1>7, <2>1
<1>8. CASE op \notin {"usage", "help"}
  <2>1. PICK was \in Seen : was = IF op \in {"verify", "verifykey"} THEN Identity ELSE Fresh.expected
    BY <1>1, <1>5
  <2> QED
    BY Zenon, <1>4, <1>6, <1>8, <2>1
<1> QED
  BY <1>7, <1>8

\* A command whose call never reached the daemon, or whose answer was lost.
LEMMA EndsUnserved ==
  ASSUME NEW cl \in Commands, NEW ids \in SUBSET Seen, NEW d \in Daemons, Sound(cl, ids, d),
         cl.at \in {"connect", "version", "call", "reply"}
  PROVE  /\ [cl EXCEPT !.at = "done", !.exit = 3] \in Commands
         /\ Sound([cl EXCEPT !.at = "done", !.exit = 3], ids, d)
<1> PICK three \in Int : three = 3
  OBVIOUS
<1> DEFINE e == [cl EXCEPT !.at = "done", !.exit = three]
<1>0. e \in Commands
  BY Zenon, EndTyped
<1>1. /\ e.at = "done" /\ e.exit = 3 /\ e.op = cl.op /\ e.step = cl.step
      /\ e.before = cl.before /\ e.diag = cl.diag /\ e.after = cl.after /\ e.applied = cl.applied
  BY DEF Commands
<1> HIDE DEF e
<1>2. AppliedOnce(e) /\ Honest(e, ids)
  BY <1>1 DEF Sound, AppliedOnce, Honest
<1>3. Observed(e, ids, d)
  BY <1>1 DEF Sound, Observed, Snapshot
<1> QED
  BY <1>0, <1>2, <1>3 DEF Sound, e
\* The version is negotiated, or the command ends as unavailable.
LEMMA NegotiateKeeps ==
  ASSUME CliInv, NEW c \in Clients, Negotiate(c)
  PROVE  CliInv'
<1>1. /\ cli[c] \in Commands /\ held[c] \in SUBSET Seen /\ daemon \in Daemons /\ Sound(cli[c], held[c], daemon)
      /\ cli[c].at \in {"connect", "version"} /\ daemon' = daemon /\ restarts' = restarts
      /\ invocations' \in Nat /\ held' = [held EXCEPT ![c] = held[c]]
  BY DEF CliInv, CliTyped, Negotiate
<1>2. ASSUME NEW at \in {"version", "call"}, cli' = [cli EXCEPT ![c] = [cli[c] EXCEPT !.at = at]]
      PROVE  CliInv'
  <2> DEFINE e == [cli[c] EXCEPT !.at = at]
  <2>1. e \in Commands
    BY <1>1 DEF Commands
  <2>2. /\ e.at = at /\ e.op = cli[c].op /\ e.step = cli[c].step /\ e.before = cli[c].before
        /\ e.diag = cli[c].diag /\ e.after = cli[c].after /\ e.applied = cli[c].applied
    BY <1>1 DEF Commands
  <2>3. cli' = [cli EXCEPT ![c] = e]
    BY <1>2
  <2> HIDE DEF e
  <2>4. AppliedOnce(e) /\ Honest(e, held[c])
    BY <1>1, <2>2 DEF Sound, AppliedOnce, Honest
  <2>5. Observed(e, held[c], daemon)
    BY <1>1, <2>2 DEF Sound, Observed, Snapshot
  <2> QED
    BY Zenon, <1>1, <2>1, <2>3, <2>4, <2>5, ClientStep DEF Sound
<1>3. ASSUME cli' = [cli EXCEPT ![c] = [cli[c] EXCEPT !.at = "done", !.exit = 3]]
      PROVE  CliInv'
  BY Zenon, <1>1, <1>3, EndsUnserved, ClientStep
<1>4. \/ \E at \in {"version", "call"} : cli' = [cli EXCEPT ![c] = [cli[c] EXCEPT !.at = at]]
      \/ cli' = [cli EXCEPT ![c] = [cli[c] EXCEPT !.at = "done", !.exit = 3]]
  BY Zenon, <1>1 DEF Negotiate, Ends, CliInv, CliTyped
<1> QED
  BY <1>2, <1>3, <1>4

\* The next request of an inspection: the snapshot that was just answered, or the
\* status before it, is behind it now.
LEMMA InspectFurtherKeeps ==
  ASSUME CliInv, NEW c \in Clients, InspectFurther(c)
  PROVE  CliInv'
<1>1. /\ cli[c] \in Commands /\ held[c] \in SUBSET Seen /\ daemon \in Daemons /\ Sound(cli[c], held[c], daemon)
      /\ cli[c].at = "reply" /\ cli[c].op \in Inspections /\ cli[c].step \in 1 .. 2
      /\ daemon' = daemon /\ restarts' = restarts
      /\ invocations' \in Nat /\ held' = [held EXCEPT ![c] = held[c]]
  BY DEF CliInv, CliTyped, InspectFurther, Commands
<1> DEFINE e == [cli[c] EXCEPT !.at = "version", !.step = cli[c].step + 1]
<1>2. cli' = [cli EXCEPT ![c] = e]
  BY Zenon, <1>1 DEF InspectFurther, CliInv, CliTyped
<1>3. PICK n \in 1 .. 3 : n = cli[c].step + 1
  BY <1>1
<1>4. e = [cli[c] EXCEPT !.at = "version", !.step = n]
  BY <1>3
<1> HIDE DEF e
<1>5. e \in Commands
  BY Zenon, <1>1, <1>4 DEF Commands
<1>6. /\ e.at = "version" /\ e.op = cli[c].op /\ e.step = n /\ e.before = cli[c].before
      /\ e.diag = cli[c].diag /\ e.after = cli[c].after /\ e.applied = cli[c].applied
  BY <1>1, <1>4 DEF Commands
<1>7. cli[c].op \notin Mutations
  BY <1>1 DEF Inspections, Mutations
<1>8. AppliedOnce(e) /\ Honest(e, held[c])
  BY <1>1, <1>6, <1>7 DEF Sound, AppliedOnce, Honest, Requests
<1>9. Observed(e, held[c], daemon)
  BY <1>1, <1>3, <1>6 DEF Sound, Observed, Snapshot
<1> QED
  BY Zenon, <1>1, <1>2, <1>5, <1>8, <1>9, ClientStep DEF Sound

\* require_stable_local_identity holds the two statuses against the snapshot
\* between them.
LEMMA StableIsHeld ==
  ASSUME NEW cl \in Commands, NEW ids \in SUBSET Seen, Snapshot(cl, ids, cl.after.node),
         StableLocalIdentity(cl)
  PROVE  LocalKey(cl) \in ids
<1>1. PICK x \in ids : /\ x.key = cl.diag.key /\ x.network = cl.diag.network /\ x.version = cl.diag.version
                       /\ cl.before.node <= x.node /\ x.node <= cl.after.node
  BY DEF Snapshot
<1>2. x \in Seen /\ cl.before \in Seen /\ cl.after \in Seen
  BY DEF Commands
<1>3. x.node = cl.before.node
  BY <1>1, <1>2 DEF StableLocalIdentity, Seen
<1>4. x = [node |-> cl.before.node, key |-> cl.diag.key, network |-> cl.before.network,
           version |-> cl.before.version]
  BY <1>1, <1>2, <1>3 DEF StableLocalIdentity, Seen
<1> QED
  BY <1>4 DEF LocalKey

\* The command ends with the exit code of its answer.
LEMMA ReplyKeeps ==
  ASSUME CliInv, NEW c \in Clients, Reply(c)
  PROVE  CliInv'
<1> DEFINE cl == cli[c]
           e == [cl EXCEPT !.at = "done", !.exit = Finish(cl)]
<1>1. /\ cl \in Commands /\ held[c] \in SUBSET Seen /\ daemon \in Daemons /\ Sound(cl, held[c], daemon)
      /\ cl.at = "reply" /\ (cl.op \in Inspections /\ cl.outcome = "value" => cl.step = 3)
      /\ daemon' = daemon /\ restarts' = restarts
      /\ invocations' \in Nat /\ held' = [held EXCEPT ![c] = held[c]]
  BY DEF CliInv, CliTyped, Reply
<1>2. cli' = [cli EXCEPT ![c] = e]
  BY Zenon, <1>1 DEF Reply, Ends, CliInv, CliTyped
<1> HIDE DEF cl
<1>3. cl.op \in Requests /\ Reads \cap Mutations = {} /\ Inspections \cap Mutations = {}
      /\ Reads \cap Inspections = {} /\ Requests = Reads \cup Mutations \cup Inspections
  BY <1>1 DEF Sound, AppliedOnce, Requests, Reads, Mutations, Inspections
<1>4. \/ /\ cl.op \in Mutations /\ cl.outcome = "ack" /\ cl.applied = 1 /\ Finish(cl) = 0
      \/ /\ cl.op \in Mutations /\ cl.applied = 0 /\ Finish(cl) \in {1, 4, 5}
      \/ /\ cl.op \notin Mutations /\ cl.applied = 0 /\ Finish(cl) \in {0, 1}
         /\ Finish(cl) = 0 /\ cl.op \in Inspections => cl.step = 3 /\ StableLocalIdentity(cl)
  BY <1>1, <1>3 DEF Sound, AppliedOnce, Finish
<1>5. PICK code \in Int : code = Finish(cl)
  BY <1>4
<1>6. e \in Commands
  BY Zenon, <1>1, <1>5, EndTyped
<1>7. /\ e.at = "done" /\ e.exit = code /\ e.op = cl.op /\ e.step = cl.step /\ e.before = cl.before
      /\ e.diag = cl.diag /\ e.after = cl.after /\ e.applied = cl.applied
  BY <1>1, <1>5 DEF Commands
<1> HIDE DEF e
<1>8. code = 0 /\ cl.op \in Inspections => LocalKey(cl) \in held[c]
  BY <1>1, <1>3, <1>4, <1>5, StableIsHeld DEF Sound, Observed
<1>9. Honest(e, held[c])
  BY <1>3, <1>4, <1>5, <1>7, <1>8 DEF Honest, LocalKey
<1>10. AppliedOnce(e) /\ Observed(e, held[c], daemon)
  BY <1>1, <1>7 DEF Sound, AppliedOnce, Observed, Snapshot
<1> QED
  BY Zenon, <1>1, <1>2, <1>6, <1>9, <1>10, ClientStep DEF Sound

\* The command whose call the daemon answered.
LEMMA RepliedIs ==
  ASSUME CliInv, NEW c \in Clients, cli[c].at = "call",
         NEW o \in {"denied", "unsupported", "failed", "ack", "value"}
  PROVE  /\ Replied(c, o) \in Commands /\ Replied(c, o).at = "reply" /\ Replied(c, o).outcome = o
         /\ \A f \in {"op", "step", "before", "diag", "after", "applied", "exit"} :
              Replied(c, o)[f] = cli[c][f]
<1>1. cli[c] \in Commands
  BY DEF CliInv, CliTyped
<1>2. PICK b \in BOOLEAN : Replied(c, o) = [cli[c] EXCEPT !.at = "reply", !.outcome = o, !.strayed = b]
  BY Zenon DEF Replied
<1>3. Replied(c, o) \in Commands
  BY Zenon, <1>1, <1>2 DEF Commands
<1>4. Replied(c, o).at = "reply" /\ Replied(c, o).outcome = o
  BY <1>1, <1>2 DEF Commands
<1>5. \A f \in {"op", "step", "before", "diag", "after", "applied", "exit"} : Replied(c, o)[f] = cli[c][f]
  BY Zenon, <1>1, <1>2 DEF Commands
<1> QED
  BY <1>3, <1>4, <1>5

\* What is known of a command whose call is about to be delivered.
LEMMA CallIs ==
  ASSUME CliInv, NEW c \in Clients, Deliver(c)
  PROVE  /\ cli[c] \in Commands /\ held[c] \in SUBSET Seen /\ daemon \in Daemons
         /\ Sound(cli[c], held[c], daemon) /\ cli[c].at = "call" /\ cli[c].applied = 0
         /\ cli[c].op \in Requests /\ (cli[c].op \in Mutations => cli[c].step = 1)
         /\ Named(daemon) = Identity /\ Identity \in held[c] /\ Identity \in Seen
         /\ daemon.node \in Nat /\ Identity.node = daemon.node /\ cli[c].step \in 1 .. 3
         /\ cli[c].before.node <= daemon.node /\ restarts' = restarts /\ invocations' \in Nat
<1>1. /\ cli[c] \in Commands /\ held[c] \in SUBSET Seen /\ daemon \in Daemons
      /\ Sound(cli[c], held[c], daemon) /\ cli[c].at = "call" /\ restarts' = restarts /\ invocations' \in Nat
  BY DEF CliInv, CliTyped, Deliver
<1>2. cli[c].applied = 0 /\ cli[c].op \in Requests /\ (cli[c].op \in Mutations => cli[c].step = 1)
  BY <1>1 DEF Sound, AppliedOnce
<1>3. Named(daemon) = Identity /\ Identity.node = daemon.node
  BY DEF Named, Identity
<1>4. daemon.node \in Nat /\ Identity \in Seen
  BY <1>1 DEF Daemons, Seen, Identity
<1>5. cli[c].step \in 1 .. 3
  BY <1>1 DEF Commands
<1>6. Identity \in held[c] /\ cli[c].before.node <= daemon.node
  BY <1>1, <1>3 DEF Sound, Observed
<1> QED
  BY <1>1, <1>2, <1>3, <1>4, <1>5, <1>6

\* A mutation that is refused was not carried out.
LEMMA RefusedKeeps ==
  ASSUME CliInv, NEW c \in Clients, Deliver(c), cli[c].op \in Mutations,
         NEW o \in {"denied", "unsupported", "failed"}, cli' = [cli EXCEPT ![c] = Replied(c, o)],
         daemon' = daemon, held' = held
  PROVE  CliInv'
<1> DEFINE e == Replied(c, o)
<1>1. /\ e \in Commands /\ e.at = "reply" /\ e.outcome = o /\ e.op = cli[c].op /\ e.step = 1
      /\ e.before = cli[c].before /\ e.applied = 0
  BY SMTT(20), CallIs, RepliedIs
<1> HIDE DEF e
<1>2. AppliedOnce(e) /\ Honest(e, held[c])
  BY SMTT(20), <1>1, CallIs DEF AppliedOnce, Honest
<1>3. Observed(e, held[c], daemon)
  BY <1>1, CallIs DEF Observed
<1>4. cli' = [cli EXCEPT ![c] = e] /\ held' = [held EXCEPT ![c] = held[c]]
  BY DEF e, CliInv, CliTyped
<1> QED
  BY Zenon, <1>1, <1>2, <1>3, <1>4, CallIs, ClientStep DEF Sound

\* A read brings back what the daemon is at that moment.
LEMMA InspectedKeeps ==
  ASSUME CliInv, NEW c \in Clients, Deliver(c), daemon.up, cli[c].op \notin Mutations
  PROVE  CliInv'
<1> DEFINE x == IF cli[c].step = 1 THEN [Identity EXCEPT !.key = 0] ELSE cli[c].before
           y == IF cli[c].step = 2 THEN [Identity EXCEPT !.node = 0] ELSE cli[c].diag
           z == IF cli[c].step = 3 THEN [Identity EXCEPT !.key = 0] ELSE cli[c].after
<1>1. PICK o \in {"value", "failed"} :
        cli' = [cli EXCEPT ![c] = [Replied(c, o) EXCEPT
                  !.before = IF cli[c].step = 1 THEN [Identity EXCEPT !.key = 0] ELSE @,
                  !.diag = IF cli[c].step = 2 THEN [Identity EXCEPT !.node = 0] ELSE @,
                  !.after = IF cli[c].step = 3 THEN [Identity EXCEPT !.key = 0] ELSE @]]
  BY DEF Deliver
<1>2. x \in Seen /\ y \in Seen /\ z \in Seen
  BY SMTT(20), CallIs DEF Seen, Commands
<1>3. /\ Replied(c, o) \in Commands /\ Replied(c, o).at = "reply" /\ Replied(c, o).outcome = o
      /\ Replied(c, o).op = cli[c].op /\ Replied(c, o).step = cli[c].step /\ Replied(c, o).applied = 0
      /\ Replied(c, o).before = cli[c].before /\ Replied(c, o).diag = cli[c].diag
      /\ Replied(c, o).after = cli[c].after
  BY CallIs, RepliedIs
<1> DEFINE e == [Replied(c, o) EXCEPT !.before = x, !.diag = y, !.after = z]
<1>4. cli' = [cli EXCEPT ![c] = e] /\ held' = [held EXCEPT ![c] = held[c]] /\ daemon' = daemon
  BY <1>1, <1>3 DEF CliInv, CliTyped, Deliver
<1>5. e \in Commands
  BY Zenon, <1>2, <1>3 DEF Commands
<1>6. /\ e.at = "reply" /\ e.outcome = o /\ e.op = cli[c].op /\ e.step = cli[c].step
      /\ e.before = x /\ e.diag = y /\ e.after = z /\ e.applied = 0
  BY <1>2, <1>3 DEF Commands
<1> HIDE DEF e
<1>7. AppliedOnce(e) /\ Honest(e, held[c])
  BY <1>6, CallIs DEF AppliedOnce, Honest
<1>8. Observed(e, held[c], daemon)
  <2>1. CASE cli[c].step = 1
    BY <1>6, <2>1, CallIs DEF Observed, Identity
  <2>2. CASE cli[c].step = 2
    <3>1. y.key = Identity.key /\ y.network = Identity.network /\ y.version = Identity.version /\ x = cli[c].before
      BY <2>2 DEF Identity
    <3>2. Snapshot(e, held[c], daemon.node)
      BY <1>6, <3>1, CallIs DEF Snapshot
    <3> QED
      BY <1>6, <2>2, <3>1, <3>2, CallIs DEF Observed
  <2>3. CASE cli[c].step = 3
    <3>1. z.node = daemon.node /\ x = cli[c].before /\ y = cli[c].diag
      BY <2>3 DEF Identity
    <3>2. Snapshot(e, held[c], daemon.node)
      BY <1>6, <2>3, <3>1, CallIs DEF Sound, Observed, Snapshot
    <3> QED
      BY <1>6, <2>3, <3>1, <3>2, CallIs DEF Observed
  <2> QED
    BY SMTT(20), <2>1, <2>2, <2>3, CallIs
<1> QED
  BY Zenon, <1>4, <1>5, <1>7, <1>8, CallIs, ClientStep DEF Sound
\* A mutation that is carried out shows every command the network it leaves.
LEMMA CarriedOutKeeps ==
  ASSUME CliInv, NEW c \in Clients, Deliver(c), NEW n \in Networks \cup {NoNetwork},
         cli[c].op \in Mutations,
         daemon' = [daemon EXCEPT !.network = n],
         held' = [d \in Clients |-> held[d] \cup {[Identity EXCEPT !.network = n]}],
         cli' = [cli EXCEPT ![c] = [Replied(c, "ack") EXCEPT !.applied = @ + 1]]
  PROVE  CliInv'
<1> DEFINE r == Replied(c, "ack")
           e == [r EXCEPT !.applied = 1]
<1>1. /\ r \in Commands /\ r.at = "reply" /\ r.outcome = "ack" /\ r.op = cli[c].op /\ r.step = 1
      /\ r.before = cli[c].before /\ r.applied = 0
  BY CallIs, RepliedIs
<1>2. [r EXCEPT !.applied = @ + 1] = e
  BY <1>1
<1> HIDE DEF r
<1>3. e \in Commands
  BY <1>1 DEF Commands
<1>4. /\ e.at = "reply" /\ e.outcome = "ack" /\ e.op = cli[c].op /\ e.step = 1
      /\ e.before = cli[c].before /\ e.applied = 1
  BY <1>1 DEF Commands
<1> HIDE DEF e
<1>5. cli' = [cli EXCEPT ![c] = e]
  BY Zenon, <1>2 DEF r
<1>6. daemon \in Daemons /\ daemon' \in Daemons /\ daemon'.node = daemon.node /\ daemon'.up = daemon.up
      /\ Named(daemon') = [Identity EXCEPT !.network = n] /\ Named(daemon') \in Seen
  BY CallIs DEF Daemons, Named, Identity, Seen
<1>7. \A d \in Clients : held[d] \subseteq held'[d] /\ Named(daemon') \in held'[d] /\ held'[d] \in SUBSET Seen
  BY <1>6 DEF CliInv, CliTyped
<1>8. CliTyped'
  BY <1>3, <1>5, <1>6, <1>7, CallIs DEF CliInv, CliTyped
<1>9. Sound(cli'[c], held'[c], daemon')
  <2>1. AppliedOnce(e) /\ Honest(e, held'[c])
    BY <1>4, CallIs DEF AppliedOnce, Honest
  <2>2. Observed(e, held'[c], daemon')
    BY <1>4, <1>6, <1>7, CallIs DEF Observed
  <2> QED
    BY <1>5, <2>1, <2>2 DEF Sound, CliInv, CliTyped
<1>10. ASSUME NEW d \in Clients, d # c PROVE Sound(cli'[d], held'[d], daemon')
  <2>1. /\ cli'[d] = cli[d] /\ cli[d] \in Commands /\ held[d] \in SUBSET Seen
        /\ Sound(cli[d], held[d], daemon)
    BY <1>5, <1>10 DEF CliInv, CliTyped
  <2>2. daemon.node <= daemon'.node
    BY <1>6, CallIs
  <2>3. held'[d] \in SUBSET Seen /\ held[d] \subseteq held'[d] /\ Named(daemon') \in held'[d] \cup {Named(daemon)}
    BY <1>7
  <2>4. Sound(cli[d], held'[d], daemon')
    BY ONLY <1>6, <2>1, <2>2, <2>3, DaemonMoves
  <2> QED
    BY <2>1, <2>4
<1> QED
  BY Zenon, <1>6, <1>8, <1>9, <1>10, CallIs DEF CliInv

\* The call reaches the daemon there is, or none.
LEMMA DeliverKeeps ==
  ASSUME CliInv, NEW c \in Clients, Deliver(c)
  PROVE  CliInv'
<1>1. CASE ~daemon.up
  <2>1. /\ cli' = [cli EXCEPT ![c] = [cli[c] EXCEPT !.at = "done", !.exit = 3]]
        /\ held' = [held EXCEPT ![c] = held[c]] /\ daemon' = daemon
    BY Zenon, <1>1 DEF Deliver, Ends, CliInv, CliTyped
  <2> DEFINE e == [cli[c] EXCEPT !.at = "done", !.exit = 3]
  <2>2. e \in Commands /\ Sound(e, held[c], daemon)
    BY Zenon, CallIs, EndsUnserved
  <2> HIDE DEF e
  <2>3. cli' = [cli EXCEPT ![c] = e]
    BY <2>1 DEF e
  <2> QED
    BY Zenon, <2>1, <2>2, <2>3, CallIs, ClientStep
<1>2. CASE daemon.up /\ cli[c].op \in Mutations
  <2>1. Handles(c)
    BY <1>2 DEF Deliver
  <2>2. CASE \E o \in {"denied", "unsupported", "failed"} :
               cli' = [cli EXCEPT ![c] = Replied(c, o)] /\ daemon' = daemon /\ held' = held
    BY Zenon, <1>2, <2>2, RefusedKeeps
  <2>3. CASE \E n \in Networks \cup {NoNetwork} :
               /\ daemon' = [daemon EXCEPT !.network = n]
               /\ held' = [d \in Clients |-> held[d] \cup {[Identity EXCEPT !.network = n]}]
               /\ cli' = [cli EXCEPT ![c] = [Replied(c, "ack") EXCEPT !.applied = @ + 1]]
    BY Zenon, <1>2, <2>3, CarriedOutKeeps
  <2>4. daemon.network \in Networks \cup {NoNetwork}
    BY DEF CliInv, CliTyped, Daemons
  <2> QED
    BY <1>2, <2>1, <2>2, <2>3, <2>4 DEF Handles, Mutations
<1>3. CASE daemon.up /\ cli[c].op \notin Mutations
  BY <1>3, InspectedKeeps
<1> QED
  BY <1>1, <1>2, <1>3

\* The daemon dies; its identity is that of the last one.
LEMMA DiesKeeps ==
  ASSUME CliInv, Dies
  PROVE  CliInv'
<1>1. daemon \in Daemons /\ daemon' \in Daemons /\ daemon'.node = daemon.node /\ Named(daemon') = Named(daemon)
      /\ restarts \in Nat /\ restarts' = restarts + 1 /\ held' = held /\ daemon.node \in Nat
  BY Zenon DEF CliInv, CliTyped, Dies, Daemons, Named
<1>2. ASSUME NEW c \in Clients
      PROVE  Lost(cli[c]) \in Commands /\ Sound(Lost(cli[c]), held[c], daemon)
  BY Zenon, <1>1, EndsUnserved DEF CliInv, CliTyped, Lost
<1>3. CliTyped'
  BY <1>1, <1>2 DEF CliInv, CliTyped, Dies
<1>4. ASSUME NEW c \in Clients PROVE Sound(cli'[c], held'[c], daemon')
  <2>1. Lost(cli[c]) \in Commands /\ Sound(Lost(cli[c]), held[c], daemon) /\ held[c] \in SUBSET Seen
    BY <1>2 DEF CliInv, CliTyped
  <2>2. Sound(Lost(cli[c]), held[c], daemon')
    BY <1>1, <2>1, DaemonMoves
  <2> QED
    BY <1>1, <2>2 DEF Dies
<1>5. daemon'.node <= restarts'
  BY <1>1 DEF CliInv
<1> QED
  BY <1>1, <1>3, <1>4, <1>5 DEF CliInv, CliTyped

\* Another daemon takes the name, with the old, a renewed or a new identity; a new
\* one is newer than all seen.
LEMMA BusStartsKeeps ==
  ASSUME CliInv, BusStarts
  PROVE  CliInv'
<1>0. daemon.node \in Nat /\ daemon.key \in Nat /\ restarts + 1 \in Nat
  BY DEF CliInv, CliTyped, Daemons
<1>1. PICK v \in Versions, i \in [node : Nat, key : Nat] :
        /\ i.node \in {daemon.node, restarts + 1}
        /\ daemon' = [up |-> TRUE, version |-> v, node |-> i.node, key |-> i.key, network |-> daemon.network]
        /\ held' = [c \in Clients |-> held[c] \cup {[node |-> i.node, key |-> i.key, network |-> daemon.network,
                                                      version |-> v]}]
  <2>1. {[node |-> daemon.node, key |-> daemon.key], [node |-> daemon.node, key |-> restarts + 1],
         [node |-> restarts + 1, key |-> restarts + 1]}
          \subseteq {i \in [node : Nat, key : Nat] : i.node \in {daemon.node, restarts + 1}}
    BY <1>0
  <2> QED
    BY Zenon, <2>1 DEF BusStarts
<1>2. /\ daemon \in Daemons /\ daemon.node \in Nat /\ restarts \in Nat /\ daemon.node <= restarts
      /\ restarts' = restarts /\ invocations' = invocations /\ cli' = cli
  BY SMTT(20) DEF BusStarts, CliInv, CliTyped, Daemons
<1>3. /\ daemon' \in Daemons /\ daemon'.node = i.node /\ daemon.node <= daemon'.node
      /\ daemon'.node <= restarts + 1 /\ daemon'.up
  BY SMTT(20), <1>1, <1>2 DEF Daemons, Numbers
<1>4. Named(daemon') = [node |-> i.node, key |-> i.key, network |-> daemon.network, version |-> v]
      /\ Named(daemon') \in Seen
  BY <1>1, <1>2 DEF Named, Seen, Numbers, Daemons
<1>5. \A c \in Clients : held[c] \subseteq held'[c] /\ Named(daemon') \in held'[c] /\ held'[c] \in SUBSET Seen
  BY <1>1, <1>4 DEF CliInv, CliTyped
<1>6. CliTyped'
  BY <1>1, <1>2, <1>3, <1>5 DEF CliInv, CliTyped
<1>7. ASSUME NEW c \in Clients PROVE Sound(cli'[c], held'[c], daemon')
  BY <1>2, <1>3, <1>5, DaemonMoves DEF CliInv, CliTyped
<1> QED
  BY <1>2, <1>3, <1>6, <1>7 DEF CliInv

\* No command has run.
LEMMA CliInitially == CliInit => CliInv
<1> SUFFICES ASSUME CliInit PROVE CliInv
  OBVIOUS
<1>1. Fresh \in Commands
  BY DEF Fresh, Commands, NoIdentity, Seen, Numbers
<1>2. Fresh.at = "idle" /\ Fresh.step = 1 /\ Fresh.before.node = 0
  BY DEF Fresh, NoIdentity
<1>3. daemon \in Daemons /\ daemon.node = 1 /\ daemon.up
  BY DEF CliInit, Daemons, Numbers
<1>4. CliTyped
  BY <1>1, <1>3 DEF CliInit, CliTyped
<1>5. Sound(Fresh, {}, daemon)
  BY <1>2, <1>3 DEF Sound, AppliedOnce, Observed, Honest
<1> QED
  BY <1>3, <1>4, <1>5 DEF CliInit, CliInv

\* One case per action of CliNext.
LEMMA CliStep == CliInv /\ [CliNext]_cliVars => CliInv'
<1> SUFFICES ASSUME CliInv, [CliNext]_cliVars PROVE CliInv'
  OBVIOUS
<1>1. CASE UNCHANGED cliVars
  <2>1. daemon' = daemon /\ cli' = cli /\ held' = held /\ restarts' = restarts /\ invocations' = invocations
    BY <1>1 DEF cliVars
  <2> QED
    BY <2>1 DEF CliInv, CliTyped
<1> QED
  BY <1>1, InvokeKeeps, NegotiateKeeps, DeliverKeeps, InspectFurtherKeeps, ReplyKeeps, DiesKeeps, BusStartsKeeps
     DEF CliNext

\* The exit code of the command line is honest.
THEOREM ExitsStayHonest == CliSpec => []ExitsAreHonest
<1>1. CliInv => ExitsAreHonest
  BY DEF CliInv, Sound, Honest, ExitsAreHonest
<1> QED
  BY <1>1, CliInitially, CliStep, PTL DEF CliSpec

-----------------------------------------------------------------------------
\* Proof that memberships stay backed, for any number of calls and networks.

\* A call that holds the join flag: it runs, or it ended without proof that its
\* resources are gone.
Holds(c) == joinPc[c] \in Running \/ mayLive[c]

\* What a clean rollback has still to undo covers what is still there.
UndoCovers(c) ==
  \/ undo[c] = <<"control", "ip", "panu">>
  \/ undo[c] = <<"ip", "panu">> /\ live[c] \subseteq {"ip", "panu"}
  \/ undo[c] = <<"panu">> /\ live[c] \subseteq {"panu"}
  \/ undo[c] = <<>> /\ live[c] = {}

\* The resources each await of join_network finds in place.
Acquired(c) ==
  /\ joinPc[c] \in {"idle", "preflight"} => live[c] = {} /\ ~mayLive[c]
  /\ joinPc[c] \in Running \ {"preflight"} => mayLive[c]
  /\ joinPc[c] = "panu" => live[c] = {}
  /\ joinPc[c] = "ip" => live[c] = {"panu"}
  /\ joinPc[c] = "control" => live[c] = {"panu", "ip"}
  /\ joinPc[c] = "commit" => live[c] = JoinResources
  /\ joinPc[c] = "rollback" /\ clean[c] => UndoCovers(c)
  /\ joinPc[c] = "done" /\ result[c] # "Ok" /\ live[c] # {} => mayLive[c]
  /\ result[c] = "Ok" => ~mayLive[c]

\* A call that runs has no result yet and asks for a network; its lease is the
\* planned one until it rolls back.
InFlight(c) ==
  /\ joinPc[c] # "done" => result[c] = "none"
  /\ joinPc[c] \in Running => want[c] \in Joinable
  /\ joinPc[c] \notin {"rollback", "done"} => ~foreign[c]

\* The inductive invariant: the flag is taken exactly while one call holds it.
JoinIInv ==
  /\ JoinTypeOK
  /\ \A c \in Calls : Acquired(c) /\ InFlight(c)
  /\ \A c, d \in Calls : Holds(c) /\ Holds(d) => c = d
  /\ joining <=> \E c \in Calls : Holds(c)

\* The other calls rest.
Others(c) ==
  \A d \in Calls \ {c} :
    /\ joinPc'[d] = joinPc[d] /\ want'[d] = want[d] /\ mayLive'[d] = mayLive[d]
    /\ live'[d] = live[d] /\ foreign'[d] = foreign[d] /\ undo'[d] = undo[d]
    /\ clean'[d] = clean[d] /\ committed'[d] = committed[d] /\ result'[d] = result[d]

\* A step of one call, which takes, keeps or gives back the flag, or never has it.
LEMMA OneCallMoves ==
  ASSUME JoinIInv, NEW c \in Calls, JoinTypeOK', Others(c), Acquired(c)', InFlight(c)',
         \/ (Holds(c) \/ ~joining) /\ (joining' <=> Holds(c)')
         \/ ~Holds(c) /\ ~Holds(c)' /\ joining' = joining
  PROVE  JoinIInv'
<1>1. \A d \in Calls \ {c} : (Holds(d)' <=> Holds(d)) /\ Acquired(d)' /\ InFlight(d)'
  BY DEF Others, JoinIInv, Holds, Acquired, InFlight, UndoCovers
<1>2. \A d \in Calls : Acquired(d)' /\ InFlight(d)'
  BY <1>1
<1>3. \A d, e \in Calls : Holds(d)' /\ Holds(e)' => d = e
  BY <1>1 DEF JoinIInv
<1>4. joining' <=> \E d \in Calls : Holds(d)'
  BY <1>1 DEF JoinIInv
<1> QED BY <1>2, <1>3, <1>4 DEF JoinIInv

\* The flag is taken, or the call is refused before it changes anything.
LEMMA ClaimKeeps ==
  ASSUME JoinIInv, NEW c \in Calls, NEW n \in Joinable \cup {ZeroNetwork}, Claim(c, n)
  PROVE  JoinIInv'
<1> USE DEF Claim
<1>1. JoinTypeOK'
  BY JoinConstants DEF JoinIInv, JoinTypeOK, Running, JoinResources, Unwinds
<1>2. Others(c)
  BY DEF Others, JoinIInv, JoinTypeOK
<1>3. Acquired(c)'
  BY DEF JoinIInv, JoinTypeOK, Acquired, InFlight, UndoCovers, Running, JoinResources, Unwinds
<1>4. InFlight(c)'
  BY DEF JoinIInv, JoinTypeOK, InFlight, Running
<1>5. \/ (Holds(c) \/ ~joining) /\ (joining' <=> Holds(c)')
      \/ ~Holds(c) /\ ~Holds(c)' /\ joining' = joining
  BY DEF JoinIInv, JoinTypeOK, Acquired, Holds, Running
<1> QED BY <1>1, <1>2, <1>3, <1>4, <1>5, OneCallMoves

\* The preflight: adapter, plan and other leftovers.
LEMMA PreflightKeeps ==
  ASSUME JoinIInv, NEW c \in Calls, Preflight(c)
  PROVE  JoinIInv'
<1> USE DEF Preflight, Return, DropGuard
<1>1. JoinTypeOK'
  <2>1. live' \in [Calls -> SUBSET JoinResources]
    BY DEF JoinIInv, JoinTypeOK, JoinResources
  <2>2. undo' \in [Calls -> Unwinds]
    BY DEF JoinIInv, JoinTypeOK, Unwinds
  <2> QED BY <2>1, <2>2 DEF JoinIInv, JoinTypeOK, Running
<1>2. Others(c)
  BY DEF Others, JoinIInv, JoinTypeOK
<1>3. Acquired(c)'
  BY DEF JoinIInv, JoinTypeOK, Acquired, InFlight, UndoCovers, Running, JoinResources, Unwinds
<1>4. InFlight(c)'
  BY DEF JoinIInv, JoinTypeOK, InFlight, Running
<1>5. \/ (Holds(c) \/ ~joining) /\ (joining' <=> Holds(c)')
      \/ ~Holds(c) /\ ~Holds(c)' /\ joining' = joining
  BY DEF JoinIInv, JoinTypeOK, Acquired, Holds, Running
<1> QED BY <1>1, <1>2, <1>3, <1>4, <1>5, OneCallMoves

\* The PAN link comes up, or the call rolls back.
LEMMA EstablishPanuKeeps ==
  ASSUME JoinIInv, NEW c \in Calls, EstablishPanu(c)
  PROVE  JoinIInv'
<1> USE DEF EstablishPanu, Return, DropGuard
<1>1. JoinTypeOK'
  <2>1. live' \in [Calls -> SUBSET JoinResources]
    BY DEF JoinIInv, JoinTypeOK, JoinResources
  <2>2. undo' \in [Calls -> Unwinds]
    BY DEF JoinIInv, JoinTypeOK, Unwinds
  <2> QED BY <2>1, <2>2 DEF JoinIInv, JoinTypeOK, Running
<1>2. Others(c)
  BY DEF Others, JoinIInv, JoinTypeOK
<1>3. Acquired(c)'
  BY DEF JoinIInv, JoinTypeOK, Acquired, InFlight, UndoCovers, Running, JoinResources, Unwinds
<1>4. InFlight(c)'
  BY DEF JoinIInv, JoinTypeOK, InFlight, Running
<1>5. \/ (Holds(c) \/ ~joining) /\ (joining' <=> Holds(c)')
      \/ ~Holds(c) /\ ~Holds(c)' /\ joining' = joining
  BY DEF JoinIInv, JoinTypeOK, Acquired, Holds, Running
<1> QED BY <1>1, <1>2, <1>3, <1>4, <1>5, OneCallMoves

\* The address is configured, or the call rolls back.
LEMMA ConfigureIpKeeps ==
  ASSUME JoinIInv, NEW c \in Calls, ConfigureIp(c)
  PROVE  JoinIInv'
<1> USE DEF ConfigureIp, RollBack, LeaseMismatch
<1>1. JoinTypeOK'
  <2>1. live' \in [Calls -> SUBSET JoinResources]
    BY DEF JoinIInv, JoinTypeOK, JoinResources
  <2>2. undo' \in [Calls -> Unwinds]
    BY DEF JoinIInv, JoinTypeOK, Unwinds
  <2> QED BY <2>1, <2>2 DEF JoinIInv, JoinTypeOK, Running
<1>2. Others(c)
  BY DEF Others, JoinIInv, JoinTypeOK
<1>3. Acquired(c)'
  BY DEF JoinIInv, JoinTypeOK, Acquired, InFlight, UndoCovers, Running, JoinResources, Unwinds
<1>4. InFlight(c)'
  BY DEF JoinIInv, JoinTypeOK, InFlight, Running
<1>5. \/ (Holds(c) \/ ~joining) /\ (joining' <=> Holds(c)')
      \/ ~Holds(c) /\ ~Holds(c)' /\ joining' = joining
  BY DEF JoinIInv, JoinTypeOK, Acquired, Holds, Running
<1> QED BY <1>1, <1>2, <1>3, <1>4, <1>5, OneCallMoves

\* The control session starts, or the call rolls back.
LEMMA StartControlSessionKeeps ==
  ASSUME JoinIInv, NEW c \in Calls, StartControlSession(c)
  PROVE  JoinIInv'
<1> USE DEF StartControlSession, RollBack
<1>1. JoinTypeOK'
  <2>1. live' \in [Calls -> SUBSET JoinResources]
    BY DEF JoinIInv, JoinTypeOK, JoinResources
  <2>2. undo' \in [Calls -> Unwinds]
    BY DEF JoinIInv, JoinTypeOK, Unwinds
  <2> QED BY <2>1, <2>2 DEF JoinIInv, JoinTypeOK, Running
<1>2. Others(c)
  BY DEF Others, JoinIInv, JoinTypeOK
<1>3. Acquired(c)'
  BY DEF JoinIInv, JoinTypeOK, Acquired, InFlight, UndoCovers, Running, JoinResources, Unwinds
<1>4. InFlight(c)'
  BY DEF JoinIInv, JoinTypeOK, InFlight, Running
<1>5. \/ (Holds(c) \/ ~joining) /\ (joining' <=> Holds(c)')
      \/ ~Holds(c) /\ ~Holds(c)' /\ joining' = joining
  BY DEF JoinIInv, JoinTypeOK, Acquired, Holds, Running
<1> QED BY <1>1, <1>2, <1>3, <1>4, <1>5, OneCallMoves

\* The membership is saved under the lease as planned, or the call rolls back.
LEMMA CommitKeeps ==
  ASSUME JoinIInv, NEW c \in Calls, Commit(c)
  PROVE  JoinIInv'
<1> USE DEF Commit, Return, DropGuard, RollBack, MembershipUnchanged
<1>1. JoinTypeOK'
  <2>1. live' \in [Calls -> SUBSET JoinResources]
    BY DEF JoinIInv, JoinTypeOK, JoinResources
  <2>2. undo' \in [Calls -> Unwinds]
    BY DEF JoinIInv, JoinTypeOK, Unwinds
  <2>3. membership' \in Joinable \cup {NoMembership}
    BY DEF JoinIInv, JoinTypeOK, InFlight, Running
  <2> QED BY <2>1, <2>2, <2>3 DEF JoinIInv, JoinTypeOK, Running
<1>2. Others(c)
  BY DEF Others, JoinIInv, JoinTypeOK
<1>3. Acquired(c)'
  BY DEF JoinIInv, JoinTypeOK, Acquired, InFlight, UndoCovers, Running, JoinResources, Unwinds
<1>4. InFlight(c)'
  BY DEF JoinIInv, JoinTypeOK, InFlight, Running
<1>5. \/ (Holds(c) \/ ~joining) /\ (joining' <=> Holds(c)')
      \/ ~Holds(c) /\ ~Holds(c)' /\ joining' = joining
  BY DEF JoinIInv, JoinTypeOK, Acquired, Holds, Running
<1> QED BY <1>1, <1>2, <1>3, <1>4, <1>5, OneCallMoves

\* Rollback runs down a list of Unwinds, innermost resource first.
LEMMA UnwindOne ==
  /\ Head(<<"control", "ip", "panu">>) = "control" /\ Tail(<<"control", "ip", "panu">>) = <<"ip", "panu">>
  /\ Head(<<"ip", "panu">>) = "ip" /\ Tail(<<"ip", "panu">>) = <<"panu">>
  /\ Head(<<"panu">>) = "panu" /\ Tail(<<"panu">>) = <<>>
OBVIOUS

\* One resource is undone; a failure is remembered.
LEMMA UndoKeeps ==
  ASSUME JoinIInv, NEW c \in Calls, Undo(c)
  PROVE  JoinIInv'
<1> USE DEF Undo
<1>1. JoinTypeOK'
  <2>1. live' \in [Calls -> SUBSET JoinResources]
    BY DEF JoinIInv, JoinTypeOK, JoinResources
  <2>2. undo' \in [Calls -> Unwinds]
    BY UnwindOne DEF JoinIInv, JoinTypeOK, Unwinds
  <2> QED BY <2>1, <2>2 DEF JoinIInv, JoinTypeOK, Running
<1>2. Others(c)
  BY DEF Others, JoinIInv, JoinTypeOK
<1>3. Acquired(c)'
  <2>1. clean'[c] => clean[c] /\ live'[c] = live[c] \ {Head(undo[c])} /\ undo'[c] = Tail(undo[c])
    BY DEF JoinIInv, JoinTypeOK
  <2>2. ASSUME clean'[c] PROVE UndoCovers(c)'
    <3>1. UndoCovers(c) /\ undo[c] # <<>> /\ live[c] \subseteq JoinResources
      BY <2>1, <2>2 DEF JoinIInv, JoinTypeOK, Acquired
    <3>2. CASE undo[c] = <<"control", "ip", "panu">>
      BY <2>1, <2>2, <3>1, <3>2, UnwindOne DEF UndoCovers, JoinResources
    <3>3. CASE undo[c] = <<"ip", "panu">> /\ live[c] \subseteq {"ip", "panu"}
      BY <2>1, <2>2, <3>3, UnwindOne DEF UndoCovers
    <3>4. CASE undo[c] = <<"panu">> /\ live[c] \subseteq {"panu"}
      BY <2>1, <2>2, <3>4, UnwindOne DEF UndoCovers
    <3> QED BY <3>1, <3>2, <3>3, <3>4 DEF UndoCovers
  <2> QED BY <2>2 DEF JoinIInv, JoinTypeOK, Acquired, InFlight, Running
<1>4. InFlight(c)'
  BY DEF JoinIInv, JoinTypeOK, InFlight, Running
<1>5. \/ (Holds(c) \/ ~joining) /\ (joining' <=> Holds(c)')
      \/ ~Holds(c) /\ ~Holds(c)' /\ joining' = joining
  BY DEF JoinIInv, JoinTypeOK, Acquired, Holds, Running
<1> QED BY <1>1, <1>2, <1>3, <1>4, <1>5, OneCallMoves

\* The rollback ends: the flag is given back when everything was undone.
LEMMA EndUndoKeeps ==
  ASSUME JoinIInv, NEW c \in Calls, EndUndo(c)
  PROVE  JoinIInv'
<1> USE DEF EndUndo, Return, DropGuard
<1>1. JoinTypeOK'
  <2>1. live' \in [Calls -> SUBSET JoinResources]
    BY DEF JoinIInv, JoinTypeOK, JoinResources
  <2>2. undo' \in [Calls -> Unwinds]
    BY DEF JoinIInv, JoinTypeOK, Unwinds
  <2> QED BY <2>1, <2>2 DEF JoinIInv, JoinTypeOK, Running
<1>2. Others(c)
  BY DEF Others, JoinIInv, JoinTypeOK
<1>3. Acquired(c)'
  <2>1. clean[c] => live[c] = {}
    <3>1. joinPc[c] = "rollback" /\ undo[c] = <<>> /\ Acquired(c)
      BY DEF JoinIInv
    <3>2. clean[c] => UndoCovers(c)
      BY ONLY <3>1 DEF Acquired
    <3>3. /\ <<"control", "ip", "panu">> # <<>> /\ <<"ip", "panu">> # <<>>
          /\ <<"panu">> # <<>>
      BY ONLY TRUE
    <3> QED BY ONLY <3>1, <3>2, <3>3 DEF UndoCovers
  <2> QED BY <2>1 DEF JoinIInv, JoinTypeOK, Acquired, Running
<1>4. InFlight(c)'
  BY DEF JoinIInv, JoinTypeOK, InFlight, Running
<1>5. \/ (Holds(c) \/ ~joining) /\ (joining' <=> Holds(c)')
      \/ ~Holds(c) /\ ~Holds(c)' /\ joining' = joining
  BY DEF JoinIInv, JoinTypeOK, Acquired, Holds, Running
<1> QED BY <1>1, <1>2, <1>3, <1>4, <1>5, OneCallMoves

\* The caller gives up at an await.
LEMMA CancelKeeps ==
  ASSUME JoinIInv, NEW c \in Calls, Cancel(c)
  PROVE  JoinIInv'
<1> USE DEF Cancel, Return, DropGuard
<1>1. JoinTypeOK'
  <2>1. live' \in [Calls -> SUBSET JoinResources]
    BY DEF JoinIInv, JoinTypeOK, JoinResources
  <2>2. undo' \in [Calls -> Unwinds]
    BY DEF JoinIInv, JoinTypeOK, Unwinds
  <2> QED BY <2>1, <2>2 DEF JoinIInv, JoinTypeOK, Running
<1>2. Others(c)
  BY DEF Others, JoinIInv, JoinTypeOK
<1>3. Acquired(c)'
  BY DEF JoinIInv, JoinTypeOK, Acquired, InFlight, UndoCovers, Running, JoinResources, Unwinds
<1>4. InFlight(c)'
  BY DEF JoinIInv, JoinTypeOK, InFlight, Running
<1>5. \/ (Holds(c) \/ ~joining) /\ (joining' <=> Holds(c)')
      \/ ~Holds(c) /\ ~Holds(c)' /\ joining' = joining
  BY DEF JoinIInv, JoinTypeOK, Acquired, Holds, Running
<1> QED BY <1>1, <1>2, <1>3, <1>4, <1>5, OneCallMoves

\* Another writer of the membership store changes no call.
LEMMA OtherWriterKeeps ==
  ASSUME JoinIInv, NEW n \in Joinable \cup {NoMembership}, OtherWriter(n)
  PROVE  JoinIInv'
BY DEF OtherWriter, JoinIInv, JoinTypeOK, Acquired, InFlight, UndoCovers, Holds

\* JoinIInv gives the two state properties: leftovers hold the flag, and what
\* holds the flag is a cause.
LEMMA HolderIsTheCause ==
  ASSUME JoinIInv
  PROVE  JoinTypeOK /\ LeftoversBlockJoins /\ BlockedOnlyForCause
<1>1. LeftoversBlockJoins
  <2> SUFFICES ASSUME NEW c \in Calls, live[c] # {}, result[c] # "Ok"
               PROVE  joining /\ \A d \in Calls \ {c} : joinPc[d] \notin Running
    BY DEF LeftoversBlockJoins
  <2>1. Holds(c)
    BY DEF JoinIInv, JoinTypeOK, Acquired, Holds, Running
  <2> QED BY <2>1 DEF JoinIInv, Holds
<1>2. BlockedOnlyForCause
  <2> SUFFICES ASSUME joining PROVE \E c \in Calls :
        joinPc[c] \in Running \/ (joinPc[c] = "done" /\ result[c] # "Ok" /\ mayLive[c])
    BY DEF BlockedOnlyForCause
  <2>1. PICK c \in Calls : Holds(c)
    BY DEF JoinIInv
  <2> QED BY <2>1 DEF JoinIInv, JoinTypeOK, Acquired, Holds, Running
<1> QED BY <1>1, <1>2 DEF JoinIInv

\* Only the commit writes a membership or reports success, and it is reached
\* with every resource live and the planned lease.
LEMMA CommitsAreBacked ==
  ASSUME JoinIInv, [JoinNext]_joinVars
  PROVE  CommitIsBacked
<1>1. ASSUME NEW c \in Calls, Commit(c)
      PROVE  CommitIsBacked
  <2>1. Acquired(c) /\ InFlight(c) /\ JoinTypeOK
    BY DEF JoinIInv
  <2>2. live[c] = JoinResources /\ live' = live /\ want[c] \in Joinable /\ ~foreign[c]
    BY <1>1, <2>1 DEF Commit, Acquired, InFlight, Running
  <2>3. \A d \in Calls \ {c} : committed'[d] = committed[d] /\ result'[d] = result[d]
    BY <1>1, <2>1 DEF Commit, Return, JoinTypeOK
  <2>4. committed'[c] /\ ~committed[c] => membership = NoMembership /\ membership' = want[c]
    BY <1>1 DEF Commit, MembershipUnchanged
  <2>5. result'[c] = "Ok" /\ result[c] # "Ok" => committed'[c]
    BY <1>1, <2>1 DEF Commit, JoinTypeOK
  <2> QED BY <2>2, <2>3, <2>4, <2>5 DEF CommitIsBacked
<1>2. ASSUME committed' = committed, \A c \in Calls : result'[c] = "Ok" => result[c] = "Ok"
      PROVE  CommitIsBacked
  BY <1>2 DEF CommitIsBacked
<1>3. ASSUME NEW c \in Calls, CallStep(c), ~Commit(c)
      PROVE  committed' = committed /\ \A d \in Calls : result'[d] = "Ok" => result[d] = "Ok"
  <2>1. result \in [Calls -> {"none", "Ok", "Err", "Cancelled"}]
    BY DEF JoinIInv, JoinTypeOK
  <2> QED
    BY <1>3, <2>1 DEF CallStep, Claim, Preflight, EstablishPanu, ConfigureIp,
         StartControlSession, Undo, EndUndo, Cancel, Return
<1>4. ASSUME NEW n \in Joinable \cup {NoMembership}, OtherWriter(n)
      PROVE  committed' = committed /\ result' = result
  BY <1>4 DEF OtherWriter
<1>5. CASE UNCHANGED joinVars
  BY <1>2, <1>5 DEF joinVars
<1> QED BY <1>1, <1>2, <1>3, <1>4, <1>5 DEF JoinNext

\* Whatever fails, is dropped or writes the file in between: what a join left
\* behind holds the flag, nothing else does, and membership is committed only
\* over live resources (TransactionalJoinNetworkOperations::join_network).
THEOREM JoinsStayBacked == JoinSpec => MembershipIsBacked
<1>1. JoinInit => JoinIInv
  BY DEF JoinInit, JoinIInv, JoinTypeOK, Acquired, InFlight, Holds, Running, Unwinds
<1>2. JoinIInv /\ [JoinNext]_joinVars => JoinIInv'
  <2> SUFFICES ASSUME JoinIInv, [JoinNext]_joinVars PROVE JoinIInv'
    OBVIOUS
  <2>1. ASSUME NEW c \in Calls, CallStep(c) PROVE JoinIInv'
    BY <2>1, ClaimKeeps, PreflightKeeps, EstablishPanuKeeps, ConfigureIpKeeps, StartControlSessionKeeps,
       CommitKeeps, UndoKeeps, EndUndoKeeps, CancelKeeps DEF CallStep
  <2>2. CASE UNCHANGED joinVars
    BY <2>2 DEF joinVars, JoinIInv, JoinTypeOK, Acquired, InFlight, UndoCovers, Holds
  <2> QED BY <2>1, <2>2, OtherWriterKeeps DEF JoinNext
<1>3. JoinIInv /\ [JoinNext]_joinVars => CommitIsBacked
  BY CommitsAreBacked
<1>4. JoinIInv => JoinTypeOK /\ LeftoversBlockJoins /\ BlockedOnlyForCause
  BY HolderIsTheCause
<1>5. JoinIInv' => (JoinTypeOK /\ LeftoversBlockJoins /\ BlockedOnlyForCause)'
  BY <1>4, PTL
<1> QED BY <1>1, <1>2, <1>3, <1>5, PTL DEF JoinSpec, MembershipIsBacked
==============================================================================
