--------------------------- MODULE RuntimeHealth ---------------------------
(***************************************************************************)
(* What the daemon tells of the machine it runs on, and what its front ends *)
(* make of it.  SystemCapabilityProbe::report (blueroute-linux,             *)
(* capability_report.rs) reads the services and the kernel one after the    *)
(* other while they come and go; main.rs publishes the first report, the    *)
(* thread of runtime_health.rs every later one, under the two locks of      *)
(* DaemonService; the terminal front end (apps/tui/src/main.rs) polls the   *)
(* daemon, which may be restarted, and the desktop's PlatformCheck decides  *)
(* what may be offered.                                                     *)
(***************************************************************************)
EXTENDS Naturals

CONSTANTS MaxChanges, MaxCrashes, MaxKeys

VARIABLES machine,      \* what is there to be observed
          phase,        \* the daemon process: "down", "probing", "reconciling", "serving"
          worker,       \* the thread: "none", "parked", "probing", "status", "system"
          probe,        \* the next read of the report under way
          report,       \* its reads so far
          reconciled,   \* startup_reconciled
          status, system, statusLock, \* DaemonService
          last,         \* the report status was published from
          tui,          \* its screen, what is on it and what the loop does
          changes, crashes, keys

healthVars == <<machine, phase, worker, probe, report, reconciled, status, system, statusLock,
          last, tui, changes, crashes, keys>>
service == <<reconciled, status, system, statusLock, last>>
bounds == <<changes, crashes, keys>>

Machine == [bluez : BOOLEAN, adapters : {"none", "off", "on"}, bnep : BOOLEAN,
            nap : BOOLEAN, nm : BOOLEAN, fwd : BOOLEAN]
Ready == [bluez |-> TRUE, adapters |-> "on", bnep |-> TRUE, nap |-> TRUE, nm |-> TRUE, fwd |-> TRUE]
Bare == [bluez |-> FALSE, adapters |-> "none", bnep |-> FALSE, nap |-> FALSE, nm |-> FALSE, fwd |-> FALSE]
NoReport == [bluez |-> FALSE, adapters |-> "none", bnep |-> FALSE, nap |-> "no",
             nm |-> FALSE, fwd |-> FALSE]
Unserved == [health |-> "none", adapter |-> FALSE, panu |-> FALSE, nap |-> "no", nm |-> FALSE]
Offline == [shows |-> "offline", status |-> Unserved, system |-> "none"]

\* ------------------------------------------------------------------------
\* The report

ReadAdapters(r) == IF r.bluez /\ machine.bluez THEN machine.adapters ELSE "none"

\* nap_available: unknown when the objects of BlueZ cannot be read.
InspectNap(r) ==
    IF ~r.bluez THEN "no"
    ELSE IF ~machine.bluez THEN "unknown"
    ELSE IF machine.nap /\ r.bnep /\ r.adapters = "on" THEN "yes" ELSE "no"

\* The reads of report(), in their order.
Read(r, n) ==
    CASE n = 1 -> [r EXCEPT !.bluez = machine.bluez]
      [] n = 2 -> [r EXCEPT !.adapters = ReadAdapters(r)]
      [] n = 3 -> [r EXCEPT !.bnep = machine.bnep]
      [] n = 4 -> [r EXCEPT !.nap = InspectNap(r)]
      [] n = 5 -> [r EXCEPT !.nm = machine.nm]
      [] n = 6 -> [r EXCEPT !.fwd = machine.fwd]

PanuAvailable(r) == r.bluez /\ r.adapters = "on" /\ r.bnep

ClassifySupport(r) ==
    IF ~r.bluez \/ ~r.nm \/ r.adapters = "none" \/ ~r.bnep THEN "unsupported"
    ELSE IF r.adapters # "on" \/ r.nap = "unknown" THEN "degraded"
    ELSE IF PanuAvailable(r) /\ r.nap = "no" THEN "client"
    ELSE IF PanuAvailable(r) /\ r.nap = "yes" /\ r.fwd THEN "full"
    ELSE "degraded"

HealthForSupport(s, ok) ==
    CASE s = "unsupported" -> "error"
      [] s = "degraded" -> "degraded"
      [] s \in {"client", "full"} -> IF ok THEN "healthy" ELSE "degraded"

NodeCapabilities(r) == [adapter |-> r.adapters = "on", panu |-> PanuAvailable(r),
                        nap |-> r.nap, nm |-> r.nm]

\* The status published from a report.
Observation(r, ok) ==
    [health |-> HealthForSupport(ClassifySupport(r), ok), adapter |-> NodeCapabilities(r).adapter,
     panu |-> NodeCapabilities(r).panu, nap |-> r.nap, nm |-> r.nm]

\* ------------------------------------------------------------------------
\* The daemon and its thread

Probing == phase = "probing" \/ worker = "probing"

ProbeStep ==
    /\ Probing /\ probe <= 6
    /\ report' = Read(report, probe) /\ probe' = probe + 1
    /\ UNCHANGED <<machine, phase, worker, service, tui, bounds>>

Start ==
    /\ phase = "down"
    /\ phase' = "probing" /\ probe' = 1 /\ report' = NoReport
    /\ UNCHANGED <<machine, worker, service, tui, bounds>>

\* run() of main.rs, once its report is complete: the host of the saved
\* network is restored, or is not; then the service is put on the bus.
Serve ==
    /\ phase = "probing" /\ probe = 7
    /\ \E ok \in BOOLEAN :
          /\ reconciled' = ok
          /\ status' = Observation(report, ok)
    /\ system' = report.adapters /\ last' = report
    /\ phase' = "serving" /\ worker' = "parked"
    /\ UNCHANGED <<machine, probe, report, statusLock, tui, bounds>>

\* HEALTH_RECHECK_INTERVAL has passed.
Unpark ==
    /\ worker = "parked"
    /\ worker' = "probing" /\ probe' = 1 /\ report' = NoReport
    /\ UNCHANGED <<machine, phase, service, tui, bounds>>

\* update_runtime_observation: the status lock is kept over the second one.
UpdateStatus ==
    /\ worker = "probing" /\ probe = 7 /\ statusLock = "free"
    /\ status' = Observation(report, reconciled)
    /\ statusLock' = "worker" /\ last' = report /\ worker' = "system"
    /\ UNCHANGED <<machine, phase, probe, report, reconciled, system, tui, bounds>>

UpdateSystem ==
    /\ worker = "system"
    /\ system' = report.adapters /\ statusLock' = "free" /\ worker' = "parked"
    /\ UNCHANGED <<machine, phase, probe, report, reconciled, status, last, tui, bounds>>

\* ------------------------------------------------------------------------
\* The terminal front end

\* fetch_view: every load connects anew.  status() of the daemon takes the
\* status lock for a moment.
LoadOverview ==
    /\ tui.at = "loading" /\ tui.screen = "overview"
    /\ phase = "serving" /\ statusLock = "free"
    /\ tui' = [tui EXCEPT !.at = "waiting",
                          !.body = [shows |-> "overview", status |-> status, system |-> "none"]]
    /\ UNCHANGED <<machine, phase, worker, probe, report, service, bounds>>

\* list_networks and list_nodes are other components' subject.
LoadList ==
    /\ tui.at = "loading" /\ tui.screen = "networks" /\ phase = "serving"
    /\ tui' = [tui EXCEPT !.at = "waiting",
                          !.body = [shows |-> "networks", status |-> Unserved, system |-> "none"]]
    /\ UNCHANGED <<machine, phase, worker, probe, report, service, bounds>>

CloneStatusOnly ==
    /\ tui.at = "loading" /\ tui.screen = "diagnostics"
    /\ phase = "serving" /\ statusLock = "free"
    /\ tui' = [tui EXCEPT !.at = "cloning",
                          !.body = [shows |-> "diagnostics", status |-> status, system |-> "none"]]
    /\ UNCHANGED <<machine, phase, worker, probe, report, service, bounds>>

\* diagnostics_snapshot clones the status, and the system under the same lock.
CloneStatus ==
    /\ tui.at = "loading" /\ tui.screen = "diagnostics"
    /\ phase = "serving" /\ statusLock = "free"
    /\ statusLock' = "reader"
    /\ tui' = [tui EXCEPT !.at = "cloning",
                          !.body = [shows |-> "diagnostics", status |-> status, system |-> "none"]]
    /\ UNCHANGED <<machine, phase, worker, probe, report, reconciled, status, system, last, bounds>>

CloneSystem ==
    /\ tui.at = "cloning"
    /\ tui' = [tui EXCEPT !.at = "waiting", !.body.system = system]
    /\ statusLock' = "free"
    /\ UNCHANGED <<machine, phase, worker, probe, report, reconciled, status, system, last, bounds>>

LoadFails ==
    /\ tui.at = "loading" /\ phase # "serving"
    /\ tui' = [tui EXCEPT !.at = "waiting", !.body = Offline]
    /\ UNCHANGED <<machine, phase, worker, probe, report, service, bounds>>

\* Mutant of Timeout: only a screen that came from a daemon is refreshed.
TimeoutOnline ==
    /\ tui.at = "waiting" /\ tui.body.shows # "offline"
    /\ tui' = [tui EXCEPT !.at = "loading"]
    /\ UNCHANGED <<machine, phase, worker, probe, report, service, bounds>>

\* run_live: five seconds without a line.
Timeout ==
    /\ tui.at = "waiting"
    /\ tui' = [tui EXCEPT !.at = "loading"]
    /\ UNCHANGED <<machine, phase, worker, probe, report, service, bounds>>

Key ==
    /\ tui.at = "waiting" /\ keys < MaxKeys
    /\ keys' = keys + 1
    /\ \/ \E s \in {"overview", "networks", "diagnostics"} :
             tui' = [tui EXCEPT !.at = "loading", !.screen = s]
       \/ tui' = [tui EXCEPT !.at = "quit"]
    /\ UNCHANGED <<machine, phase, worker, probe, report, service, changes, crashes>>

\* ------------------------------------------------------------------------
\* The desktop: PlatformCheck::from_status

ObservedCapability(v) ==
    CASE v = "yes" -> "observed" [] v = "no" -> "blocked" [] v = "unknown" -> "unknown"
Combine(a, b) ==
    IF "blocked" \in {a, b} THEN "blocked"
    ELSE IF "unknown" \in {a, b} THEN "unknown" ELSE "observed"
Backend(s) == IF s.nm THEN "observed" ELSE "unknown"
Offered(s, role) ==
    Combine(Combine(IF s.adapter THEN "observed" ELSE "blocked", role),
            Combine(Backend(s), IF s.health = "healthy" THEN "observed" ELSE "blocked"))
PlatformCheck(s) ==
    [create |-> Offered(s, ObservedCapability(s.nap)),
     join |-> Offered(s, IF s.panu THEN "observed" ELSE "blocked")]

\* ------------------------------------------------------------------------
\* The machine: services, adapters and modules come and go; the daemon is
\* killed, and systemd starts it again.

Change ==
    /\ changes < MaxChanges /\ changes' = changes + 1
    /\ machine' \in Machine /\ machine' # machine
    /\ \E f \in DOMAIN machine : \A g \in DOMAIN machine \ {f} : machine'[g] = machine[g]
    /\ UNCHANGED <<phase, worker, probe, report, service, tui, crashes, keys>>

DaemonDies ==
    /\ phase # "down" /\ crashes < MaxCrashes /\ crashes' = crashes + 1
    /\ phase' = "down" /\ worker' = "none" /\ probe' = 1 /\ report' = NoReport
    /\ reconciled' = FALSE /\ status' = Unserved /\ system' = "none" /\ statusLock' = "free"
    /\ last' = NoReport
    /\ tui' = IF tui.at = "cloning" THEN [tui EXCEPT !.at = "waiting", !.body = Offline] ELSE tui
    /\ UNCHANGED <<machine, changes, keys>>

HealthInit ==
    /\ machine \in {Ready, Bare}
    /\ phase = "down" /\ worker = "none" /\ probe = 1 /\ report = NoReport
    /\ reconciled = FALSE /\ status = Unserved /\ system = "none" /\ statusLock = "free"
    /\ last = NoReport
    /\ tui = [at |-> "loading", screen |-> "overview", body |-> Offline]
    /\ changes = 0 /\ crashes = 0 /\ keys = 0

Daemon == Start \/ ProbeStep \/ Serve \/ Unpark \/ UpdateStatus \/ UpdateSystem
Load == LoadOverview \/ LoadList \/ CloneStatus \/ CloneSystem \/ LoadFails
HealthNext == Daemon \/ Load \/ Timeout \/ Key \/ Change \/ DaemonDies

\* systemd restarts the daemon (Restart=on-failure), its thread parks with a
\* timeout, and run_live waits for a line with one.  The status lock is held
\* for an instant between two such waits, so a thread that wants it gets it.
HealthSpec ==
    /\ HealthInit /\ [][HealthNext]_healthVars
    /\ WF_healthVars(Daemon) /\ WF_healthVars(Load) /\ WF_healthVars(Timeout)
    /\ SF_healthVars(UpdateStatus) /\ SF_healthVars(LoadOverview \/ CloneStatus)

\* ------------------------------------------------------------------------
\* Properties

\* Whatever moment the service is asked at, what it publishes is one report:
\* the desktop offers to create a network exactly when that report found every
\* prerequisite of a host and the saved network was restored, offers to join
\* exactly when it found those of a client, and a snapshot of diagnostics
\* never shows the health and capabilities of one report beside the adapters
\* of another (main.rs, runtime_health.rs, lib.rs, platform_check.rs).
PublishedIsOneReport ==
    /\ phase = "serving" =>
          /\ PlatformCheck(status).create = "observed" <=>
                /\ reconciled /\ PanuAvailable(last) /\ last.nm /\ last.fwd /\ last.nap = "yes"
          /\ PlatformCheck(status).join = "observed" <=>
                /\ reconciled /\ PanuAvailable(last) /\ last.nm
                /\ last.nap = "no" \/ (last.nap = "yes" /\ last.fwd)
    /\ tui.at # "cloning" /\ tui.body.shows = "diagnostics" =>
          /\ tui.body.status.adapter <=> tui.body.system = "on"
          /\ tui.body.status.health \in {"healthy", "degraded"} => tui.body.system # "none"

\* The operator's screen shows the machine as it is.
Settled == Read(Read(Read(Read(Read(Read(NoReport, 1), 2), 3), 4), 5), 6)
ScreenIsCurrent ==
    tui.at = "waiting" /\ tui.screen # "networks" =>
        tui.body = [shows |-> tui.screen, status |-> Observation(Settled, reconciled),
                    system |-> IF tui.screen = "overview" THEN "none" ELSE Settled.adapters]
=============================================================================
