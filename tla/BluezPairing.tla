----------------------------- MODULE BluezPairing -----------------------------
(***************************************************************************)
(* Pairing and trust of bluez.rs (crates/blueroute-linux): the outgoing    *)
(* pair, the incoming pairing window, the pairing agent and set_trusted.   *)
(*                                                                         *)
(* Every D-Bus call is a step of its own, so calls of different callers on *)
(* one backend interleave between any two of them. PairingControl is the   *)
(* only thing that keeps them apart, and the agent and the two adapter     *)
(* settings are BlueZ's, shared by all of them.                            *)
(***************************************************************************)
EXTENDS Naturals, FiniteSets

CONSTANTS
  PairCallers,     \* tasks that share one BluezBackend
  PairPeers,       \* devices of the adapter
  MaxPairFaults    \* bounds refused D-Bus calls, restarts and unpairings

VARIABLES
  control,     \* PairingControlState: active_peer, incoming_adapter
  agent,       \* BlueZ: our agent is "none", "registered" or the "default"
  settings,    \* BlueZ: the adapter's Pairable and Discoverable
  adapterOn,   \* BlueZ: Powered
  paired, trusted,   \* BlueZ: sets of devices
  pairCalls,   \* caller -> its call
  windows,     \* caller -> the IncomingPairingWindow it holds, or Closed
  overlapped,  \* the settings were read while another window was about (history)
  unrestored,  \* a call that restores a setting was refused (history)
  pairFaults

pairVars == <<control, agent, settings, adapterOn, paired, trusted, pairCalls, windows,
              overlapped, unrestored, pairFaults>>

None == "none"
AtRest == [pairable |-> FALSE, discoverable |-> FALSE]
Closed == [open |-> FALSE, restore |-> AtRest]
NoPairCall == [pc |-> "idle", peer |-> None, restore |-> AtRest]
Free == control.active = None /\ ~control.incoming
Authorizes(d) == control.active = d \/ control.incoming
Refusal == pairFaults < MaxPairFaults /\ pairFaults' = pairFaults + 1
Accepted == UNCHANGED pairFaults

At(c, label) == pairCalls[c].pc = label
GoOn(c, label) == pairCalls' = [pairCalls EXCEPT ![c].pc = label]
Answer(c) == pairCalls' = [pairCalls EXCEPT ![c] = NoPairCall]
Unseen == UNCHANGED <<adapterOn, paired, trusted, overlapped, unrestored>>

\* Another caller's window is open, opening or being taken down.
OthersWindow(c) ==
  \E d \in PairCallers \ {c} :
     windows[d].open \/ pairCalls[d].pc \in {"default", "setPairable", "setDiscoverable",
                                          "undoPairable", "restoreDiscoverable", "restorePairable"}

(* ------------------------- the incoming window ------------------------- *)

\* begin_incoming_pairing: the adapter must be powered; what the settings are
\* now is what the window will restore.
Accept(c) ==
  /\ At(c, "idle") /\ ~windows[c].open /\ adapterOn /\ GoOn(c, "readPairable")
  /\ UNCHANGED <<control, agent, settings, windows, pairFaults>> /\ Unseen
ReadSetting(c) ==
  /\ \/ /\ At(c, "readPairable")
        /\ pairCalls' = [pairCalls EXCEPT ![c].pc = "readDiscoverable", ![c].restore.pairable = settings.pairable]
     \/ /\ At(c, "readDiscoverable")
        /\ pairCalls' = [pairCalls EXCEPT ![c].pc = "agent", ![c].restore.discoverable = settings.discoverable]
  /\ overlapped' = (overlapped \/ OthersWindow(c))
  /\ UNCHANGED <<control, agent, settings, adapterOn, paired, trusted, windows, unrestored, pairFaults>>

\* ensure_pairing_agent: AlreadyExists is success.
EnsurePairingAgent(c) ==
  /\ At(c, "agent")
  /\ \/ Accepted /\ GoOn(c, "claim") /\ agent' = IF agent = "none" THEN "registered" ELSE agent
     \/ Refusal /\ Answer(c) /\ UNCHANGED agent
  /\ UNCHANGED <<control, settings, windows>> /\ Unseen

ClaimOther(c) ==
  /\ At(c, "claim")
  /\ LET p == pairCalls[c].peer IN
     IF control.active # None THEN Answer(c) /\ UNCHANGED control
     ELSE IF p = None THEN control' = [control EXCEPT !.incoming = TRUE] /\ GoOn(c, "default")
     ELSE control' = [control EXCEPT !.active = p] /\ GoOn(c, "pairing")
  /\ UNCHANGED <<agent, settings, windows, pairFaults>> /\ Unseen

\* PairingControl::begin and begin_incoming: one pairing operation at a time.
Claim(c) ==
  /\ At(c, "claim")
  /\ LET p == pairCalls[c].peer IN
     IF ~Free THEN Answer(c) /\ UNCHANGED control
     ELSE IF p = None THEN control' = [control EXCEPT !.incoming = TRUE] /\ GoOn(c, "default")
     ELSE control' = [control EXCEPT !.active = p] /\ GoOn(c, "pairing")
  /\ UNCHANGED <<agent, settings, windows, pairFaults>> /\ Unseen

ClearIncoming == control' = [control EXCEPT !.incoming = FALSE]

\* request_default_pairing_agent: BlueZ knows only a registered agent.
RequestDefault(c) ==
  /\ At(c, "default")
  /\ \/ agent # "none" /\ Accepted /\ agent' = "default" /\ GoOn(c, "setPairable") /\ UNCHANGED control
     \/ (IF agent = "none" THEN Accepted ELSE Refusal) /\ Answer(c) /\ ClearIncoming /\ UNCHANGED agent
  /\ UNCHANGED <<settings, windows>> /\ Unseen

\* Pairable, then Discoverable; a refusal takes back what was done so far.
SetPairable(c) ==
  /\ At(c, "setPairable")
  /\ \/ Accepted /\ settings' = [settings EXCEPT !.pairable = TRUE] /\ GoOn(c, "setDiscoverable")
        /\ UNCHANGED control
     \/ Refusal /\ ClearIncoming /\ GoOn(c, "unregister") /\ UNCHANGED settings
  /\ UNCHANGED <<agent, windows>> /\ Unseen

SetDiscoverableOnly(c) ==
  /\ At(c, "setDiscoverable")
  /\ \/ /\ Accepted /\ settings' = [settings EXCEPT !.discoverable = TRUE] /\ Answer(c)
        /\ windows' = [windows EXCEPT ![c] = [open |-> TRUE, restore |-> pairCalls[c].restore]]
        /\ UNCHANGED control
     \/ Refusal /\ ClearIncoming /\ GoOn(c, "unregister") /\ UNCHANGED <<settings, windows>>
  /\ UNCHANGED agent /\ Unseen

SetDiscoverable(c) ==
  /\ At(c, "setDiscoverable")
  /\ \/ /\ Accepted /\ settings' = [settings EXCEPT !.discoverable = TRUE] /\ Answer(c)
        /\ windows' = [windows EXCEPT ![c] = [open |-> TRUE, restore |-> pairCalls[c].restore]]
     \/ Refusal /\ GoOn(c, "undoPairable") /\ UNCHANGED <<settings, windows>>
  /\ UNCHANGED <<control, agent>> /\ Unseen

\* end_incoming_pairing gives up the claim first. The window it consumes is
\* gone whatever the later calls answer.
EndIncoming(c) ==
  /\ At(c, "idle") /\ windows[c].open /\ windows' = [windows EXCEPT ![c] = Closed]
  /\ IF control.incoming
       THEN ClearIncoming /\ pairCalls' = [pairCalls EXCEPT ![c].pc = "restoreDiscoverable",
                                                            ![c].restore = windows[c].restore]
       ELSE UNCHANGED <<control, pairCalls>>
  /\ UNCHANGED <<agent, settings, pairFaults>> /\ Unseen

\* Discoverable, then Pairable, each whether or not the other was refused; or,
\* for a window that could not be opened, Pairable while the claim is held.
RestoreSetting(c) ==
  LET pc == pairCalls[c].pc
      was == pairCalls[c].restore IN
  /\ pc \in {"restoreDiscoverable", "restorePairable", "undoPairable"}
  /\ \/ /\ Accepted /\ UNCHANGED unrestored
        /\ settings' = IF pc = "restoreDiscoverable" THEN [settings EXCEPT !.discoverable = was.discoverable]
                                                   ELSE [settings EXCEPT !.pairable = was.pairable]
     \/ Refusal /\ unrestored' = TRUE /\ UNCHANGED settings
  /\ GoOn(c, IF pc = "restoreDiscoverable" THEN "restorePairable" ELSE "unregister")
  /\ IF pc = "undoPairable" THEN ClearIncoming ELSE UNCHANGED control
  /\ UNCHANGED <<agent, adapterOn, paired, trusted, windows, overlapped>>

\* unregister_pairing_agent: DoesNotExist is success.
UnregisterAgent(c) ==
  /\ At(c, "unregister") /\ Answer(c)
  /\ (Accepted /\ agent' = "none") \/ (Refusal /\ UNCHANGED agent)
  /\ UNCHANGED <<control, settings, windows>> /\ Unseen

(* --------------------------- pair and trust ---------------------------- *)

\* pair_peer: a device that is paired already is success.
PairPeer(c, p) ==
  /\ At(c, "idle") /\ p \notin paired
  /\ pairCalls' = [pairCalls EXCEPT ![c].pc = "agent", ![c].peer = p]
  /\ UNCHANGED <<control, agent, settings, windows, pairFaults>> /\ Unseen

\* PairingPermit::drop, when pair_peer returns.
DropPermit(c) ==
  control' = IF control.active = pairCalls[c].peer THEN [control EXCEPT !.active = None] ELSE control

\* Device1.Pair is answered: paired, once the agent (if BlueZ has one)
\* authorized it; AlreadyExists; or an error.
PairAnswered(c) ==
  /\ At(c, "pairing") /\ Answer(c) /\ DropPermit(c)
  /\ \/ Accepted /\ (agent = "none" \/ Authorizes(pairCalls[c].peer)) /\ paired' = paired \cup {pairCalls[c].peer}
     \/ Refusal /\ UNCHANGED paired
  /\ UNCHANGED <<agent, settings, adapterOn, trusted, windows, overlapped, unrestored>>

PairWaits(c) == FALSE /\ UNCHANGED pairVars

\* PAIRING_TIMEOUT, then CancelPairing, whatever it answers.
PairTimesOut(c) ==
  /\ At(c, "pairing") /\ GoOn(c, "cancel")
  /\ UNCHANGED <<control, agent, settings, windows, pairFaults>> /\ Unseen
CancelPairing(c) ==
  /\ At(c, "cancel") /\ Answer(c) /\ DropPermit(c)
  /\ UNCHANGED <<agent, settings, windows, pairFaults>> /\ Unseen

\* set_peer_trusted: paired when read, not necessarily when set. Trust is
\* set only if it differs.
SetTrusted(c, p) ==
  \/ /\ At(c, "idle") /\ p \in paired \ trusted
     /\ pairCalls' = [pairCalls EXCEPT ![c].pc = "trust", ![c].peer = p]
     /\ UNCHANGED <<control, agent, settings, windows, pairFaults>> /\ Unseen
  \/ /\ At(c, "trust") /\ pairCalls[c].peer = p /\ Answer(c)
     /\ (Accepted /\ trusted' = trusted \cup {p}) \/ (Refusal /\ UNCHANGED trusted)
     /\ UNCHANGED <<control, agent, settings, adapterOn, paired, windows, overlapped, unrestored>>

(* ----------------------------- environment ----------------------------- *)

\* A device asks to pair while the adapter accepts it; BlueZ asks the default
\* agent, which answers as PairingAgent does.
RemotePairs(p) ==
  /\ settings.pairable /\ agent = "default" /\ Authorizes(p) /\ p \notin paired /\ paired' = paired \cup {p}
  /\ UNCHANGED <<control, agent, settings, adapterOn, trusted, pairCalls, windows, overlapped, unrestored, pairFaults>>

BluezChanges ==
  /\ Refusal
  /\ \/ agent' = "none" /\ UNCHANGED <<adapterOn, paired, trusted>>
     \/ adapterOn' = ~adapterOn /\ UNCHANGED <<agent, paired, trusted>>
     \/ \E p \in paired : paired' = paired \ {p} /\ trusted' = trusted \ {p} /\ UNCHANGED <<agent, adapterOn>>
  /\ UNCHANGED <<control, settings, pairCalls, windows, overlapped, unrestored>>

PairInit ==
  /\ control = [active |-> None, incoming |-> FALSE] /\ agent = "none" /\ settings = AtRest
  /\ adapterOn = TRUE /\ paired = {} /\ trusted = {} /\ pairCalls = [c \in PairCallers |-> NoPairCall]
  /\ windows = [c \in PairCallers |-> Closed] /\ overlapped = FALSE /\ unrestored = FALSE /\ pairFaults = 0

\* The steps a call in progress takes by itself; Pair may stay unanswered.
CallStep(c) ==
  \/ ReadSetting(c) \/ EnsurePairingAgent(c) \/ Claim(c) \/ RequestDefault(c) \/ SetPairable(c)
  \/ SetDiscoverable(c) \/ RestoreSetting(c) \/ UnregisterAgent(c) \/ PairTimesOut(c) \/ CancelPairing(c)

PairNext ==
  \/ \E c \in PairCallers :
       \/ CallStep(c) \/ Accept(c) \/ EndIncoming(c) \/ PairAnswered(c)
       \/ \E p \in PairPeers : PairPeer(c, p) \/ SetTrusted(c, p)
  \/ \E p \in PairPeers : RemotePairs(p)
  \/ BluezChanges

PairSpec == PairInit /\ [][PairNext]_pairVars /\ \A c \in PairCallers : WF_pairVars(CallStep(c))

(* ----------------------------- properties ------------------------------ *)

Pairing == {c \in PairCallers : pairCalls[c].pc \in {"pairing", "cancel"}}
Windowing == {c \in PairCallers : windows[c].open \/ pairCalls[c].pc \in
                 {"default", "setPairable", "setDiscoverable", "undoPairable"}}

\* PairingControl's claim is held by exactly the call or the window it was
\* given to, on every error path: no claim outlives its operation (which
\* would refuse every later pairing), and two operations never overlap.
ClaimsAreExact ==
  /\ Cardinality(Pairing \cup Windowing) <= 1
  /\ control.incoming <=> Windowing # {}
  /\ control.active # None <=> Pairing # {}
  /\ \A c \in Pairing : pairCalls[c].peer = control.active

\* When no window is open or opening, the adapter's settings are what they
\* were before the first window, whichever step of opening one was refused.
\* Two things defeat it: a refused call to restore them, and a window whose
\* settings were read while another one was open or closing.
SettingsReturn ==
  (\A c \in PairCallers : At(c, "idle") /\ ~windows[c].open) => settings = AtRest \/ overlapped \/ unrestored

\* Whatever is refused, and however the calls interleave, a pairing operation
\* takes back all it took: the claim of PairingControl and the two settings.
PairingLeavesNoTrace == ClaimsAreExact /\ SettingsReturn

\* The permit of pair is free.
PermitFree == control.active = None
=============================================================================
