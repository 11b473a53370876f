------------------------------ MODULE HostProofs ------------------------------
(***************************************************************************)
(* What a node keeps right in its own host, proved for every number of      *)
(* callers, devices, faults and restarts: the radio (BluezDiscovery),       *)
(* pairing (BluezPairing), the candidates and the gate on changes of        *)
(* topology (LocalTopology) and the forwarding switch (ForwardingLease).    *)
(* Each has an inductive invariant of its own, and a lemma per action or    *)
(* group of actions that keeps it.                                          *)
(***************************************************************************)
EXTENDS BluezDiscovery, BluezPairing, LocalTopology, ForwardingLease,
        FiniteSetTheorems, TLAPS

(* ------------------------------ the radio ------------------------------ *)

BluezTyped == bt \in [up : BOOLEAN, powered : BOOLEAN, scanning : BOOLEAN, advertising : BOOLEAN]

AirTyped ==
  /\ BluezTyped
  /\ slot \in BOOLEAN /\ served \in BOOLEAN /\ handle \in BOOLEAN /\ interrupted \in BOOLEAN

\* A call that has begun found what its own transition guard protects.
CallsMeetTheirState ==
  /\ scanCall = "start" => ~slot
  /\ scanCall = "stop" => slot
  /\ adCall = "register" => served /\ ~handle /\ ~bt.advertising
  /\ adCall = "remove" => served /\ handle /\ ~bt.advertising
  /\ adCall \in {"none", "register", "remove"}

AirInv == AirTyped /\ CallsMeetTheirState /\ NothingLeftOnAir

\* Starting and stopping discovery, call by call (start_discovery, stop_discovery).
LEMMA ScanKeeps ==
  ASSUME AirInv, StartDiscovery \/ CallStart \/ StopDiscovery \/ CallStop \/ EndScanCall
  PROVE  AirInv'
<1> USE DEF AirInv, AirTyped, CallsMeetTheirState, NothingLeftOnAir, ScanOnly, Usable
<1>1. CASE StartDiscovery
  BY <1>1 DEF StartDiscovery, BluezTyped
<1>2. CASE CallStart
  <2>1. \/ bt' = bt /\ slot' = slot /\ scanCall' = "failed"
        \/ bt' = [bt EXCEPT !.scanning = TRUE] /\ slot' = TRUE /\ scanCall' = "started"
    BY <1>2 DEF CallStart
  <2>2. BluezTyped'
    BY Zenon, <2>1 DEF BluezTyped
  <2>3. bt'.advertising = bt.advertising /\ (bt'.scanning => slot') /\ (slot' => bt'.scanning \/ interrupted)
    BY <2>1 DEF BluezTyped
  <2> QED
    BY Zenon, <1>2, <2>1, <2>2, <2>3 DEF CallStart
<1>3. CASE StopDiscovery
  BY <1>3 DEF StopDiscovery, BluezTyped
<1>4. CASE CallStop
  BY Zenon, <1>4 DEF CallStop, BluezTyped
<1>5. CASE EndScanCall
  BY <1>5 DEF EndScanCall, BluezTyped
<1> QED
  BY <1>1, <1>2, <1>3, <1>4, <1>5

\* Registering an advertisement and taking it back, call by call.
LEMMA AdvertisementKeeps ==
  ASSUME AirInv,
         StartAdvertisement \/ RegisterAdvertisement \/ UnregisterAdvertisement \/ RemoveObject
  PROVE  AirInv'
<1> USE DEF AirInv, AirTyped, CallsMeetTheirState, NothingLeftOnAir, AdOnly, Usable
<1>1. CASE StartAdvertisement
  BY <1>1 DEF StartAdvertisement, BluezTyped
<1>2. CASE RegisterAdvertisement
  <2>1. \/ bt' = bt /\ served' = FALSE /\ handle' = FALSE
        \/ bt' = [bt EXCEPT !.advertising = TRUE] /\ served' = TRUE /\ handle' = TRUE
    BY Zenon, <1>2 DEF RegisterAdvertisement
  <2>2. BluezTyped'
    BY Zenon, <2>1 DEF BluezTyped
  <2>3. bt'.scanning = bt.scanning /\ (bt'.advertising => served' /\ handle')
    BY <1>2, <2>1 DEF RegisterAdvertisement, BluezTyped
  <2>4. served' \in BOOLEAN /\ handle' \in BOOLEAN /\ (served' <=> handle')
    BY Zenon, <2>1
  <2> QED
    BY <1>2, <2>2, <2>3, <2>4 DEF RegisterAdvertisement
<1>3. CASE UnregisterAdvertisement
  BY Zenon, <1>3 DEF UnregisterAdvertisement, BluezTyped
<1>4. CASE RemoveObject
  BY Zenon, <1>4 DEF RemoveObject, BluezTyped
<1> QED
  BY <1>1, <1>2, <1>3, <1>4

\* Listing networks, and what BlueZ and the radio do by themselves.
LEMMA RadioKeeps ==
  ASSUME AirInv, ListNetworks \/ BluezToggles \/ RadioChanges \/ UNCHANGED airVars
  PROVE  AirInv'
<1> USE DEF AirInv, AirTyped, CallsMeetTheirState, NothingLeftOnAir
<1>1. CASE ListNetworks \/ RadioChanges \/ UNCHANGED airVars
  BY <1>1 DEF ListNetworks, RadioChanges, airVars, BluezTyped
<1>2. CASE BluezToggles
  <2>1. BluezTyped'
    <3>1. bt.up \in BOOLEAN /\ bt.powered \in BOOLEAN
      BY DEF BluezTyped
    <3>2. PICK up \in BOOLEAN, powered \in BOOLEAN :
            bt' = [up |-> up, powered |-> powered, scanning |-> FALSE, advertising |-> FALSE]
      BY Zenon, <1>2, <3>1 DEF BluezToggles
    <3> QED
      BY <3>2 DEF BluezTyped
  <2>2. ~bt'.scanning /\ ~bt'.advertising
    BY <1>2 DEF BluezToggles
  <2> QED
    BY <1>2, <2>1, <2>2 DEF BluezToggles, BluezTyped
<1> QED
  BY <1>1, <1>2

\* For every number of restarts of BlueZ: a scan has its slot, an advertisement
\* its object and handle, and no failed call leaves one of the two without the
\* other (start_discovery, stop_discovery, start_advertisement, bluez.rs).
THEOREM NothingStaysOnAir == AirSpec => []NothingLeftOnAir
<1>1. AirInit => AirInv
  <2>0. AirInit => BluezTyped
    BY DEF AirInit, BluezTyped
  <2>1. AirInit => AirTyped
    BY Zenon, <2>0 DEF AirInit, AirTyped
  <2>2. AirInit => CallsMeetTheirState
    BY DEF AirInit, CallsMeetTheirState
  <2>3. AirInit => NothingLeftOnAir
    BY DEF AirInit, NothingLeftOnAir
  <2> QED
    BY <2>1, <2>2, <2>3 DEF AirInv
<1>2. AirInv /\ [AirNext]_airVars => AirInv'
  BY ScanKeeps, AdvertisementKeeps, RadioKeeps DEF AirNext
<1>3. AirInv => NothingLeftOnAir
  BY DEF AirInv
<1> QED
  BY <1>1, <1>2, <1>3, PTL DEF AirSpec

(* ------------------------------- pairing ------------------------------- *)

Settings == [pairable : BOOLEAN, discoverable : BOOLEAN]
Labels == {"idle", "readPairable", "readDiscoverable", "agent", "claim", "default", "setPairable",
           "setDiscoverable", "undoPairable", "restoreDiscoverable", "restorePairable", "unregister",
           "pairing", "cancel", "trust"}
PairCall == [pc : Labels, peer : PairPeers \cup {None}, restore : Settings]
Window == [open : BOOLEAN, restore : Settings]

CallsTyped == pairCalls \in [PairCallers -> PairCall]
WindowsTyped == windows \in [PairCallers -> Window]
ControlTyped == control \in [active : PairPeers \cup {None}, incoming : BOOLEAN]
SettingsTyped == settings \in Settings
HistoryTyped == overlapped \in BOOLEAN /\ unrestored \in BOOLEAN
PairTyped == CallsTyped /\ WindowsTyped /\ ControlTyped /\ SettingsTyped /\ HistoryTyped

\* A call q, and a window w of the same caller, hold the claim of a peer or of the
\* incoming window, or have yet to restore a setting.
ForPeer(q) == q.pc \in {"pairing", "cancel"}
ForWindow(q, w) == w.open \/ q.pc \in {"default", "setPairable", "setDiscoverable", "undoPairable"}
OwesPairable(q, w) ==
  w.open \/ q.pc \in {"setDiscoverable", "undoPairable", "restoreDiscoverable", "restorePairable"}
OwesDiscoverable(q, w) == w.open \/ q.pc = "restoreDiscoverable"

Holds(c) == ForPeer(pairCalls[c]) \/ ForWindow(pairCalls[c], windows[c])

\* Who holds the claim; next to an open window a caller runs only calls that need
\* another claim, or none.
ClaimInv ==
  /\ \A c \in PairCallers :
       /\ ForPeer(pairCalls[c]) => pairCalls[c].peer # None /\ pairCalls[c].peer = control.active
       /\ ForWindow(pairCalls[c], windows[c]) => control.incoming
       /\ windows[c].open => pairCalls[c].pc \in {"idle", "agent", "claim", "trust"}
  /\ \A c, d \in PairCallers : Holds(c) /\ Holds(d) => c = d
  /\ control.incoming => \E c \in PairCallers : ForWindow(pairCalls[c], windows[c])
  /\ control.active # None => \E c \in PairCallers : ForPeer(pairCalls[c])

\* While no window was read next to another and no restoring call was refused,
\* every window restores the settings at rest, and a setting that is on has a
\* window that owes it.
SettingsInv ==
  ~overlapped /\ ~unrestored =>
    /\ \A c \in PairCallers : pairCalls[c].restore = AtRest /\ windows[c].restore = AtRest
    /\ settings.pairable => \E c \in PairCallers : OwesPairable(pairCalls[c], windows[c])
    /\ settings.discoverable => \E c \in PairCallers : OwesDiscoverable(pairCalls[c], windows[c])

PairInv == PairTyped /\ ClaimInv /\ SettingsInv

\* The step of one caller.
OthersRest(c) ==
  \A d \in PairCallers \ {c} : pairCalls'[d] = pairCalls[d] /\ windows'[d] = windows[d]

\* What a step of c does with the claim: keep, take or give up.
ClaimMoves(c) ==
  LET q == pairCalls[c]
      r == pairCalls'[c]
      v == windows[c]
      w == windows'[c]
  IN /\ w.open => r.pc \in {"idle", "agent", "claim", "trust"}
     /\ \/ /\ control' = control /\ (ForPeer(q) <=> ForPeer(r)) /\ (ForWindow(q, v) <=> ForWindow(r, w))
           /\ ForPeer(r) => r.peer = q.peer
        \/ /\ Free /\ ForWindow(r, w) /\ ~ForPeer(r)
           /\ control'.incoming /\ control'.active = None
        \/ /\ Free /\ ForPeer(r) /\ ~ForWindow(r, w) /\ r.peer # None
           /\ ~control'.incoming /\ control'.active = r.peer
        \/ /\ Holds(c) /\ ~ForPeer(r) /\ ~ForWindow(r, w)
           /\ ~control'.incoming /\ control'.active = None

\* And with the settings.
SettingsMove(c) ==
  LET q == pairCalls[c]
      r == pairCalls'[c]
      v == windows[c]
      w == windows'[c]
  IN ~overlapped' /\ ~unrestored' =>
       /\ ~overlapped /\ ~unrestored
       /\ r.restore = AtRest /\ w.restore = AtRest
       /\ settings'.pairable =>
            OwesPairable(r, w) \/ (settings.pairable /\ ~OwesPairable(q, v))
       /\ settings'.discoverable =>
            OwesDiscoverable(r, w) \/ (settings.discoverable /\ ~OwesDiscoverable(q, v))

\* A step of one caller that moves the claim as ClaimMoves permits keeps it exact.
LEMMA ClaimsMove ==
  ASSUME PairInv, PairTyped', NEW c \in PairCallers, OthersRest(c), ClaimMoves(c)
  PROVE  ClaimInv'
<1> DEFINE q == pairCalls[c]
           r == pairCalls'[c]
           v == windows[c]
           w == windows'[c]
<1>1. ASSUME control' = control, ForPeer(q) <=> ForPeer(r), ForWindow(q, v) <=> ForWindow(r, w),
             ForPeer(r) => r.peer = q.peer
      PROVE  ClaimInv'
  BY <1>1 DEF PairInv, ClaimInv, Holds, OthersRest, ClaimMoves
<1>2. ASSUME Free, ForWindow(r, w), ~ForPeer(r), control'.incoming, control'.active = None
      PROVE  ClaimInv'
  <2>1. \A d \in PairCallers : ~Holds(d)
    BY <1>2 DEF PairInv, ClaimInv, Holds, Free
  <2> QED
    BY <1>2, <2>1 DEF PairInv, ClaimInv, Holds, OthersRest, ClaimMoves
<1>3. ASSUME Free, ForPeer(r), ~ForWindow(r, w), r.peer # None, ~control'.incoming, control'.active = r.peer
      PROVE  ClaimInv'
  <2>1. \A d \in PairCallers : ~Holds(d)
    BY SMTT(20), <1>3 DEF PairInv, ClaimInv, Holds, Free
  <2> QED
    BY <1>3, <2>1 DEF PairInv, ClaimInv, Holds, OthersRest, ClaimMoves
<1>4. ASSUME Holds(c), ~ForPeer(r), ~ForWindow(r, w), ~control'.incoming, control'.active = None
      PROVE  ClaimInv'
  <2>1. \A d \in PairCallers \ {c} : ~Holds(d)
    BY <1>4 DEF PairInv, ClaimInv
  <2> QED
    BY <1>4, <2>1 DEF PairInv, ClaimInv, Holds, OthersRest, ClaimMoves
<1> QED
  BY <1>1, <1>2, <1>3, <1>4 DEF ClaimMoves

\* And one that moves the settings as SettingsMove permits leaves no setting unowed.
LEMMA SettingsFollow ==
  ASSUME PairInv, PairTyped', NEW c \in PairCallers, OthersRest(c), SettingsMove(c)
  PROVE  SettingsInv'
BY DEF PairInv, SettingsInv, OthersRest, SettingsMove
\* So a step of one caller is checked on that caller alone.
LEMMA StepKeeps ==
  ASSUME PairInv, PairTyped', NEW c \in PairCallers, OthersRest(c), ClaimMoves(c), SettingsMove(c)
  PROVE  PairInv'
BY ClaimsMove, SettingsFollow DEF PairInv

\* A call that proceeds to its next await keeps its peer and what it restores.
LEMMA GoOnMoves ==
  ASSUME CallsTyped, NEW c \in PairCallers, NEW label \in Labels, GoOn(c, label)
  PROVE  /\ CallsTyped' /\ pairCalls'[c].pc = label
         /\ pairCalls'[c].peer = pairCalls[c].peer /\ pairCalls'[c].restore = pairCalls[c].restore
         /\ \A d \in PairCallers \ {c} : pairCalls'[d] = pairCalls[d]
BY DEF CallsTyped, PairCall, GoOn

\* A call that returns leaves nothing of itself.
LEMMA AnswerMoves ==
  ASSUME CallsTyped, NEW c \in PairCallers, Answer(c)
  PROVE  /\ CallsTyped' /\ pairCalls'[c] = NoPairCall
         /\ NoPairCall.pc = "idle" /\ NoPairCall.restore = AtRest
         /\ \A d \in PairCallers \ {c} : pairCalls'[d] = pairCalls[d]
<1>1. NoPairCall \in PairCall
  BY DEF NoPairCall, AtRest, PairCall, Labels, Settings
<1> QED
  BY <1>1 DEF CallsTyped, Answer, NoPairCall

\* A caller with neither claim nor debt that stays so.
LEMMA IdlyKeeps ==
  ASSUME PairInv, NEW c \in PairCallers, CallsTyped', OthersRest(c),
         windows' = windows, control' = control, settings' = settings,
         overlapped' = overlapped, unrestored' = unrestored,
         pairCalls[c].pc \in {"idle", "agent", "claim", "trust", "readPairable", "unregister"},
         pairCalls'[c].pc \in {"idle", "agent", "claim", "trust", "readPairable", "unregister"},
         windows[c].open => pairCalls'[c].pc \in {"idle", "agent", "claim", "trust"},
         pairCalls'[c].restore \in {pairCalls[c].restore, AtRest}
  PROVE  PairInv'
<1>1. PairTyped'
  BY DEF PairInv, PairTyped, WindowsTyped, ControlTyped, SettingsTyped, HistoryTyped
<1>2. ClaimMoves(c)
  BY DEF ClaimMoves, ForPeer, ForWindow
<1>3. SettingsMove(c)
  BY DEF PairInv, SettingsInv, SettingsMove, OwesPairable, OwesDiscoverable
<1> QED
  BY <1>1, <1>2, <1>3, StepKeeps

\* The calls that touch neither claim nor settings: adapter check, agent, trust,
\* and the entry of pair.
LEMMA QuietKeeps ==
  ASSUME PairInv, NEW c \in PairCallers,
         \/ Accept(c) \/ EnsurePairingAgent(c) \/ UnregisterAgent(c)
         \/ \E p \in PairPeers : PairPeer(c, p) \/ SetTrusted(c, p)
  PROVE  PairInv'
<1>0. CallsTyped 
  BY SMTT(20) DEF PairInv, PairTyped
<1> USE <1>0 DEF At, Unseen, OthersRest
<1>1. CASE Accept(c)
  <2>1. GoOn(c, "readPairable") /\ "readPairable" \in Labels
    BY <1>1 DEF Accept, Labels
  <2> QED
    BY SMTT(20), <1>1, <2>1, GoOnMoves, IdlyKeeps DEF Accept
<1>2. CASE EnsurePairingAgent(c)
  <2>1. CASE GoOn(c, "claim")
    <3>1. "claim" \in Labels
      BY SMTT(20) DEF Labels
    <3> QED
      BY <1>2, <2>1, <3>1, GoOnMoves, IdlyKeeps DEF EnsurePairingAgent
  <2>2. CASE Answer(c)
    BY SMTT(20), <1>2, <2>2, AnswerMoves, IdlyKeeps DEF EnsurePairingAgent
  <2> QED
    BY <1>2, <2>1, <2>2 DEF EnsurePairingAgent
<1>3. CASE UnregisterAgent(c)
  BY <1>3, AnswerMoves, IdlyKeeps DEF UnregisterAgent
<1>4. ASSUME NEW p \in PairPeers, PairPeer(c, p) PROVE PairInv'
  <2>1. CallsTyped' /\ pairCalls'[c].pc = "agent" /\ pairCalls'[c].restore = pairCalls[c].restore
        /\ \A d \in PairCallers \ {c} : pairCalls'[d] = pairCalls[d]
    BY Zenon, <1>4 DEF PairPeer, CallsTyped, PairCall, Labels
  <2> QED
    BY Zenon, <1>4, <2>1, IdlyKeeps DEF PairPeer
<1>5. ASSUME NEW p \in PairPeers, SetTrusted(c, p) PROVE PairInv'
  <2>1. CASE At(c, "idle")
    <3>1. CallsTyped' /\ pairCalls'[c].pc = "trust" /\ pairCalls'[c].restore = pairCalls[c].restore
          /\ \A d \in PairCallers \ {c} : pairCalls'[d] = pairCalls[d]
      BY <1>5, <2>1 DEF SetTrusted, CallsTyped, PairCall, Labels
    <3> QED
      BY <1>5, <2>1, <3>1, IdlyKeeps DEF SetTrusted
  <2>2. CASE At(c, "trust")
    BY <1>5, <2>2, AnswerMoves, IdlyKeeps DEF SetTrusted
  <2> QED
    BY <1>5, <2>1, <2>2 DEF SetTrusted
<1> QED
  BY <1>1, <1>2, <1>3, <1>4, <1>5

\* The holder of a claim holds no other, and nobody else holds one.
LEMMA HolderIsAlone ==
  ASSUME PairInv, NEW c \in PairCallers
  PROVE  /\ ForPeer(pairCalls[c]) => control.active = pairCalls[c].peer /\ ~control.incoming
         /\ ForWindow(pairCalls[c], windows[c]) => control.incoming /\ control.active = None
BY DEF PairInv, ClaimInv, Holds, ForPeer, ForWindow

\* What the operations of PairingControl do to its record.
LEMMA ControlMoves ==
  ASSUME ControlTyped
  PROVE  /\ control' = control => ControlTyped'
         /\ ClearIncoming =>
              ControlTyped' /\ ~control'.incoming /\ control'.active = control.active
         /\ \A p \in PairPeers : control' = [control EXCEPT !.active = p] =>
              ControlTyped' /\ control'.active = p /\ control'.incoming = control.incoming
         /\ control' = [control EXCEPT !.active = None] =>
              ControlTyped' /\ control'.active = None /\ control'.incoming = control.incoming
         /\ control' = [control EXCEPT !.incoming = TRUE] =>
              ControlTyped' /\ control'.incoming /\ control'.active = control.active
BY Zenon DEF ControlTyped, ClearIncoming

\* The two settings are read before anything is taken (begin_incoming_pairing).
LEMMA ReadSettingKeeps ==
  ASSUME PairInv, NEW c \in PairCallers, ReadSetting(c)
  PROVE  PairInv'
<1> USE DEF PairInv, PairTyped
<1>1. /\ pairCalls[c].pc \in {"readPairable", "readDiscoverable"} /\ ~windows[c].open
      /\ windows' = windows /\ settings' = settings /\ control' = control /\ unrestored' = unrestored
  BY DEF ReadSetting, At, ClaimInv
<1>2. CallsTyped' /\ OthersRest(c)
  BY <1>1 DEF ReadSetting, CallsTyped, PairCall, Labels, Settings, SettingsTyped, OthersRest
<1>3. pairCalls'[c].pc \in {"readDiscoverable", "agent"}
  BY DEF ReadSetting, CallsTyped, PairCall
<1>4. overlapped' = (overlapped \/ OthersWindow(c)) /\ overlapped' \in BOOLEAN
  BY DEF ReadSetting
<1>5. ClaimMoves(c)
  BY <1>1, <1>3 DEF ClaimMoves, ForPeer, ForWindow
<1>6. ASSUME ~overlapped', ~unrestored'
      PROVE  /\ ~overlapped /\ ~unrestored /\ ~settings.pairable /\ ~settings.discoverable
             /\ pairCalls'[c].restore = AtRest /\ windows'[c].restore = AtRest
  <2>1. ~overlapped /\ ~unrestored /\ ~OthersWindow(c)
    <3>1. overlapped' <=> (overlapped \/ OthersWindow(c))
      BY Zenon, <1>4 DEF HistoryTyped
    <3> QED
      BY <1>1, <1>6, <3>1
  <2>2. pairCalls[c].restore = AtRest /\ windows[c].restore = AtRest
    BY <2>1 DEF SettingsInv
  <2>3. ~settings.pairable /\ ~settings.discoverable
    BY <1>1, <2>1 DEF SettingsInv, OwesPairable, OwesDiscoverable, OthersWindow
  <2>4. settings.pairable = FALSE /\ settings.discoverable = FALSE
    BY <2>3 DEF SettingsTyped, Settings
  <2>5. pairCalls'[c].restore = AtRest
    BY <2>2, <2>4 DEF ReadSetting, CallsTyped, PairCall, AtRest, Settings
  <2> QED
    BY <1>1, <2>1, <2>2, <2>3, <2>5
<1>7. SettingsMove(c)
  BY <1>1, <1>6 DEF SettingsMove
<1>8. PairTyped'
  BY <1>1, <1>2, <1>4 DEF WindowsTyped, ControlTyped, SettingsTyped, HistoryTyped
<1> QED
  BY <1>2, <1>5, <1>7, <1>8, StepKeeps

\* begin and begin_incoming take the claim only when it is free.
LEMMA ClaimKeeps ==
  ASSUME PairInv, NEW c \in PairCallers, Claim(c)
  PROVE  PairInv'
<1>1. /\ CallsTyped /\ ControlTyped /\ "default" \in Labels /\ "pairing" \in Labels
      /\ pairCalls[c].pc = "claim" /\ pairCalls[c].peer \in PairPeers \cup {None}
      /\ windows' = windows /\ settings' = settings
      /\ overlapped' = overlapped /\ unrestored' = unrestored
  BY DEF PairInv, PairTyped, CallsTyped, PairCall, Labels, Claim, At, Unseen
<1>2. CASE ~Free
  BY <1>1, <1>2, AnswerMoves, IdlyKeeps DEF Claim, OthersRest
<1>3. CASE Free
  <2>1. ~windows[c].open
    BY <1>3 DEF PairInv, ClaimInv, ForWindow, Free
  <2>2. /\ CallsTyped' /\ OthersRest(c) /\ pairCalls'[c].peer = pairCalls[c].peer
        /\ pairCalls'[c].restore = pairCalls[c].restore
        /\ pairCalls'[c].pc = IF pairCalls[c].peer = None THEN "default" ELSE "pairing"
    BY <1>1, <1>3, GoOnMoves DEF Claim, OthersRest
  <2>3. /\ ControlTyped'
        /\ pairCalls[c].peer = None => control'.incoming /\ control'.active = None
        /\ pairCalls[c].peer # None => ~control'.incoming /\ control'.active = pairCalls[c].peer
    BY <1>1, <1>3, ControlMoves DEF Claim, Free
  <2>4. PairTyped'
    BY SMTT(20), <1>1, <2>2, <2>3 DEF PairInv, PairTyped, WindowsTyped, SettingsTyped, HistoryTyped
  <2>5. ClaimMoves(c)
    BY SMTT(20), <1>1, <1>3, <2>1, <2>2, <2>3 DEF ClaimMoves, ForPeer, ForWindow
  <2>6. SettingsMove(c)
    BY <1>1, <2>1, <2>2 DEF PairInv, SettingsInv, SettingsMove, OwesPairable, OwesDiscoverable
  <2> QED
    BY <2>2, <2>4, <2>5, <2>6, StepKeeps
<1> QED
  BY <1>2, <1>3

\* A step that opens a window further, takes it down, or answers: what remains to
\* be shown of it are the two moves.
LEMMA WindowStepKeeps ==
  ASSUME PairInv, NEW c \in PairCallers, RequestDefault(c) \/ SetPairable(c)
  PROVE  PairInv'
<1>1. /\ CallsTyped /\ ControlTyped /\ "setPairable" \in Labels /\ "setDiscoverable" \in Labels
      /\ "unregister" \in Labels /\ pairCalls[c].pc \in {"default", "setPairable"} /\ ~windows[c].open
      /\ windows' = windows /\ overlapped' = overlapped /\ unrestored' = unrestored
  BY DEF PairInv, PairTyped, ClaimInv, Labels, RequestDefault, SetPairable, At, Unseen
<1>2. control.incoming /\ control.active = None /\ Holds(c)
  BY <1>1, HolderIsAlone DEF ForWindow, Holds
<1>3. CallsTyped' /\ OthersRest(c) /\ pairCalls'[c].restore \in {pairCalls[c].restore, AtRest}
  BY <1>1, GoOnMoves, AnswerMoves DEF RequestDefault, SetPairable, OthersRest
<1>4. \/ /\ control' = control
         /\ \/ pairCalls'[c].pc = "setPairable" /\ settings' = settings
            \/ /\ pairCalls'[c].pc = "setDiscoverable"
               /\ settings' = [settings EXCEPT !.pairable = TRUE]
      \/ /\ ClearIncoming /\ settings' = settings
         /\ pairCalls'[c].pc \in {"idle", "unregister"}
  BY <1>1, GoOnMoves, AnswerMoves DEF RequestDefault, SetPairable
<1>5. SettingsTyped' /\ settings'.discoverable = settings.discoverable
      /\ (pairCalls'[c].pc # "setDiscoverable" => settings'.pairable = settings.pairable)
  BY Zenon, <1>4 DEF PairInv, PairTyped, SettingsTyped, Settings
<1>6. PairTyped'
  BY <1>1, <1>3, <1>4, <1>5, ControlMoves DEF PairInv, PairTyped, WindowsTyped, HistoryTyped
<1>7. ClaimMoves(c)
  <2>1. CASE control' = control
    <3>1. pairCalls'[c].pc \in {"setPairable", "setDiscoverable"}
      BY <1>1, <1>2, <1>4, <2>1, ControlMoves
    <3> QED
      BY <1>1, <2>1, <3>1 DEF ClaimMoves, ForPeer, ForWindow
  <2>2. CASE ClearIncoming
    <3>1. pairCalls'[c].pc \in {"idle", "unregister"}
      BY <1>1, <1>2, <1>4, <2>2, ControlMoves
    <3> QED
      BY <1>1, <1>2, <3>1, <2>2, ControlMoves DEF ClaimMoves, ForPeer, ForWindow
  <2> QED
    BY <1>4, <2>1, <2>2
<1>8. SettingsMove(c)
  BY <1>1, <1>3, <1>4, <1>5 DEF PairInv, SettingsInv, SettingsMove, OwesPairable, OwesDiscoverable
<1> QED
  BY <1>3, <1>6, <1>7, <1>8, StepKeeps

\* The window opens, or Pairable is taken back (begin_incoming_pairing).
LEMMA SetDiscoverableKeeps ==
  ASSUME PairInv, NEW c \in PairCallers, SetDiscoverable(c)
  PROVE  PairInv'
<1>1. /\ CallsTyped /\ ControlTyped /\ "undoPairable" \in Labels
      /\ pairCalls[c].pc = "setDiscoverable" /\ ~windows[c].open
      /\ control' = control /\ overlapped' = overlapped /\ unrestored' = unrestored
  BY DEF PairInv, PairTyped, ClaimInv, Labels, SetDiscoverable, At, Unseen
<1>2. CASE Answer(c) /\ settings' = [settings EXCEPT !.discoverable = TRUE]
           /\ windows' = [windows EXCEPT ![c] = [open |-> TRUE, restore |-> pairCalls[c].restore]]
  <2>1. pairCalls[c].restore \in Settings
    BY <1>1 DEF CallsTyped, PairCall
  <2>2. /\ WindowsTyped' /\ windows'[c] = [open |-> TRUE, restore |-> pairCalls[c].restore]
        /\ \A d \in PairCallers \ {c} : windows'[d] = windows[d]
    BY <1>2, <2>1 DEF PairInv, PairTyped, WindowsTyped, Window
  <2>3. SettingsTyped'
    BY Zenon, <1>2 DEF PairInv, PairTyped, SettingsTyped, Settings
  <2>4. CallsTyped' /\ OthersRest(c) /\ pairCalls'[c].pc = "idle" /\ pairCalls'[c].restore = AtRest
    BY <1>1, <1>2, <2>2, AnswerMoves DEF OthersRest
  <2>5. PairTyped'
    BY <1>1, <2>2, <2>3, <2>4 DEF PairInv, PairTyped, ControlTyped, HistoryTyped
  <2>6. ClaimMoves(c)
    BY <1>1, <2>2, <2>4 DEF ClaimMoves, ForPeer, ForWindow
  <2>7. SettingsMove(c)
    BY <1>1, <2>2, <2>4 DEF PairInv, SettingsInv, SettingsMove, OwesPairable, OwesDiscoverable
  <2> QED
    BY <2>4, <2>5, <2>6, <2>7, StepKeeps
<1>3. CASE GoOn(c, "undoPairable") /\ settings' = settings /\ windows' = windows
  <2>1. CallsTyped' /\ OthersRest(c) /\ pairCalls'[c].pc = "undoPairable"
        /\ pairCalls'[c].restore = pairCalls[c].restore
    BY <1>1, <1>3, GoOnMoves DEF OthersRest
  <2>2. PairTyped'
    BY SMTT(20), <1>1, <1>3, <2>1 DEF PairInv, PairTyped, ControlTyped, HistoryTyped, WindowsTyped, SettingsTyped
  <2>3. ClaimMoves(c)
    BY SMTT(20), <1>1, <1>3, <2>1 DEF ClaimMoves, ForPeer, ForWindow
  <2>4. SettingsMove(c)
    BY <1>1, <1>3, <2>1 DEF PairInv, SettingsInv, SettingsMove, OwesPairable, OwesDiscoverable
  <2> QED
    BY SMTT(20), <2>1, <2>2, <2>3, <2>4, StepKeeps
<1> QED
  BY <1>2, <1>3 DEF SetDiscoverable

\* The window is given up with what it restores (end_incoming).
LEMMA EndIncomingKeeps ==
  ASSUME PairInv, NEW c \in PairCallers, EndIncoming(c)
  PROVE  PairInv'
<1>1. /\ CallsTyped /\ ControlTyped /\ WindowsTyped /\ "restoreDiscoverable" \in Labels
      /\ pairCalls[c].pc = "idle" /\ windows[c].open
      /\ settings' = settings /\ overlapped' = overlapped /\ unrestored' = unrestored
  BY DEF PairInv, PairTyped, Labels, EndIncoming, At, Unseen
<1>2. control.incoming /\ control.active = None /\ Holds(c)
  BY <1>1, HolderIsAlone DEF ForWindow, Holds
<1>3. ClearIncoming /\ pairCalls' = [pairCalls EXCEPT ![c].pc = "restoreDiscoverable",
                                                     ![c].restore = windows[c].restore]
  BY <1>2 DEF EndIncoming
<1>4. windows[c].restore \in Settings /\ Closed \in Window
  BY <1>1 DEF WindowsTyped, Window, Closed, AtRest, Settings
<1>5. /\ CallsTyped' /\ pairCalls'[c].pc = "restoreDiscoverable"
      /\ pairCalls'[c].restore = windows[c].restore
      /\ \A d \in PairCallers \ {c} : pairCalls'[d] = pairCalls[d]
  BY Zenon, <1>1, <1>3, <1>4 DEF CallsTyped, PairCall
<1>6. /\ WindowsTyped' /\ windows'[c] = Closed /\ Closed.restore = AtRest /\ ~Closed.open
      /\ \A d \in PairCallers \ {c} : windows'[d] = windows[d]
  BY <1>1, <1>4 DEF WindowsTyped, EndIncoming, Closed
<1>7. PairTyped'
  BY <1>1, <1>3, <1>5, <1>6, ControlMoves DEF PairInv, PairTyped, SettingsTyped, HistoryTyped
<1>8. ClaimMoves(c)
  BY <1>1, <1>2, <1>3, <1>5, <1>6, ControlMoves DEF ClaimMoves, ForPeer, ForWindow
<1>9. SettingsMove(c)
  BY <1>1, <1>5, <1>6 DEF PairInv, SettingsInv, SettingsMove, OwesPairable, OwesDiscoverable
<1> QED
  BY <1>5, <1>6, <1>7, <1>8, <1>9, StepKeeps DEF OthersRest

\* Restoring a setting, and going on whatever the answer (end_incoming_pairing).
LEMMA RestoreSettingKeeps ==
  ASSUME PairInv, NEW c \in PairCallers, RestoreSetting(c)
  PROVE  PairInv'
<1> DEFINE pc == pairCalls[c].pc
           next == IF pc = "restoreDiscoverable" THEN "restorePairable" ELSE "unregister"
<1>1. /\ CallsTyped /\ ControlTyped /\ SettingsTyped /\ next \in Labels
      /\ pc \in {"restoreDiscoverable", "restorePairable", "undoPairable"} /\ ~windows[c].open
      /\ windows' = windows /\ overlapped' = overlapped
  BY DEF PairInv, PairTyped, ClaimInv, Labels, RestoreSetting
<1>2. CallsTyped' /\ OthersRest(c) /\ pairCalls'[c].pc = next
      /\ pairCalls'[c].restore = pairCalls[c].restore
  BY <1>1, GoOnMoves DEF RestoreSetting, OthersRest
<1>3. IF pc = "undoPairable" THEN ClearIncoming ELSE control' = control
  BY DEF RestoreSetting
<1>4. PICK was \in Settings : was = pairCalls[c].restore
  BY <1>1 DEF CallsTyped, PairCall
<1>5. \/ /\ unrestored' = unrestored
         /\ settings' = IF pc = "restoreDiscoverable" THEN [settings EXCEPT !.discoverable = was.discoverable]
                                                      ELSE [settings EXCEPT !.pairable = was.pairable]
      \/ unrestored' = TRUE /\ settings' = settings
  BY <1>4 DEF RestoreSetting
<1>6. SettingsTyped'
  BY <1>1, <1>4, <1>5 DEF SettingsTyped, Settings
<1>7. HistoryTyped'
  BY Zenon, <1>1, <1>5 DEF PairInv, PairTyped, HistoryTyped
<1>8. PairTyped'
  BY <1>1, <1>2, <1>3, <1>6, <1>7, ControlMoves DEF PairInv, PairTyped, WindowsTyped
<1>9. ClaimMoves(c)
  <2>1. CASE pc = "undoPairable"
    BY <1>1, <1>2, <1>3, <2>1, ControlMoves, HolderIsAlone DEF ClaimMoves, ForPeer, ForWindow, Holds
  <2>2. CASE pc # "undoPairable"
    BY <1>1, <1>2, <1>3, <2>2 DEF ClaimMoves, ForPeer, ForWindow
  <2> QED
    BY <2>1, <2>2
<1>10. SettingsMove(c)
  <2>1. ASSUME ~overlapped', ~unrestored'
        PROVE  /\ ~overlapped /\ ~unrestored
               /\ pairCalls'[c].restore = AtRest /\ windows'[c].restore = AtRest
               /\ pc = "restoreDiscoverable" =>
                    ~settings'.discoverable /\ settings'.pairable = settings.pairable
               /\ pc # "restoreDiscoverable" =>
                    ~settings'.pairable /\ settings'.discoverable = settings.discoverable
    <3>1. ~overlapped /\ ~unrestored
      BY <1>1, <1>5, <2>1
    <3>2. pairCalls[c].restore = AtRest /\ windows[c].restore = AtRest /\ was = AtRest
      BY <1>4, <3>1 DEF PairInv, SettingsInv
    <3>3. settings' = IF pc = "restoreDiscoverable" THEN [settings EXCEPT !.discoverable = FALSE]
                                                   ELSE [settings EXCEPT !.pairable = FALSE]
      BY <1>5, <2>1, <3>2 DEF AtRest
    <3> QED
      BY Zenon, <1>1, <1>2, <3>1, <3>2, <3>3 DEF SettingsTyped, Settings
  <2> QED
    BY <1>1, <1>2, <2>1 DEF SettingsMove, OwesPairable, OwesDiscoverable
<1> QED
  BY <1>2, <1>8, <1>9, <1>10, StepKeeps

\* An outgoing pairing is answered, times out or is cancelled (pair_peer).
LEMMA PairingStepKeeps ==
  ASSUME PairInv, NEW c \in PairCallers, PairAnswered(c) \/ PairTimesOut(c) \/ CancelPairing(c)
  PROVE  PairInv'
<1>1. /\ CallsTyped /\ ControlTyped /\ "cancel" \in Labels
      /\ pairCalls[c].pc \in {"pairing", "cancel"} /\ ~windows[c].open
      /\ windows' = windows /\ settings' = settings
      /\ overlapped' = overlapped /\ unrestored' = unrestored
  BY DEF PairInv, PairTyped, ClaimInv, Labels, PairAnswered, PairTimesOut, CancelPairing, At, Unseen
<1>2. Holds(c) /\ control.active = pairCalls[c].peer /\ ~control.incoming
  BY <1>1, HolderIsAlone DEF ForPeer, Holds
<1>3. \/ GoOn(c, "cancel") /\ control' = control
      \/ Answer(c) /\ control' = [control EXCEPT !.active = None]
  BY <1>2 DEF PairAnswered, PairTimesOut, CancelPairing, DropPermit
<1>4. CASE GoOn(c, "cancel") /\ control' = control
  <2>1. CallsTyped' /\ OthersRest(c) /\ pairCalls'[c].pc = "cancel"
        /\ pairCalls'[c].peer = pairCalls[c].peer /\ pairCalls'[c].restore = pairCalls[c].restore
    BY <1>1, <1>4, GoOnMoves DEF OthersRest
  <2>2. PairTyped'
    BY ZenonT(30), <1>1, <1>4, <2>1 DEF PairInv, PairTyped, ControlTyped, WindowsTyped, SettingsTyped, HistoryTyped
  <2>3. ClaimMoves(c)
    BY ZenonT(30), <1>1, <1>4, <2>1 DEF ClaimMoves, ForPeer, ForWindow
  <2>4. SettingsMove(c)
    BY <1>1, <2>1 DEF PairInv, SettingsInv, SettingsMove, OwesPairable, OwesDiscoverable
  <2> QED
    BY <2>1, <2>2, <2>3, <2>4, StepKeeps
<1>5. CASE Answer(c) /\ control' = [control EXCEPT !.active = None]
  <2>1. CallsTyped' /\ OthersRest(c) /\ pairCalls'[c].pc = "idle" /\ pairCalls'[c].restore = AtRest
    BY <1>1, <1>5, AnswerMoves DEF OthersRest
  <2>2. ControlTyped' /\ control'.active = None /\ control'.incoming = control.incoming
    BY <1>1, <1>5, ControlMoves
  <2>3. PairTyped'
    BY SMTT(20), <1>1, <2>1, <2>2 DEF PairInv, PairTyped, WindowsTyped, SettingsTyped, HistoryTyped
  <2>4. ClaimMoves(c)
    BY SMTT(20), <1>1, <1>2, <2>1, <2>2 DEF ClaimMoves, ForPeer, ForWindow
  <2>5. SettingsMove(c)
    BY <1>1, <2>1 DEF PairInv, SettingsInv, SettingsMove, OwesPairable, OwesDiscoverable
  <2> QED
    BY <2>1, <2>3, <2>4, <2>5, StepKeeps
<1> QED
  BY <1>3, <1>4, <1>5

\* A remote device pairs; BlueZ restarts or unpairs.
LEMMA SurroundingsKeepPairing ==
  ASSUME PairInv, \/ \E p \in PairPeers : RemotePairs(p)
                  \/ BluezChanges
                  \/ UNCHANGED pairVars
  PROVE  PairInv'
<1>1. /\ control' = control /\ settings' = settings /\ pairCalls' = pairCalls /\ windows' = windows
      /\ overlapped' = overlapped /\ unrestored' = unrestored
  BY DEF RemotePairs, BluezChanges, pairVars
<1>2. PairTyped'
  BY SMTT(20), <1>1 DEF PairInv, PairTyped, CallsTyped, WindowsTyped, ControlTyped, SettingsTyped, HistoryTyped
<1>3. ClaimInv'
  BY <1>1 DEF PairInv, ClaimInv, Holds
<1>4. SettingsInv'
  BY <1>1 DEF PairInv, SettingsInv
<1> QED
  BY <1>2, <1>3, <1>4 DEF PairInv

\* Nothing is claimed at first.
LEMMA PairInitially == PairInit => PairInv
<1> SUFFICES ASSUME PairInit PROVE PairInv
  OBVIOUS
<1>1. NoPairCall \in PairCall /\ Closed \in Window /\ AtRest \in Settings
  BY DEF NoPairCall, PairCall, Labels, Closed, Window, AtRest, Settings
<1>2. PairTyped
  BY Zenon, <1>1 DEF PairInit, PairTyped, CallsTyped, WindowsTyped, ControlTyped, SettingsTyped, HistoryTyped
<1>3. \A c \in PairCallers : /\ pairCalls[c].pc = "idle" /\ pairCalls[c].restore = AtRest
                              /\ ~windows[c].open /\ windows[c].restore = AtRest
  BY DEF PairInit, NoPairCall, Closed
<1>4. ClaimInv
  BY SMTT(20), <1>3 DEF PairInit, ClaimInv, Holds, ForPeer, ForWindow
<1>5. SettingsInv
  BY <1>3 DEF PairInit, SettingsInv, AtRest
<1> QED
  BY <1>2, <1>4, <1>5 DEF PairInv

\* One case per action of PairNext.
LEMMA PairStep == PairInv /\ [PairNext]_pairVars => PairInv'
<1> SUFFICES ASSUME PairInv, [PairNext]_pairVars PROVE PairInv'
  OBVIOUS
<1>1. ASSUME NEW c \in PairCallers,
             CallStep(c) \/ Accept(c) \/ EndIncoming(c) \/ PairAnswered(c)
      PROVE  PairInv'
  BY <1>1, QuietKeeps, ReadSettingKeeps, ClaimKeeps, WindowStepKeeps, SetDiscoverableKeeps,
     EndIncomingKeeps, RestoreSettingKeeps, PairingStepKeeps DEF CallStep
<1>2. ASSUME NEW c \in PairCallers, NEW p \in PairPeers, PairPeer(c, p) \/ SetTrusted(c, p)
      PROVE  PairInv'
  BY <1>2, QuietKeeps
<1> QED
  BY <1>1, <1>2, SurroundingsKeepPairing DEF PairNext

\* The invariant counts the holders: at most one, and none without a claim.
LEMMA NoTraceFollows == PairInv => PairingLeavesNoTrace
<1> SUFFICES ASSUME PairInv PROVE PairingLeavesNoTrace
  OBVIOUS
<1> DEFINE H == Pairing \cup Windowing
<1>1. ASSUME NEW c \in PairCallers
      PROVE  /\ (c \in Pairing) <=> ForPeer(pairCalls[c])
             /\ (c \in Windowing) <=> ForWindow(pairCalls[c], windows[c])
             /\ (c \in H) <=> Holds(c)
  <2>1. (c \in Pairing) <=> ForPeer(pairCalls[c])
    BY DEF Pairing, ForPeer
  <2>2. (c \in Windowing) <=> ForWindow(pairCalls[c], windows[c])
    BY DEF Windowing, ForWindow
  <2> QED
    BY <2>1, <2>2 DEF Holds
<1>2. Pairing \subseteq PairCallers /\ Windowing \subseteq PairCallers
  BY DEF Pairing, Windowing
<1> HIDE DEF H
<1>3. Cardinality(H) <= 1
  <2>0. H \subseteq PairCallers
    BY <1>2 DEF H
  <2>1. CASE H = {}
    BY <2>1, FS_EmptySet
  <2>2. CASE H # {}
    <3>1. PICK c : c \in H
      BY SMTT(20), <2>2
    <3>2. \A d \in H : d = c
      BY SMTT(20), <1>1, <2>0, <3>1 DEF PairInv, ClaimInv
    <3> QED
      BY <3>1, <3>2, FS_Singleton, H = {c}
  <2> QED
    BY <2>1, <2>2
<1>4. (control.incoming <=> Windowing # {}) /\ (control.active # None <=> Pairing # {})
      /\ \A c \in Pairing : pairCalls[c].peer = control.active
  <2>1. control.incoming <=> \E c \in PairCallers : ForWindow(pairCalls[c], windows[c])
    BY SMTT(20) DEF PairInv, ClaimInv
  <2>2. control.active # None <=> \E c \in PairCallers : ForPeer(pairCalls[c])
    BY SMTT(20) DEF PairInv, ClaimInv
  <2>3. \A c \in PairCallers : ForPeer(pairCalls[c]) => pairCalls[c].peer = control.active
    BY DEF PairInv, ClaimInv
  <2> QED
    BY SMTT(20), <1>1, <1>2, <2>1, <2>2, <2>3
<1>5. SettingsReturn
  <2>1. ASSUME \A c \in PairCallers : At(c, "idle") /\ ~windows[c].open, ~overlapped, ~unrestored
        PROVE  settings = AtRest
    <3>1. ~settings.pairable /\ ~settings.discoverable
      BY <2>1 DEF PairInv, SettingsInv, OwesPairable, OwesDiscoverable, At
    <3> QED
      BY <3>1 DEF PairInv, PairTyped, SettingsTyped, Settings, AtRest
  <2> QED
    BY <2>1 DEF SettingsReturn
<1> QED
  BY <1>3, <1>4, <1>5 DEF PairingLeavesNoTrace, ClaimsAreExact, H

\* PairingControl is exact and the adapter's settings come back (bluez.rs).
THEOREM PairingTakesItAllBack == PairSpec => []PairingLeavesNoTrace
BY PairInitially, PairStep, NoTraceFollows, PTL DEF PairSpec

-----------------------------------------------------------------------------
\* Proof about the table, for every lifetime, table size and clock range.  CandidatesAreTheLatest
\* is not inductive: an old observation may enter the table after a sweep, and
\* stays harmless only because everything later than it has expired as well.

TableTypeOK ==
  /\ DOMAIN candidates \subseteq Others
  /\ \A p \in DOMAIN candidates : candidates[p] \in [at : Nat, expires : Nat]
  /\ now \in Nat /\ newest \in [Others -> Nat]
  /\ Cardinality(DOMAIN candidates) <= MAX_CANDIDATES

\* What is in the table is the latest observation, or outlived by one that has
\* expired; what is not in the table was never heard of or has expired.
TableInv ==
  /\ TableTypeOK
  /\ \A p \in DOMAIN candidates :
       /\ candidates[p].expires = candidates[p].at + LIFETIME
       /\ newest[p] # Never /\ candidates[p].at <= newest[p]
       /\ candidates[p].at = newest[p] \/ newest[p] + LIFETIME <= now
  /\ \A p \in Others \ DOMAIN candidates : newest[p] = Never \/ newest[p] + LIFETIME <= now

\* A sum that observe did not refuse is stored as it is.
LEMMA NoWrap ==
  ASSUME NEW a \in Nat, NEW b \in Nat, a <= b
  PROVE  a % (b + 1) = a
BY SMT

\* An accepted observation keeps the table within MAX_CANDIDATES: a new node is
\* refused by a full table (observe).
LEMMA ObserveKeepsRoom ==
  ASSUME TableConstants, TableTypeOK, NEW p \in Others, NEW at \in Nat, ~Refused(p, at)
  PROVE  Cardinality(DOMAIN candidates \cup {p}) <= MAX_CANDIDATES
<1>1. IsFiniteSet(DOMAIN candidates)
  BY FS_Subset DEF TableConstants, TableTypeOK
<1>2. Cardinality(DOMAIN candidates) \in Nat
  BY <1>1, FS_CardinalityType
<1>3. CASE p \in DOMAIN candidates
  <2>1. DOMAIN candidates \cup {p} = DOMAIN candidates
    BY <1>3
  <2> QED BY <2>1 DEF TableTypeOK
<1>4. CASE p \notin DOMAIN candidates
  <2>1. Cardinality(DOMAIN candidates \cup {p}) = Cardinality(DOMAIN candidates) + 1
    BY <1>1, <1>4, FS_AddElement
  <2>2. ~(Cardinality(DOMAIN candidates) >= MAX_CANDIDATES)
    BY <1>4 DEF Refused
  <2> QED BY SMTT(20), <1>2, <2>1, <2>2 DEF TableConstants
<1> QED BY <1>3, <1>4

\* Applying an observation, late ones included (observe).
LEMMA ObserveKeepsTable ==
  ASSUME TableConstants, TableInv, NEW p \in Others \cup {Local}, NEW at \in 0 .. U64Max, Observe(p, at)
  PROVE  TableInv'
<1> USE DEF TableConstants
<1>1. p \in Others /\ at \in Nat /\ at <= now /\ at + LIFETIME <= U64Max
  BY DEF Observe, Refused
<1>2. (at + LIFETIME) % (U64Max + 1) = at + LIFETIME
  BY SMTT(20), <1>1, NoWrap
<1>3. Cardinality(DOMAIN candidates \cup {p}) <= MAX_CANDIDATES
  BY <1>1, ObserveKeepsRoom DEF TableInv, Observe
<1>4. newest' = [newest EXCEPT ![p] = Later(p, at)] /\ now' = now
  BY SMTT(20) DEF Observe
<1>5. newest'[p] \in Nat /\ newest'[p] # Never /\ at <= newest'[p]
  BY SMTT(20), <1>1, <1>4 DEF TableInv, TableTypeOK, Later, Never
<1>6. CASE IsNews(p, at)
  <2>1. candidates' = Put(p, at, at + LIFETIME)
    BY <1>2, <1>6 DEF Observe
  <2>2. DOMAIN candidates' = DOMAIN candidates \cup {p}
    BY <2>1 DEF Put
  <2>3. candidates'[p] = [at |-> at, expires |-> at + LIFETIME]
    BY <2>1 DEF Put
  <2>4. \A q \in DOMAIN candidates : q # p => candidates'[q] = candidates[q]
    BY SMTT(20), <2>1 DEF Put
  <2>5. \A q \in Others : q # p => newest'[q] = newest[q]
    BY SMTT(20), <1>1, <1>4 DEF TableInv, TableTypeOK
  <2>6. at = newest'[p] \/ newest'[p] + LIFETIME <= now
    BY SMTT(20), <1>1, <1>4, <1>6 DEF TableInv, TableTypeOK, Later, IsNews, Never
  <2>7. TableTypeOK'
    BY SMTT(20), <1>1, <1>3, <1>4, <1>5, <2>2, <2>3, <2>4, <2>5 DEF TableInv, TableTypeOK
  <2> QED
    BY <1>1, <1>4, <1>5, <2>2, <2>3, <2>4, <2>5, <2>6, <2>7 DEF TableInv, Never
<1>7. CASE ~IsNews(p, at)
  <2>1. candidates' = candidates /\ newest' = newest
    BY <1>1, <1>4, <1>7 DEF Observe, TableInv, TableTypeOK, Later, IsNews, Never
  <2> QED BY Zenon, <1>4, <2>1 DEF TableInv, TableTypeOK, Never
<1> QED BY SMTT(20), <1>6, <1>7

\* Sweeping the table (expire).
LEMMA ExpireKeepsTable ==
  ASSUME TableConstants, TableInv, Expire
  PROVE  TableInv'
<1> USE DEF TableConstants
<1>1. /\ DOMAIN candidates' = CandidatesAt(now)
      /\ \A p \in CandidatesAt(now) : candidates'[p] = candidates[p]
      /\ now' = now /\ newest' = newest
  BY DEF Expire
<1>2. CandidatesAt(now) \subseteq DOMAIN candidates
  BY SMTT(20) DEF CandidatesAt
<1>3. Cardinality(CandidatesAt(now)) <= MAX_CANDIDATES
  <2>1. IsFiniteSet(DOMAIN candidates)
    BY FS_Subset DEF TableInv, TableTypeOK
  <2>2. IsFiniteSet(CandidatesAt(now)) /\ Cardinality(CandidatesAt(now)) <= Cardinality(DOMAIN candidates)
    BY <1>2, <2>1, FS_Subset
  <2>3. Cardinality(CandidatesAt(now)) \in Nat /\ Cardinality(DOMAIN candidates) \in Nat
    BY SMTT(20), <2>1, <2>2, FS_CardinalityType
  <2> QED BY SMTT(20), <2>2, <2>3 DEF TableInv, TableTypeOK
<1>4. TableTypeOK'
  BY SMTT(20), <1>1, <1>2, <1>3 DEF TableInv, TableTypeOK
<1>5. \A p \in DOMAIN candidates \ CandidatesAt(now) : newest[p] + LIFETIME <= now
  BY SMTT(20) DEF CandidatesAt, TableInv, TableTypeOK
<1> QED BY <1>1, <1>2, <1>4, <1>5 DEF TableInv, Never

\* TableInv says what a candidate is.
LEMMA TableInvSuffices ==
  ASSUME TableConstants, TableInv
  PROVE  CandidatesAreTheLatest
BY DEF TableConstants, TableInv, TableTypeOK, CandidatesAreTheLatest, CandidatesAt, Never

\* Whatever the order in which observations are applied and the table is swept,
\* the candidates of NeighborObservations are the latest young observations.
THEOREM LatestAreShown ==
  ASSUME TableConstants
  PROVE  NeighborSpec => []CandidatesAreTheLatest
<1>1. NeighborInit => TableInv
  <2> SUFFICES ASSUME NeighborInit PROVE TableInv
    OBVIOUS
  <2>1. DOMAIN candidates = {}
    BY DEF NeighborInit
  <2>2. Cardinality(DOMAIN candidates) <= MAX_CANDIDATES
    BY <2>1, FS_EmptySet DEF TableConstants
  <2> QED BY <2>1, <2>2 DEF NeighborInit, TableInv, TableTypeOK, TableConstants, Never
<1>2. TableInv /\ [NeighborNext]_neighborVars => TableInv'
  <2> SUFFICES ASSUME TableInv, [NeighborNext]_neighborVars PROVE TableInv'
    OBVIOUS
  <2>1. CASE \E p \in Others \cup {Local}, at \in 0 .. U64Max : Observe(p, at)
    BY <2>1, ObserveKeepsTable
  <2>2. CASE Expire
    BY SMTT(20), <2>2, ExpireKeepsTable
  <2>3. CASE TableTick
    BY SMTT(20), <2>3 DEF TableTick, TableInv, TableTypeOK, TableConstants, Never
  <2>4. CASE UNCHANGED neighborVars
    BY <2>4 DEF neighborVars, TableInv, TableTypeOK, Never
  <2> QED BY <2>1, <2>2, <2>3, <2>4 DEF NeighborNext
<1>3. TableInv => CandidatesAreTheLatest
  BY TableInvSuffices
<1> QED BY <1>1, <1>2, <1>3, PTL DEF NeighborSpec

-----------------------------------------------------------------------------
\* Proof about the gate, for every set of topologies, every policy and every sequence of costs.

GateTypeOK ==
  /\ chosen \in Topologies /\ viable \subseteq Topologies /\ left \subseteq Topologies
  /\ cost \in [Topologies -> Nat]

\* Every step to a better topology gains MIN_GAIN, so what was left costs at least
\* that much more than where the node is now.  A lost topology may be left at any
\* cost, which is harmless: its loss was a drift, and nothing was left since.
GateInv ==
  /\ GateTypeOK
  /\ \A t \in left : cost[chosen] + MIN_GAIN <= cost[t]
  /\ chosen \notin viable => left = {}

\* The step that applies a proposal (the Apply branch of the decision).
LEMMA ChangeKeepsGain ==
  ASSUME GateConstants, GateInv, NEW p \in Topologies, ChangeSucceeds(p)
  PROVE  GateInv'
<1> USE DEF GateConstants, GateInv, GateTypeOK
<1>1. p \in viable /\ chosen' = p /\ cost' = cost /\ viable' = viable
  BY DEF ChangeSucceeds, Decide
<1>2. CASE chosen \in viable
  <2>1. ~(SaturatingSub(cost[chosen], cost[p]) < MIN_GAIN)
    BY <1>2 DEF ChangeSucceeds, Decide
  <2>2. cost[p] + MIN_GAIN <= cost[chosen]
    BY <2>1 DEF SaturatingSub
  <2>3. left' = left \cup {chosen}
    BY <1>2 DEF ChangeSucceeds
  <2> QED BY <1>1, <2>2, <2>3
<1>3. CASE chosen \notin viable
  BY <1>1, <1>3 DEF ChangeSucceeds
<1> QED BY <1>2, <1>3

\* While costs and viability stay as they are, a topology that was given up for a
\* better one is not taken up again (decide_topology_change).
THEOREM GateNeverFlaps ==
  ASSUME GateConstants
  PROVE  GateSpec => []NoFlap
<1> USE DEF GateConstants
<1>1. GateInit => GateInv
  BY Zenon DEF GateInit, GateInv, GateTypeOK
<1>2. GateInv /\ [GateNext]_gateVars => GateInv'
  <2> SUFFICES ASSUME GateInv, [GateNext]_gateVars PROVE GateInv'
    OBVIOUS
  <2>1. ASSUME NEW p \in Topologies, ChangeSucceeds(p) PROVE GateInv'
    BY <2>1, ChangeKeepsGain
  <2>2. ASSUME NEW p \in Topologies, ChangeFails(p) PROVE GateInv'
    BY <2>2 DEF ChangeFails, GateInv, GateTypeOK
  <2>3. CASE GateTick
    BY <2>3 DEF GateTick, GateInv, GateTypeOK
  <2>4. CASE Drift
    <3>1. left' = {} /\ chosen' = chosen
      BY <2>4 DEF Drift
    <3>2. cost' \in [Topologies -> Nat] /\ viable' \subseteq Topologies
      BY <2>4 DEF Drift, GateInv, GateTypeOK
    <3> QED BY <3>1, <3>2 DEF GateInv, GateTypeOK
  <2>5. CASE UNCHANGED gateVars
    BY <2>5 DEF gateVars, GateInv, GateTypeOK
  <2> QED BY <2>1, <2>2, <2>3, <2>4, <2>5 DEF GateNext, GateStep
<1>3. GateInv => NoFlap
  BY SMTT(20) DEF GateInv, GateTypeOK, NoFlap
<1> QED BY <1>1, <1>2, <1>3, PTL DEF GateSpec

(* ------------------------ the forwarding switch ------------------------ *)

LeaseLabels == {"idle", "enable", "enable_lease", "create", "write_lease", "raise", "check_on",
           "release", "release_switch", "lower", "check_off", "drop"}

LeaseTypeOK ==
  /\ switch \in BOOLEAN /\ admin \in BOOLEAN /\ meddled \in BOOLEAN /\ fwdCurrent \in BOOLEAN
  /\ created \in BOOLEAN /\ fwdPc \in LeaseLabels /\ lease \in {"none", "torn", "off", "on"}

\* What the running call knows of the lease file.
CallKnows ==
  /\ fwdPc = "create" => lease = "none"
  /\ fwdPc = "write_lease" => lease = "torn"
  /\ created => fwdPc \in {"raise", "check_on"}
  /\ fwdPc \in {"raise", "check_on"} => lease \in {"off", "on"}
  /\ fwdPc \in {"release_switch", "lower", "check_off", "drop"} => kept = lease /\ lease \in {"off", "on"}
  /\ fwdPc \in {"lower", "check_off"} => lease = "off"

\* While nobody else turns the switch, a lease records its policy, and BlueRoute's
\* own value stands only under a lease that says "off".
LeaseRecords ==
  ~meddled =>
    /\ lease = "off" => ~admin
    /\ lease = "on" => switch /\ admin
    /\ lease \in {"none", "torn"} => switch = admin
    /\ fwdPc \in {"enable_lease", "create", "write_lease"} => fwdCurrent = switch
    /\ fwdPc \in {"raise", "check_on"} => lease = "off"
    /\ fwdPc = "raise" /\ created => ~switch
    /\ fwdPc = "drop" => switch = admin

LeaseInv == LeaseTypeOK /\ CallKnows /\ LeaseRecords

USE DEF LeaseLabels, Goto, Return, Fault, Drop, call

\* A call begins (reconcile_forwarding); what others did before it is now policy.
LEMMA ReconcileKeeps ==
  ASSUME LeaseInv, NEW T, Reconcile(T)
  PROVE  LeaseInv'
BY DEF Reconcile, LeaseInv, LeaseTypeOK, CallKnows, LeaseRecords

\* The steps of enable.
LEMMA EnableKeeps ==
  ASSUME LeaseInv, ReadSwitch \/ ReadLease \/ CreateLease \/ WriteLease \/ Raise \/ CheckOn
  PROVE  LeaseInv'
<1> USE DEF LeaseInv, LeaseTypeOK, CallKnows, LeaseRecords
<1>1. CASE ReadSwitch
  BY SMTT(20), <1>1 DEF ReadSwitch
<1>2. CASE ReadLease
  <2>1. CASE lease = "torn"
    BY Zenon, <1>2, <2>1 DEF ReadLease
  <2>2. CASE lease = "none"
    BY <1>2, <2>2 DEF ReadLease
  <2>3. CASE lease \in {"off", "on"}
    BY Zenon, <1>2, <2>3 DEF ReadLease
  <2> QED BY <2>1, <2>2, <2>3
<1>3. CASE CreateLease
  BY <1>3 DEF CreateLease
<1>4. CASE WriteLease
  BY Zenon, <1>4 DEF WriteLease, Baseline
<1>5. CASE Raise
  BY Zenon, <1>5 DEF Raise
<1>6. CASE CheckOn
  BY Zenon, <1>6 DEF CheckOn
<1> QED BY Zenon, <1>1, <1>2, <1>3, <1>4, <1>5, <1>6

\* The steps of release.
LEMMA ReleaseKeeps ==
  ASSUME LeaseInv, ReadKept \/ ReleaseSwitch \/ Lower \/ CheckOff \/ RemoveLease
  PROVE  LeaseInv'
<1> USE DEF LeaseInv, LeaseTypeOK, CallKnows, LeaseRecords
<1>1. CASE ReadKept
  BY Zenon, <1>1 DEF ReadKept
<1>2. CASE ReleaseSwitch
  <2>1. CASE NeedsLowering
    BY Zenon, <1>2, <2>1 DEF ReleaseSwitch, NeedsLowering
  <2>2. CASE ~NeedsLowering
    <3>1. LeaseTypeOK' /\ CallKnows'
      BY SMTT(20), <1>2, <2>2 DEF ReleaseSwitch
    <3>2. ~meddled => switch = admin
      <4>1. lease = "off" => ~switch
        BY SMTT(20), <1>2, <2>2 DEF ReleaseSwitch, NeedsLowering
      <4> QED BY <1>2, <4>1 DEF ReleaseSwitch
    <3> QED BY SMTT(20), <1>2, <2>2, <3>1, <3>2 DEF ReleaseSwitch
  <2> QED BY SMTT(20), <2>1, <2>2
<1>3. CASE Lower
  <2>1. fwdPc = "lower" /\ lease = "off" /\ kept = "off" /\ ~created
    BY SMTT(20), <1>3 DEF Lower
  <2>2. lease' = lease /\ admin' = admin /\ meddled' = meddled
    BY SMTT(20), <1>3 DEF Lower
  <2>3. switch' \in BOOLEAN
    BY Zenon, <1>3 DEF Lower
  <2>4. \/ fwdPc' = "check_off" /\ kept' = kept /\ fwdCurrent' = fwdCurrent /\ created' = created
        \/ fwdPc' = "idle" /\ fwdCurrent' = FALSE /\ created' = FALSE
    BY SMTT(20), <1>3 DEF Lower
  <2>5. LeaseTypeOK' /\ CallKnows'
    <3>1. CASE fwdPc' = "check_off" /\ kept' = kept /\ fwdCurrent' = fwdCurrent /\ created' = created
      BY SMTT(20), <2>1, <2>2, <2>3, <3>1
    <3>2. CASE fwdPc' = "idle" /\ fwdCurrent' = FALSE /\ created' = FALSE
      BY Zenon, <2>1, <2>2, <2>3, <3>2
    <3> QED BY Zenon, <2>4, <3>1, <3>2
  <2>6. LeaseRecords'
    BY <2>1, <2>2, <2>4
  <2> QED BY SMTT(20), <2>5, <2>6
<1>4. CASE CheckOff
  BY Zenon, <1>4 DEF CheckOff
<1>5. CASE RemoveLease
  BY Zenon, <1>5 DEF RemoveLease
<1> QED BY <1>1, <1>2, <1>3, <1>4, <1>5

\* When no call runs and no lease is held, the switch stands as the host had set
\* it, unless somebody else turned it during the lease (enable and release).
THEOREM PolicyReturns == FwdSpec => []HostPolicyReturns
<1>1. FwdInit => LeaseInv
  BY Zenon DEF FwdInit, LeaseInv, LeaseTypeOK, CallKnows, LeaseRecords
<1>2. LeaseInv /\ [FwdNext]_fwdVars => LeaseInv'
  <2> SUFFICES ASSUME LeaseInv, [FwdNext]_fwdVars PROVE LeaseInv'
    OBVIOUS
  <2>1. CASE \E T \in SUBSET {"router", "leaf", "foreign"} : Reconcile(T)
    BY <2>1, ReconcileKeeps
  <2>2. CASE FwdStep
    BY <2>2, EnableKeeps, ReleaseKeeps DEF FwdStep
  <2>3. CASE Administer
    BY <2>3 DEF Administer, LeaseInv, LeaseTypeOK, CallKnows, LeaseRecords
  <2>4. CASE Crash
    BY Zenon, <2>4 DEF Crash, LeaseInv, LeaseTypeOK, CallKnows, LeaseRecords
  <2>5. CASE UNCHANGED fwdVars
    BY SMTT(20), <2>5 DEF fwdVars, LeaseInv, LeaseTypeOK, CallKnows, LeaseRecords
  <2> QED BY <2>1, <2>2, <2>3, <2>4, <2>5 DEF FwdNext
<1>3. LeaseInv => HostPolicyReturns
  BY DEF LeaseInv, LeaseRecords, HostPolicyReturns
<1> QED BY <1>1, <1>2, <1>3, PTL DEF FwdSpec
==============================================================================
