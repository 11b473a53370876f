---------------------------- MODULE StarHostProofs ----------------------------
(***************************************************************************)
(* Proofs about StarHost, for any number of requests, observers, networks, *)
(* retries and crashes.                                                    *)
(***************************************************************************)
EXTENDS StarHost, FiniteSetTheorems, TLAPS

\* The cleanup steps that can be left, and what they will remove.
Plans == {TearDown, SetupRollback, <<"address", "bridge">>, <<"bridge">>, <<>>}
Left(t) ==
  IF Len(t) = 0 THEN {}
  ELSE IF Len(t) <= 2 THEN {"bridge", "address"}
  ELSE IF Len(t) = 3 THEN {"bridge", "address", "nap"}
  ELSE Resources

\* Each cleanup step removes what the steps after it will not.
LEMMA PlansShrink ==
  ASSUME NEW t \in Plans, t # <<>>
  PROVE  /\ Head(t) \in Resources
         /\ Tail(t) \in Plans
         /\ Left(t) \ Removed(Head(t)) \subseteq Left(Tail(t))
<1>1. CASE t = TearDown
  <2>1. Head(t) = "advertisement" /\ Tail(t) = SetupRollback
    BY <1>1 DEF TearDown, SetupRollback
  <2>2. Left(t) = Resources /\ Left(Tail(t)) = {"bridge", "address", "nap"}
    BY <1>1 DEF Left, TearDown
  <2> QED  BY <2>1, <2>2 DEF Plans, Resources, Removed
<1>2. CASE t = SetupRollback
  <2>1. Head(t) = "nap" /\ Tail(t) = <<"address", "bridge">>
    BY <1>2 DEF SetupRollback
  <2>2. Left(t) = {"bridge", "address", "nap"} /\ Left(Tail(t)) = {"bridge", "address"}
    BY <1>2 DEF Left, SetupRollback
  <2> QED  BY <2>1, <2>2 DEF Plans, Resources, Removed
<1>3. CASE t = <<"address", "bridge">>
  <2>1. Head(t) = "address" /\ Tail(t) = <<"bridge">>
    BY <1>3
  <2>2. Left(t) = {"bridge", "address"} /\ Left(Tail(t)) = {"bridge", "address"}
    BY <1>3 DEF Left
  <2> QED  BY <2>1, <2>2 DEF Plans, Resources
<1>4. CASE t = <<"bridge">>
  <2>1. Head(t) = "bridge" /\ Tail(t) = <<>>
    BY <1>4
  <2>2. Left(t) = {"bridge", "address"} /\ Left(Tail(t)) = {}
    BY <1>4 DEF Left
  <2> QED  BY <2>1, <2>2 DEF Plans, Resources, Removed
<1> QED  BY <1>1, <1>2, <1>3, <1>4 DEF Plans

\* The plans that the operations start with.
LEMMA PlanValues ==
  /\ TearDown \in Plans /\ SetupRollback \in Plans /\ AddressRollback \in Plans
  /\ Left(TearDown) = Resources
  /\ Left(SetupRollback) = {"bridge", "address", "nap"}
  /\ Left(AddressRollback) = {"bridge", "address"}
  /\ Left(<<>>) = {}
<1>1. /\ TearDown \in Plans /\ SetupRollback \in Plans /\ AddressRollback \in Plans
  BY DEF Plans, AddressRollback
<1>2. Left(TearDown) = Resources
  BY DEF Left, TearDown
<1>3. Left(SetupRollback) = {"bridge", "address", "nap"}
  BY DEF Left, SetupRollback
<1>4. Left(AddressRollback) = {"bridge", "address"}
  BY DEF Left, AddressRollback
<1>5. Left(<<>>) = {}
  BY DEF Left
<1> QED  BY <1>1, <1>2, <1>3, <1>4, <1>5

Held == {"survey", "bridge", "address", "nap", "advertise", "undo", "cleanup"}
Starting == {"start", "survey", "bridge", "address", "nap", "advertise", "undo"}
Stopping == {"stop", "cleanup"}

HostTypes ==
  /\ TypeOK
  /\ todo \in [Processes -> Plans]
  /\ tried \in [Processes -> SUBSET NetworkIds] /\ \A p \in Processes : IsFiniteSet(tried[p])

\* One process at a time: requests hold the mutation flag, startup runs before
\* D-Bus is served; and who is inside start_host or stop_host holds the transition.
Serial ==
  /\ mutation \in Requests \cup {Free}
  /\ \A p \in Requests : pc[p] # "idle" <=> mutation = p
  /\ up => pc[Boot] = "idle"
  /\ ~up => mutation = Free
  /\ \A p \in Processes : transition = p <=> pc[p] \in Held

\* What a running process has done so far.
Doing(p) ==
  LET n == net[p] IN
  /\ op[p] = "reconcile" <=> p = Boot
  /\ pc[p] = "pick" => op[p] = "create"
  /\ pc[p] \in Stopping \cup {"save", "ack"} => op[p] # "reconcile"
  /\ pc[p] \in Starting \cup Stopping \cup {"save"} => n \in NetworkIds
  /\ pc[p] \in Starting \ {"start"} => active = NoNetwork
  /\ pc[p] = "cleanup" => active = n /\ (~failed[p] => exists[n] \subseteq Left(todo[p]))
  /\ pc[p] = "save" => IF op[p] = "create" THEN active = n ELSE active = NoNetwork /\ exists[n] = {}
  /\ pc[p] \in {"ok", "ack"} /\ op[p] = "create" => durable = n /\ active = n /\ n \in NetworkIds
  /\ pc[p] \in {"ok", "ack"} /\ op[p] = "leave" =>
       durable = NoNetwork /\ (n # NoNetwork => n \in NetworkIds /\ active = NoNetwork /\ exists[n] = {})
  /\ pc[p] = "address" => {"bridge"} \subseteq exists[n]
  /\ pc[p] = "nap" => {"bridge", "address"} \subseteq exists[n]
  /\ pc[p] = "advertise" => {"bridge", "address", "nap"} \subseteq exists[n]

\* What of it exists, when nothing was left over.
Clean == faults \cap {"cleanup", "crash", "bridge"} = {}
Building(p) ==
  LET n == net[p] IN
  /\ pc[p] \in {"survey", "bridge"} => exists[n] = {}
  /\ pc[p] = "address" => exists[n] \subseteq {"bridge"}
  /\ pc[p] = "nap" => exists[n] \subseteq {"bridge", "address"}
  /\ pc[p] = "advertise" => exists[n] \subseteq {"bridge", "address", "nap"}
  /\ pc[p] = "undo" => exists[n] \subseteq Left(todo[p])

\* How membership and host differ while a mutation runs.
Faithful == faults \cap {"torn", "rollback", "restore", "reconcile"} = {}
Kept(p) == IF op[p] = "create" THEN NoNetwork ELSE net[p]
Agreeing(p) ==
  /\ pc[p] \in {"ok", "ack", "err"} => active = durable
  /\ pc[p] = "pick" => active = NoNetwork /\ durable = NoNetwork
  /\ pc[p] \in Starting => active = NoNetwork /\ durable = Kept(p)
  /\ pc[p] = "save" => durable = Kept(p)
  /\ pc[p] \in Stopping => active = net[p] /\ durable = Kept(p)

\* The host in the slot is complete, except while or after it is torn down.
Whole ==
  active # NoNetwork /\ "cleanup" \notin faults /\ (\A p \in Processes : pc[p] # "cleanup")
    => exists[active] = Resources

\* Whatever exists is the host's, or of the process that holds the transition.
NoOrphan ==
  Clean => \A n \in NetworkIds : exists[n] # {} =>
    n = active \/ \E p \in Processes : pc[p] \in Held /\ net[p] = n

\* Where the host is between mutations.
Resting ==
  /\ Faithful => active = IF up THEN durable ELSE NoNetwork
  /\ ~up => active = NoNetwork

HostIInv ==
  /\ HostTypes
  /\ Serial
  /\ \A p \in Processes : failed[p] => pc[p] \in {"undo", "cleanup"} /\ "cleanup" \in faults
  /\ \A p \in Processes : pc[p] # "idle" =>
       Doing(p) /\ (Clean => Building(p)) /\ (Faithful => Agreeing(p))
  /\ Quiet => Resting
  /\ Whole
  /\ NoOrphan

\* No two processes run at once.
LEMMA Alone ==
  ASSUME HostIInv, NEW p \in Processes, NEW q \in Processes, pc[p] # "idle", pc[q] # "idle"
  PROVE  p = q
  BY StarConstants DEF HostIInv, Serial, Processes

\* Before the first start.
LEMMA HostInit == Init => HostIInv
<1> SUFFICES ASSUME Init PROVE HostIInv
  OBVIOUS
<1>1. HostTypes
  <2>1. IsFiniteSet({}) /\ Cardinality({}) = 0
    BY FS_EmptySet
  <2>2. todo \in [Processes -> Plans] /\ tried \in [Processes -> SUBSET NetworkIds]
    BY DEF Init, Plans
  <2>3. \A p \in Processes : IsFiniteSet(tried[p]) /\ Cardinality(tried[p]) <= MaxRetries
    BY <2>1, StarConstants DEF Init
  <2>4. exists \in [NetworkIds -> SUBSET Resources] /\ failed \in [Processes -> BOOLEAN]
    BY DEF Init
  <2>5. crashes \in 0..MaxCrashes
    BY StarConstants DEF Init
  <2> QED
    BY Zenon, <2>2, <2>3, <2>5 DEF Init, HostTypes, TypeOK
<1>2. Serial
  BY StarConstants DEF Init, Serial, Processes, Held
<1> QED
  BY <1>1, <1>2 DEF Init, HostIInv, Resting, Whole, NoOrphan

\* A step of the one process that runs, to the label l.
LEMMA StepKeeps ==
  ASSUME HostIInv, NEW p \in Processes, \A q \in Processes \ {p} : pc[q] = "idle",
         NEW l, pc' = [pc EXCEPT ![p] = l],
         HostTypes', Serial', \A q \in Processes \ {p} : failed'[q] = failed[q],
         failed'[p] => l \in {"undo", "cleanup"} /\ "cleanup" \in faults',
         l # "idle" => Doing(p)' /\ (Clean' => Building(p)') /\ (Faithful' => Agreeing(p)'),
         l = "idle" => Resting',
         Whole', NoOrphan'
  PROVE  HostIInv'
<1>1. \A q \in Processes \ {p} : pc'[q] = "idle"
  BY DEF TypeOK
<1>2. pc'[p] = l
  BY DEF HostTypes, TypeOK
<1>3. Quiet' => Resting'
  BY <1>2 DEF Quiet
<1>4. ASSUME NEW q \in Processes, failed'[q]
      PROVE pc'[q] \in {"undo", "cleanup"} /\ "cleanup" \in faults'
  BY <1>2, <1>4 DEF HostIInv
<1>5. ASSUME NEW q \in Processes, pc'[q] # "idle"
      PROVE  Doing(q)' /\ (Clean' => Building(q)') /\ (Faithful' => Agreeing(q)')
  <2>1. q = p
    BY <1>5
  <2> QED  BY <1>2, <1>5
<1> QED  BY <1>3, <1>4, <1>5 DEF HostIInv

\* What is known of a running process, and that it runs alone.
LEMMA Running ==
  ASSUME HostIInv, NEW p \in Processes, pc[p] # "idle"
  PROVE  /\ Doing(p) /\ (Clean => Building(p)) /\ (Faithful => Agreeing(p))
         /\ \A q \in Processes \ {p} : pc[q] = "idle"
         /\ Whole /\ NoOrphan
  BY Alone DEF HostIInv

\* Faults are not forgotten while the daemon runs.
LEMMA FaultsGrow ==
  ASSUME faults \subseteq faults'
  PROVE  (Clean' => Clean) /\ (Faithful' => Faithful)
  BY DEF Clean, Faithful

\* The steps of the operations, each in the order of the code.
LEMMA PickStep ==
  ASSUME HostIInv, NEW p \in Processes, PickId(p)
  PROVE  HostIInv'
<1> USE DEF Held, Starting, Stopping
<1>1. pc[p] = "pick" /\ ~failed[p]
  BY DEF PickId, HostIInv
<1>2. /\ Doing(p) /\ (Faithful => Agreeing(p))
      /\ \A q \in Processes \ {p} : pc[q] = "idle"
      /\ Whole /\ NoOrphan
  BY <1>1, Running
<1>3. PICK l \in {"start", "err"} : pc' = [pc EXCEPT ![p] = l]
  BY DEF PickId
<1>4. HostTypes'
  <2>1. /\ tried' \in [Processes -> SUBSET NetworkIds] /\ net' \in [Processes -> NetworkIds \cup {NoNetwork}]
        /\ \A q \in Processes : IsFiniteSet(tried'[q]) /\ Cardinality(tried'[q]) <= MaxRetries
    <3>1. CASE UNCHANGED <<net, tried>>
      BY <3>1 DEF HostIInv, HostTypes, TypeOK
    <3>2. CASE RetriesLeft(p) /\ \E n \in NetworkIds \ (known \cup tried[p]) :
             /\ net' = [net EXCEPT ![p] = n]
             /\ tried' = [tried EXCEPT ![p] = @ \cup {n}]
      <4>1. PICK n \in NetworkIds \ (known \cup tried[p]) :
             /\ net' = [net EXCEPT ![p] = n]
             /\ tried' = [tried EXCEPT ![p] = tried[p] \cup {n}]
        BY Zenon, <3>2
      <4>2. /\ IsFiniteSet(tried[p] \cup {n}) /\ Cardinality(tried[p] \cup {n}) = Cardinality(tried[p]) + 1
            /\ Cardinality(tried[p]) \in Nat
        BY FS_AddElement, FS_CardinalityType DEF HostIInv, HostTypes
      <4>3. Cardinality(tried[p] \cup {n}) <= MaxRetries
        BY <3>2, <4>2, StarConstants DEF RetriesLeft
      <4> QED  BY <4>1, <4>2, <4>3 DEF HostIInv, HostTypes, TypeOK
    <3> QED  BY <3>1, <3>2 DEF PickId
  <2> QED  BY <2>1 DEF PickId, HostTypes, TypeOK, HostIInv
<1>5. Serial'
  BY DEF PickId, Serial, HostIInv, Processes, HostTypes, TypeOK
<1>6. Doing(p)' /\ (Clean' => Building(p)') /\ (Faithful' => Agreeing(p)')
  <2>1. Doing(p)' /\ Building(p)'
    BY SMTT(20) DEF PickId, Doing, Building, HostIInv, HostTypes, TypeOK
  <2>2. Faithful' => Agreeing(p)'
    BY DEF PickId, Doing, Agreeing, Kept, Faithful, HostIInv, HostTypes, TypeOK
  <2> QED  BY SMTT(20), <2>1, <2>2
<1>7. Whole' /\ NoOrphan'
  BY DEF PickId, Whole, NoOrphan, Clean, HostIInv, HostTypes, TypeOK
<1>8. UNCHANGED failed
  BY DEF PickId
<1> QED  BY Zenon, <1>1, <1>2, <1>3, <1>4, <1>5, <1>6, <1>7, <1>8, StepKeeps

\* start_host claims the transition.
LEMMA StartStep ==
  ASSUME HostIInv, NEW p \in Processes, StartHost(p)
  PROVE  HostIInv'
<1> USE DEF Held, Starting, Stopping
<1>1. pc[p] = "start" /\ Doing(p) /\ (Clean => Building(p)) /\ (Faithful => Agreeing(p)) /\ ~failed[p]
  BY DEF StartHost, HostIInv
<1>2. \A q \in Processes \ {p} : pc[q] = "idle"
  BY <1>1, Alone
<1>3. PICK l \in {"err", "pick", "survey", "save", "ok"} : pc' = [pc EXCEPT ![p] = l]
  BY DEF StartHost, StartFails, AfterStart
<1>4. HostTypes'
  BY <1>3 DEF StartHost, StartFails, HostTypes, TypeOK, HostIInv
<1>5. Serial'
  BY SMTT(20), StarConstants DEF StartHost, StartFails, Serial, HostIInv, Processes, AfterStart, HostTypes,
     TypeOK
<1>6. Doing(p)'
  BY DEF StartHost, StartFails, AfterStart, Doing, HostIInv, HostTypes, TypeOK
<1>7. Clean' => Building(p)'
  BY <1>2 DEF StartHost, StartFails, AfterStart, Building, Clean, NoOrphan, HostIInv, HostTypes,
     TypeOK
<1>8. Faithful' => Agreeing(p)'
  <2> SUFFICES ASSUME Faithful' PROVE Agreeing(p)'
    OBVIOUS
  <2>1. Faithful
    BY DEF StartHost, StartFails, Faithful
  <2>2. active = NoNetwork /\ durable = Kept(p) /\ net[p] \in NetworkIds
    BY <1>1, <2>1 DEF Agreeing, Doing
  <2>3. pc'[p] = l /\ UNCHANGED <<active, durable, net, op>>
    BY <1>3 DEF HostIInv, HostTypes, TypeOK, StartHost
  <2>4. CASE l = "err"
    <3>1. op[p] = "create"
      BY <1>3, <2>2, <2>4, StarConstants DEF StartHost, StartFails, NotStarted, Faithful,
         AfterStart, HostIInv, HostTypes, TypeOK
    <3> QED BY <3>1, <2>2, <2>3 DEF Agreeing, Kept
  <2>5. CASE l # "err"
    <3>1. l = "survey"
      BY <2>2, <2>3, <2>5, StarConstants DEF StartHost, StartFails, HostIInv, HostTypes, TypeOK
    <3> QED BY <3>1, <2>2, <2>3 DEF Agreeing, Kept
  <2> QED BY <2>4, <2>5
<1>9. Whole'
  BY DEF StartHost, StartFails, Whole, HostIInv, HostTypes, TypeOK
<1>10. NoOrphan'
  BY DEF StartHost, StartFails, NoOrphan, Clean, HostIInv, HostTypes, TypeOK
<1>11. faults \subseteq faults' /\ UNCHANGED failed
  BY DEF StartHost, StartFails
<1> QED BY Zenon, <1>1, <1>2, <1>3, <1>4, <1>5, <1>6, <1>7, <1>8, <1>9, <1>10, <1>11, StepKeeps

\* Backends, prefixes and adapter are looked at.
LEMMA SurveyStep ==
  ASSUME HostIInv, NEW p \in Processes, Survey(p)
  PROVE  HostIInv'
<1> USE DEF Held, Starting, Stopping
<1> DEFINE n == net[p]
<1>1. pc[p] = "survey" /\ ~failed[p] /\ HostTypes
  BY DEF Survey, HostIInv
<1>2. /\ Doing(p) /\ (Clean => Building(p)) /\ (Faithful => Agreeing(p))
      /\ \A q \in Processes \ {p} : pc[q] = "idle"
      /\ Whole /\ NoOrphan
  BY <1>1, Running
<1>3. PICK l \in {"bridge", "pick", "err"} :
         /\ pc' = [pc EXCEPT ![p] = l]
         /\ \/ l = "bridge" /\ UNCHANGED <<transition, faults>>
            \/ /\ l = IF op[p] = "create" THEN l ELSE "err"
               /\ l # "bridge" /\ transition' = Free /\ faults' = faults \cup NotStarted(p)
         /\ UNCHANGED <<durable, known, status, creating, mutation, op, net, tried, failed, up, crashes, active, exists, todo>>
  BY DEF Survey, StartFails
<1>4. HostTypes'
  BY SMTT(20), <1>1, <1>3 DEF HostTypes, TypeOK
<1>5. Serial'
  BY SMTT(20), <1>1, <1>3, StarConstants DEF HostIInv, Serial, Processes, HostTypes, TypeOK
<1>6. Doing(p)'
  BY SMTT(20), <1>1, <1>2, <1>3 DEF Doing
<1>7. Clean' => Building(p)'
  BY <1>1, <1>2, <1>3, FaultsGrow DEF Building
<1>8. Faithful' => Agreeing(p)'
  BY SMTT(20), <1>1, <1>2, <1>3 DEF Agreeing, Kept, HostTypes, TypeOK, NotStarted, Faithful
<1>9. Whole'
  BY <1>1, <1>2, <1>3 DEF Whole
<1>10. NoOrphan'
  BY <1>1, <1>2, <1>3, FaultsGrow DEF NoOrphan, Building
<1> QED  BY Zenon, <1>1, <1>2, <1>3, <1>4, <1>5, <1>6, <1>7, <1>8, <1>9, <1>10, StepKeeps

\* ensure_bridge.
LEMMA BridgeStep ==
  ASSUME HostIInv, NEW p \in Processes, EnsureBridge(p)
  PROVE  HostIInv'
<1> USE DEF Held, Starting, Stopping
<1> DEFINE n == net[p]
<1>1. pc[p] = "bridge" /\ ~failed[p] /\ HostTypes
  BY Zenon DEF EnsureBridge, HostIInv
<1>2. /\ Doing(p) /\ (Clean => Building(p)) /\ (Faithful => Agreeing(p))
      /\ \A q \in Processes \ {p} : pc[q] = "idle"
      /\ Whole /\ NoOrphan
  BY SMTT(20), <1>1, Running
<1>3. PICK l \in {"address", "err"}, X \in SUBSET Resources :
         /\ pc' = [pc EXCEPT ![p] = l]
         /\ exists' = [exists EXCEPT ![n] = X]
         /\ IF l = "address" THEN X = exists[n] \cup {"bridge"} /\ UNCHANGED <<transition, faults>>
            ELSE /\ transition' = Free /\ NotStarted(p) \subseteq faults' /\ faults \subseteq faults'
                 /\ X = exists[n] \/ (X = exists[n] \cup {"bridge"} /\ "bridge" \in faults')
         /\ UNCHANGED <<durable, known, status, creating, mutation, op, net, tried, failed, up, crashes, active, todo>>
  BY SMTT(20), <1>1, <1>2 DEF EnsureBridge, Doing, HostTypes, TypeOK, StartFails, Resources
<1>4. HostTypes'
  BY SMTT(20), <1>1, <1>2, <1>3 DEF Doing, HostTypes, TypeOK
<1>5. Serial'
  BY SMTT(20), <1>1, <1>3, StarConstants DEF HostIInv, Serial, Processes, HostTypes, TypeOK
<1>6. Doing(p)'
  BY SMTT(20), <1>1, <1>2, <1>3 DEF Doing, HostTypes, TypeOK
<1>7. Clean' => Building(p)'
  BY SMTT(20), <1>1, <1>2, <1>3, FaultsGrow DEF Building, HostTypes, TypeOK
<1>8. Faithful' => Agreeing(p)'
  BY SMTT(20), <1>1, <1>2, <1>3 DEF Agreeing, Kept, HostTypes, TypeOK, NotStarted, Faithful
<1>9. Whole'
  BY SMTT(20), <1>1, <1>2, <1>3 DEF Whole, Doing
<1>10. NoOrphan'
  BY <1>1, <1>2, <1>3 DEF NoOrphan, Building, Clean
<1> QED  BY Zenon, <1>1, <1>2, <1>3, <1>4, <1>5, <1>6, <1>7, <1>8, <1>9, <1>10, StepKeeps

\* ensure_address, or rollback of the profile.
LEMMA AddressStep ==
  ASSUME HostIInv, NEW p \in Processes, EnsureAddress(p)
  PROVE  HostIInv'
<1> USE DEF Held, Starting, Stopping
<1> DEFINE n == net[p]
<1>1. pc[p] = "address" /\ ~failed[p] /\ HostTypes
  BY DEF EnsureAddress, HostIInv
<1>2. /\ Doing(p) /\ (Clean => Building(p)) /\ (Faithful => Agreeing(p))
      /\ \A q \in Processes \ {p} : pc[q] = "idle"
      /\ Whole /\ NoOrphan
  BY SMTT(20), <1>1, Running
<1>3. PICK l \in {"nap", "undo"}, X \in SUBSET Resources :
         /\ pc' = [pc EXCEPT ![p] = l]
         /\ exists' = [exists EXCEPT ![n] = X] /\ X \in {exists[n], exists[n] \cup {"address"}}
         /\ l = "nap" => X = exists[n] \cup {"address"} /\ UNCHANGED todo
         /\ l = "undo" => todo' = [todo EXCEPT ![p] = AddressRollback]
         /\ UNCHANGED <<durable, known, status, creating, mutation, op, net, tried, failed, up, crashes, active, transition, faults>>
  BY SMTT(20), <1>1, <1>2 DEF EnsureAddress, Doing, HostTypes, TypeOK, EnterRollback, Resources
<1>4. HostTypes'
  BY SMTT(20), <1>1, <1>2, <1>3, PlanValues DEF Doing, HostTypes, TypeOK
<1>5. Serial'
  BY SMTT(20), <1>1, <1>3 DEF HostIInv, Serial
<1>6. Doing(p)'
  BY SMTT(20), <1>1, <1>2, <1>3 DEF Doing, HostTypes, TypeOK
<1>7. Clean' => Building(p)'
  BY <1>1, <1>2, <1>3, PlanValues, FaultsGrow DEF Building, HostTypes, TypeOK
<1>8. Faithful' => Agreeing(p)'
  BY ZenonT(30), <1>1, <1>2, <1>3, FaultsGrow DEF Agreeing, Kept, HostTypes, TypeOK
<1>9. Whole'
  BY SMTT(20), <1>1, <1>2, <1>3 DEF Whole, Doing
<1>10. NoOrphan'
  BY <1>1, <1>2, <1>3, FaultsGrow DEF NoOrphan
<1> QED  BY Zenon, <1>1, <1>2, <1>3, <1>4, <1>5, <1>6, <1>7, <1>8, <1>9, <1>10, StepKeeps

\* start_nap, or rollback.
LEMMA NapStep ==
  ASSUME HostIInv, NEW p \in Processes, StartNap(p)
  PROVE  HostIInv'
<1> USE DEF Held, Starting, Stopping
<1> DEFINE n == net[p]
<1>1. pc[p] = "nap" /\ ~failed[p] /\ HostTypes
  BY Zenon DEF StartNap, HostIInv
<1>2. /\ Doing(p) /\ (Clean => Building(p)) /\ (Faithful => Agreeing(p))
      /\ \A q \in Processes \ {p} : pc[q] = "idle"
      /\ Whole /\ NoOrphan
  BY SMTT(20), <1>1, Running
<1>3. PICK l \in {"advertise", "undo"}, X \in SUBSET Resources :
         /\ pc' = [pc EXCEPT ![p] = l]
         /\ exists' = [exists EXCEPT ![n] = X]
         /\ l = "advertise" => X = exists[n] \cup {"nap"} /\ UNCHANGED todo
         /\ l = "undo" => X = exists[n] /\ todo' = [todo EXCEPT ![p] = SetupRollback]
         /\ UNCHANGED <<durable, known, status, creating, mutation, op, net, tried, failed, up, crashes, active, transition, faults>>
  BY SMTT(20), <1>1, <1>2 DEF StartNap, Doing, HostTypes, TypeOK, EnterRollback, Resources
<1>4. HostTypes'
  BY SMTT(20), <1>1, <1>2, <1>3, PlanValues DEF Doing, HostTypes, TypeOK
<1>5. Serial'
  BY SMTT(20), <1>1, <1>3 DEF HostIInv, Serial
<1>6. Doing(p)'
  BY SMTT(20), <1>1, <1>2, <1>3 DEF Doing, HostTypes, TypeOK
<1>7. Clean' => Building(p)'
  BY SMTT(20), <1>1, <1>2, <1>3, PlanValues, FaultsGrow DEF Building, HostTypes, TypeOK
<1>8. Faithful' => Agreeing(p)'
  BY SMTT(20), <1>1, <1>2, <1>3, FaultsGrow DEF Agreeing, Kept
<1>9. Whole'
  BY SMTT(20), <1>1, <1>2, <1>3 DEF Whole, Doing
<1>10. NoOrphan'
  BY <1>1, <1>2, <1>3, FaultsGrow DEF NoOrphan
<1> QED  BY Zenon, <1>1, <1>2, <1>3, <1>4, <1>5, <1>6, <1>7, <1>8, <1>9, <1>10, StepKeeps

\* The advertisement, after which the host is in the slot.
LEMMA AdvertiseStep ==
  ASSUME HostIInv, NEW p \in Processes, Advertise(p)
  PROVE  HostIInv'
<1> USE DEF Held, Starting, Stopping
<1> DEFINE n == net[p]
<1>1. pc[p] = "advertise" /\ ~failed[p] /\ HostTypes
  BY DEF Advertise, HostIInv
<1>2. /\ Doing(p) /\ (Clean => Building(p)) /\ (Faithful => Agreeing(p))
      /\ \A q \in Processes \ {p} : pc[q] = "idle"
      /\ Whole /\ NoOrphan
  BY SMTT(20), <1>1, Running
<1>3. PICK l \in {"save", "err", "ok", "undo"}, X \in SUBSET Resources :
         /\ pc' = [pc EXCEPT ![p] = l]
         /\ exists' = [exists EXCEPT ![n] = X]
         /\ IF l = "undo"
            THEN /\ X = exists[n] /\ todo' = [todo EXCEPT ![p] = SetupRollback]
                 /\ UNCHANGED <<active, transition>>
            ELSE /\ X = exists[n] \cup {"advertisement"} /\ UNCHANGED todo
                 /\ active' = n /\ transition' = Free /\ l = AfterStart(p)
         /\ UNCHANGED <<durable, known, status, creating, mutation, op, net, tried, failed, up, crashes, faults>>
  BY SMTT(20), <1>1, <1>2 DEF Advertise, Doing, HostTypes, TypeOK, EnterRollback, Resources, Install, AfterStart
<1>4. HostTypes'
  BY SMTT(20), <1>1, <1>2, <1>3, PlanValues DEF Doing, HostTypes, TypeOK
<1>5. Serial'
  BY SMTT(20), <1>1, <1>3, StarConstants DEF HostIInv, Serial, Processes, HostTypes, TypeOK
<1>6. Doing(p)'
  BY SMTT(20), <1>1, <1>2, <1>3 DEF Doing, AfterStart, HostTypes, TypeOK
<1>7. Clean' => Building(p)'
  BY SMTT(20), <1>1, <1>2, <1>3, PlanValues, FaultsGrow DEF Building, HostTypes, TypeOK
<1>8. Faithful' => Agreeing(p)'
  BY SMTT(20), <1>1, <1>2, <1>3, FaultsGrow DEF Agreeing, Kept, AfterStart, HostTypes, TypeOK
<1>9. Whole'
  BY SMTT(20), <1>1, <1>2, <1>3 DEF Whole, Doing, HostTypes, TypeOK, Resources
<1>10. NoOrphan'
  BY <1>1, <1>2, <1>3, FaultsGrow, StarConstants DEF NoOrphan, Doing
<1> QED  BY ZenonT(30), <1>1, <1>2, <1>3, <1>4, <1>5, <1>6, <1>7, <1>8, <1>9, <1>10, StepKeeps

\* stop_host claims the transition of its own host.
LEMMA StopStep ==
  ASSUME HostIInv, NEW p \in Processes, StopHost(p)
  PROVE  HostIInv'
<1> USE DEF Held, Starting, Stopping
<1> DEFINE n == net[p]
<1>1. pc[p] = "stop" /\ ~failed[p] /\ HostTypes
  BY Zenon DEF StopHost, HostIInv
<1>2. /\ Doing(p) /\ (Clean => Building(p)) /\ (Faithful => Agreeing(p))
      /\ \A q \in Processes \ {p} : pc[q] = "idle"
      /\ Whole /\ NoOrphan
  BY <1>1, Running
<1>3. PICK l \in {"cleanup", "err"} :
         /\ pc' = [pc EXCEPT ![p] = l]
         /\ IF l = "cleanup"
            THEN /\ Claimable /\ active = n /\ transition' = p
                 /\ todo' = [todo EXCEPT ![p] = TearDown] /\ UNCHANGED faults
            ELSE /\ UNCHANGED <<transition, todo>> /\ faults \subseteq faults'
                 /\ op[p] = "create" => "rollback" \in faults'
         /\ UNCHANGED <<durable, known, status, creating, mutation, op, net, tried, failed, up, crashes, active, exists>>
  BY SMTT(20) DEF StopHost
<1>4. HostTypes'
  BY SMTT(20), <1>1, <1>3, PlanValues DEF HostTypes, TypeOK
<1>5. Serial'
  BY SMTT(20), <1>1, <1>3, StarConstants DEF HostIInv, Serial, Processes, HostTypes, TypeOK
<1>6. Doing(p)'
  BY <1>1, <1>2, <1>3, PlanValues DEF Doing, HostTypes, TypeOK
<1>7. Clean' => Building(p)'
  BY ZenonT(30), <1>1, <1>3 DEF Building, HostTypes, TypeOK
<1>8. Faithful' => Agreeing(p)'
  BY <1>1, <1>2, <1>3, FaultsGrow DEF Agreeing, Kept, Doing, HostTypes, TypeOK, Faithful
<1>9. Whole'
  BY Zenon, <1>1, <1>2, <1>3 DEF Whole
<1>10. NoOrphan'
  BY Zenon, <1>1, <1>2, <1>3, FaultsGrow DEF NoOrphan
<1> QED  BY Zenon, <1>1, <1>2, <1>3, <1>4, <1>5, <1>6, <1>7, <1>8, <1>9, <1>10, StepKeeps

\* store.save in its three outcomes.
LEMMA SaveStep ==
  ASSUME HostIInv, NEW p \in Processes, Save(p)
  PROVE  HostIInv'
<1> USE DEF Held, Starting, Stopping
<1> DEFINE n == net[p]
<1>1. pc[p] = "save" /\ ~failed[p] /\ HostTypes
  BY Zenon DEF Save, HostIInv
<1>2. /\ Doing(p) /\ (Clean => Building(p)) /\ (Faithful => Agreeing(p))
      /\ \A q \in Processes \ {p} : pc[q] = "idle"
      /\ Whole /\ NoOrphan
  BY SMTT(20), <1>1, Running
<1>3. PICK l \in {"ok", "stop", "start"} :
         /\ pc' = [pc EXCEPT ![p] = l]
         /\ IF l = "ok" THEN durable' = (IF op[p] = "create" THEN n ELSE NoNetwork) /\ UNCHANGED faults
            ELSE /\ l = IF op[p] = "create" THEN "stop" ELSE "start"
                 /\ faults \subseteq faults' /\ (UNCHANGED durable \/ "torn" \in faults')
         /\ durable' \in {durable, n, NoNetwork}
         /\ known' \in {known, known \cup {n}} /\ (UNCHANGED durable \/ known' = known \cup {n})
         /\ UNCHANGED <<status, active, exists, transition, creating, mutation, op, net, tried, todo,
                        failed, up, crashes>>
  BY SMTT(20) DEF Save
<1>4. HostTypes'
  BY SMTT(20), <1>1, <1>2, <1>3 DEF Doing, HostTypes, TypeOK
<1>5. Serial'
  BY <1>1, <1>3 DEF HostIInv, Serial
<1>6. Doing(p)'
  BY Zenon, <1>1, <1>2, <1>3 DEF Doing, HostTypes, TypeOK
<1>7. Clean' => Building(p)'
  BY ZenonT(30), <1>1, <1>3 DEF Building, HostTypes, TypeOK
<1>8. Faithful' => Agreeing(p)'
  BY <1>1, <1>2, <1>3 DEF Agreeing, Kept, Doing, HostTypes, TypeOK, Faithful
<1>9. Whole'
  BY Zenon, <1>1, <1>2, <1>3 DEF Whole
<1>10. NoOrphan'
  BY Zenon, <1>1, <1>2, <1>3, FaultsGrow DEF NoOrphan
<1> QED  BY Zenon, <1>1, <1>2, <1>3, <1>4, <1>5, <1>6, <1>7, <1>8, <1>9, <1>10, StepKeeps

\* One step of rollback_setup or cleanup_active_host.
LEMMA CleaningStep ==
  ASSUME HostIInv, NEW p \in Processes, CleanStep(p)
  PROVE  HostIInv'
<1> USE DEF Held, Starting, Stopping
<1> DEFINE n == net[p]
<1>1. pc[p] \in {"undo", "cleanup"} /\ todo[p] # <<>> /\ HostTypes /\ (failed[p] => "cleanup" \in faults)
  BY Zenon DEF CleanStep, HostIInv
<1>2. /\ Doing(p) /\ (Clean => Building(p)) /\ (Faithful => Agreeing(p))
      /\ \A q \in Processes \ {p} : pc[q] = "idle"
      /\ Whole /\ NoOrphan
  BY <1>1, Running
<1>3. PICK l \in {"undo", "cleanup"}, X \in SUBSET Resources :
         /\ pc' = [pc EXCEPT ![p] = l]
         /\ l = pc[p]
         /\ exists' = [exists EXCEPT ![n] = X]
         /\ todo' = [todo EXCEPT ![p] = Tail(todo[p])]
         /\ \/ X = exists[n] \ Removed(Head(todo[p])) /\ UNCHANGED <<failed, faults>>
            \/ /\ X \subseteq exists[n]
               /\ failed' = [failed EXCEPT ![p] = TRUE] /\ faults' = faults \cup {"cleanup"}
         /\ UNCHANGED <<durable, known, status, creating, mutation, op, net, tried, up, crashes, active, transition>>
  <2>1. /\ n \in NetworkIds /\ exists[n] \subseteq Resources
        /\ exists = [exists EXCEPT ![n] = exists[n]] /\ pc = [pc EXCEPT ![p] = pc[p]]
    BY <1>1, <1>2 DEF Doing, HostTypes, TypeOK
  <2>2. /\ pc' = [pc EXCEPT ![p] = pc[p]] /\ todo' = [todo EXCEPT ![p] = Tail(todo[p])]
        /\ UNCHANGED <<durable, known, status, creating, mutation, op, net, tried, up, crashes, active, transition>>
    BY <2>1 DEF CleanStep
  <2>3. CASE /\ exists' = [exists EXCEPT ![n] = exists[n] \ Removed(Head(todo[p]))]
             /\ UNCHANGED <<failed, faults>>
    <3>1. exists[n] \ Removed(Head(todo[p])) \in SUBSET Resources
      BY <2>1
    <3> QED  BY Zenon, <1>1, <2>2, <2>3, <3>1
  <2>4. CASE /\ exists' \in {exists, [exists EXCEPT ![n] = exists[n] \ Removed(Head(todo[p]))]}
             /\ failed' = [failed EXCEPT ![p] = TRUE] /\ faults' = faults \cup {"cleanup"}
    <3>1. CASE exists' = exists
      BY Zenon, <1>1, <2>1, <2>2, <2>4, <3>1
    <3>2. CASE exists' = [exists EXCEPT ![n] = exists[n] \ Removed(Head(todo[p]))]
      BY Zenon, <1>1, <2>1, <2>2, <2>4, <3>2
    <3> QED  BY Zenon, <2>4, <3>1, <3>2
  <2> QED  BY ZenonT(30), <2>3, <2>4 DEF CleanStep
<1>4. HostTypes'
  BY Zenon, <1>1, <1>2, <1>3, PlansShrink DEF HostTypes, TypeOK
<1>5. Serial'
  BY Zenon, <1>3 DEF HostIInv, Serial, HostTypes, TypeOK
<1>6. Doing(p)'
  BY Zenon, <1>1, <1>2, <1>3, PlansShrink DEF Doing, HostTypes, TypeOK
<1>7. Clean' => Building(p)'
  BY ZenonT(30), <1>1, <1>2, <1>3, PlansShrink DEF Building, Doing, HostTypes, TypeOK, Clean
<1>8. Faithful' => Agreeing(p)'
  BY SMTT(20), <1>2, <1>3, FaultsGrow DEF Agreeing, Kept
<1>9. Whole'
  BY <1>2, <1>3 DEF Whole, Doing
<1>10. NoOrphan'
  BY <1>2, <1>3, FaultsGrow DEF NoOrphan
<1> QED  BY Zenon, <1>1, <1>2, <1>3, <1>4, <1>5, <1>6, <1>7, <1>8, <1>9, <1>10, StepKeeps DEF HostTypes, TypeOK

\* rollback_setup has ended.
LEMMA RollbackStep ==
  ASSUME HostIInv, NEW p \in Processes, EndRollback(p)
  PROVE  HostIInv'
<1> USE DEF Held, Starting, Stopping
<1> DEFINE n == net[p]
<1>1. pc[p] = "undo" /\ todo[p] = <<>> /\ HostTypes
  BY Zenon DEF EndRollback, HostIInv
<1>2. /\ Doing(p) /\ (Clean => Building(p)) /\ (Faithful => Agreeing(p))
      /\ \A q \in Processes \ {p} : pc[q] = "idle"
      /\ Whole /\ NoOrphan
  BY <1>1, Running
<1>3. PICK l \in {"err"} :
         /\ pc' = [pc EXCEPT ![p] = l]
         /\ transition' = Free /\ faults' = faults \cup NotStarted(p)
         /\ failed' = [failed EXCEPT ![p] = FALSE]
         /\ UNCHANGED <<durable, known, status, creating, mutation, op, net, tried, up, crashes, active, exists, todo>>
  BY DEF EndRollback, StartFails
<1>4. HostTypes'
  BY SMTT(20), <1>1, <1>3 DEF HostTypes, TypeOK
<1>5. Serial'
  BY Zenon, <1>1, <1>3, StarConstants DEF HostIInv, Serial, Processes, HostTypes, TypeOK
<1>6. Doing(p)'
  BY Zenon, <1>1, <1>2, <1>3 DEF Doing, HostTypes, TypeOK
<1>7. Clean' => Building(p)'
  BY Zenon, <1>1, <1>3 DEF Building, HostTypes, TypeOK
<1>8. Faithful' => Agreeing(p)'
  BY Zenon, <1>1, <1>2, <1>3 DEF Agreeing, Kept, HostTypes, TypeOK, NotStarted, Faithful
<1>9. Whole'
  BY ZenonT(30), <1>1, <1>2, <1>3 DEF Whole
<1>10. NoOrphan'
  <2>1. Clean' => Clean /\ exists[n] = {}
    BY ZenonT(30), <1>1, <1>2, <1>3, FaultsGrow, PlanValues DEF Building
  <2>2. \A m \in NetworkIds \ {n} : Clean /\ exists[m] # {} => m = active
    BY <1>2 DEF NoOrphan
  <2> QED  BY <1>3, <2>1, <2>2 DEF NoOrphan
<1> QED  BY Zenon, <1>1, <1>2, <1>3, <1>4, <1>5, <1>6, <1>7, <1>8, <1>9, <1>10, StepKeeps DEF HostTypes, TypeOK

\* cleanup_active_host has ended: the slot is cleared only if nothing failed.
LEMMA CleanupStep ==
  ASSUME HostIInv, NEW p \in Processes, EndCleanup(p)
  PROVE  HostIInv'
<1> USE DEF Held, Starting, Stopping
<1> DEFINE n == net[p]
<1>1. pc[p] = "cleanup" /\ todo[p] = <<>> /\ HostTypes /\ (failed[p] => "cleanup" \in faults)
  BY Zenon DEF EndCleanup, HostIInv
<1>2. /\ Doing(p) /\ (Clean => Building(p)) /\ (Faithful => Agreeing(p))
      /\ \A q \in Processes \ {p} : pc[q] = "idle"
      /\ Whole /\ NoOrphan
  BY <1>1, Running
<1>3. PICK l \in {"err", "save"} :
         /\ pc' = [pc EXCEPT ![p] = l]
         /\ transition' = Free /\ failed' = [failed EXCEPT ![p] = FALSE]
         /\ IF failed[p] THEN /\ l = "err" /\ active' = active /\ faults \subseteq faults'
                              /\ op[p] = "create" => "rollback" \in faults'
            ELSE active' = NoNetwork /\ l = AfterStop(p) /\ UNCHANGED faults
         /\ UNCHANGED <<durable, known, status, creating, mutation, op, net, tried, up, crashes, exists, todo>>
  BY SMTT(20) DEF EndCleanup, StopFails, AfterStop
<1>4. HostTypes'
  BY <1>1, <1>3 DEF HostTypes, TypeOK
<1>5. Serial'
  BY Zenon, <1>1, <1>3, StarConstants DEF HostIInv, Serial, Processes, HostTypes, TypeOK
<1>6. Doing(p)'
  BY ZenonT(30), <1>1, <1>2, <1>3, PlanValues, StarConstants DEF Doing, AfterStop, HostTypes, TypeOK
<1>7. Clean' => Building(p)'
  BY SMTT(20), <1>2, <1>3, FaultsGrow DEF Building
<1>8. Faithful' => Agreeing(p)'
  BY <1>1, <1>2, <1>3 DEF Agreeing, Kept, AfterStop, HostTypes, TypeOK, Faithful
<1>9. Whole'
  BY Zenon, <1>1, <1>3 DEF Whole
<1>10. NoOrphan'
  <2>1. Clean' => Clean /\ ~failed[p] /\ exists[n] = {}
    BY <1>1, <1>2, <1>3, PlanValues DEF Doing, Clean
  <2>2. \A m \in NetworkIds \ {n} : Clean /\ exists[m] # {} => m = active
    BY SMTT(20), <1>2 DEF NoOrphan
  <2>3. active = n
    BY SMTT(20), <1>1, <1>2 DEF Doing
  <2> QED  BY ZenonT(30), <1>3, <2>1, <2>2, <2>3 DEF NoOrphan
<1>11. failed'[p] = FALSE /\ \A q \in Processes \ {p} : failed'[q] = failed[q]
  BY <1>1, <1>3 DEF HostTypes, TypeOK
<1> QED  BY Zenon, <1>2, <1>3, <1>4, <1>5, <1>6, <1>7, <1>8, <1>9, <1>10, StepKeeps, <1>11

\* An operation returns Ok.
LEMMA OkStep ==
  ASSUME HostIInv, NEW p \in Processes, ReturnOk(p)
  PROVE  HostIInv'
<1> USE DEF Held, Starting, Stopping
<1>1. pc[p] = "ok" /\ ~failed[p] /\ HostTypes /\ Serial
  BY SMTT(20) DEF ReturnOk, HostIInv
<1>2. /\ Doing(p) /\ (Clean => Building(p)) /\ (Faithful => Agreeing(p))
      /\ \A q \in Processes \ {p} : pc[q] = "idle"
      /\ Whole /\ NoOrphan
  BY <1>1, Running
<1>3. PICK l \in {"idle", "ack"} :
        /\ pc' = [pc EXCEPT ![p] = l] /\ l = IF p = Boot THEN "idle" ELSE "ack"
        /\ creating' = Free /\ up' = (up \/ p = Boot)
        /\ UNCHANGED <<durable, known, status, active, exists, transition, mutation, op, net, tried,
                       todo, failed, crashes, faults>>
  BY ZenonT(30) DEF ReturnOk
<1>4. HostTypes'
  BY SMTT(20), <1>1, <1>3 DEF HostTypes, TypeOK
<1>5. Serial'
  BY SMTT(20), <1>1, <1>3, StarConstants DEF Serial, HostTypes, TypeOK
<1>6. Doing(p)' /\ Building(p)' /\ (Faithful' => Agreeing(p)')
  BY <1>1, <1>2, <1>3 DEF Doing, Building, Agreeing, Faithful
<1>7. l = "idle" => Resting'
  BY Zenon, <1>1, <1>2, <1>3 DEF Resting, Faithful, Agreeing
<1>8. Whole' /\ NoOrphan'
  BY Zenon, <1>1, <1>2, <1>3 DEF Whole, NoOrphan, Clean
<1> QED  BY Zenon, <1>1, <1>2, <1>3, <1>4, <1>5, <1>6, <1>7, <1>8, StepKeeps

\* The locals of a call that has ended.
LEMMA ForgetTypes ==
  ASSUME HostTypes, NEW p \in Processes, Forget(p)
  PROVE  /\ op' \in [Processes -> {"create", "leave", "reconcile"}]
         /\ net' \in [Processes -> NetworkIds \cup {NoNetwork}]
         /\ tried' \in [Processes -> SUBSET NetworkIds]
         /\ \A q \in Processes : IsFiniteSet(tried'[q]) /\ Cardinality(tried'[q]) <= MaxRetries
  BY FS_EmptySet, StarConstants DEF Forget, HostTypes, TypeOK

\* A request or startup is answered.
LEMMA EndStep ==
  ASSUME HostIInv, NEW p \in Processes, Ack(p) \/ ReturnErr(p)
  PROVE  HostIInv'
<1> USE DEF Held, Starting, Stopping
<1>1. pc[p] \in {"ack", "err"} /\ ~failed[p] /\ HostTypes /\ Serial
  BY Zenon DEF Ack, ReturnErr, HostIInv
<1>2. /\ Doing(p) /\ (Faithful => Agreeing(p))
      /\ \A q \in Processes \ {p} : pc[q] = "idle"
      /\ Whole /\ NoOrphan
  BY Zenon, <1>1, Running
<1>3. /\ pc' = [pc EXCEPT ![p] = "idle"] /\ Forget(p)
      /\ mutation' = IF mutation = p THEN Free ELSE mutation
      /\ creating' \in {creating, Free}
      /\ up' = (up \/ p = Boot)
      /\ status' \in {status, net[p], NoNetwork}
      /\ UNCHANGED <<durable, known, active, exists, transition, todo, failed, crashes, faults>>
  <2>1. CASE ReturnErr(p)
    BY SMTT(20), <2>1 DEF ReturnErr
  <2>2. CASE Ack(p)
    <3>1. p # Boot /\ mutation = p
      BY Zenon, <1>1, <1>2, <2>2 DEF Ack, Doing, Serial, Processes
    <3>2. up \in BOOLEAN
      BY SMTT(20), <1>1 DEF HostTypes, TypeOK
    <3> QED  BY <2>2, <3>1, <3>2 DEF Ack
  <2> QED  BY <2>1, <2>2
<1>4. HostTypes'
  BY SMTT(20), <1>1, <1>3, ForgetTypes DEF HostTypes, TypeOK
<1>5. Serial'
  BY <1>1, <1>3, StarConstants DEF Serial, HostTypes, TypeOK
<1>6. Resting'
  <2>1. up'
    BY Zenon, <1>1, <1>3, StarConstants DEF Serial, Processes
  <2>2. Faithful' => active = durable
    BY ZenonT(30), <1>1, <1>2, <1>3 DEF Agreeing, Faithful
  <2> QED  BY <1>3, <2>1, <2>2 DEF Resting
<1>7. Whole' /\ NoOrphan'
  <2>1. \A q \in Processes : /\ pc[q] \notin Held /\ pc'[q] \notin Held
                             /\ pc[q] # "cleanup" /\ pc'[q] # "cleanup"
    BY SMTT(20), <1>1, <1>2, <1>3
  <2> QED  BY SMTT(20), <1>2, <1>3, <2>1 DEF Whole, NoOrphan, Clean
<1> QED  BY Zenon, <1>1, <1>2, <1>3, <1>4, <1>5, <1>6, <1>7, StepKeeps

\* A mutation begins when none runs.
LEMMA AtRest ==
  ASSUME HostIInv, NEW p \in Processes, pc[p] = "idle", p = Boot <=> ~up, mutation = Free
  PROVE  /\ \A q \in Processes : pc[q] = "idle" /\ ~failed[q]
         /\ HostTypes /\ Serial /\ Resting /\ Whole /\ NoOrphan
<1>1. \A q \in Processes : pc[q] = "idle"
  BY StarConstants DEF HostIInv, Serial, Processes
<1> QED  BY SMTT(20), <1>1 DEF HostIInv, Quiet

\* request(CreateNetwork).
LEMMA CreateStep ==
  ASSUME HostIInv, NEW p \in Processes, BeginCreate(p)
  PROVE  HostIInv'
<1> USE DEF Held, Starting, Stopping
<1>1. /\ \A q \in Processes : pc[q] = "idle" /\ ~failed[q]
      /\ HostTypes /\ Serial /\ Resting /\ Whole /\ NoOrphan
  BY Zenon, AtRest, StarConstants DEF BeginCreate, ClaimMutation
<1>2. PICK l \in {"pick", "err"} :
        /\ up /\ p \in Requests /\ pc' = [pc EXCEPT ![p] = l]
        /\ mutation' = p /\ creating' \in {p, creating}
        /\ op' = [op EXCEPT ![p] = "create"] /\ tried' = [tried EXCEPT ![p] = {}]
        /\ l = "pick" => durable = NoNetwork
        /\ UNCHANGED <<durable, known, status, active, exists, transition, net, todo, failed,
                       up, crashes, faults>>
  BY SMTT(20) DEF BeginCreate, ClaimMutation
<1>3. HostTypes'
  BY SMTT(20), <1>1, <1>2, FS_EmptySet, StarConstants DEF HostTypes, TypeOK
<1>4. Serial'
  BY SMTT(20), <1>1, <1>2, StarConstants DEF Serial, HostTypes, TypeOK
<1>5. Doing(p)' /\ Building(p)' /\ (Faithful' => Agreeing(p)')
  BY SMTT(20), <1>1, <1>2, StarConstants DEF Doing, Building, Agreeing, Faithful, Resting, HostTypes, TypeOK
<1>6. Whole' /\ NoOrphan'
  BY <1>1, <1>2 DEF Whole, NoOrphan, Clean
<1> QED  BY Zenon, <1>1, <1>2, <1>3, <1>4, <1>5, <1>6, StepKeeps

\* request(LeaveNetwork).
LEMMA LeaveStep ==
  ASSUME HostIInv, NEW p \in Processes, BeginLeave(p)
  PROVE  HostIInv'
<1> USE DEF Held, Starting, Stopping
<1>1. /\ \A q \in Processes : pc[q] = "idle" /\ ~failed[q]
      /\ HostTypes /\ Serial /\ Resting /\ Whole /\ NoOrphan
  BY AtRest, StarConstants DEF BeginLeave, ClaimMutation
<1>2. PICK l \in {"ok", "stop", "err"} :
        /\ up /\ p \in Requests /\ pc' = [pc EXCEPT ![p] = l]
        /\ mutation' = p /\ creating' \in {p, creating}
        /\ op' = [op EXCEPT ![p] = "leave"] /\ net' = [net EXCEPT ![p] = durable]
        /\ l = "ok" => durable = NoNetwork
        /\ l = "stop" => durable # NoNetwork
        /\ UNCHANGED <<durable, known, status, active, exists, transition, tried, todo, failed,
                       up, crashes, faults>>
  BY SMTT(20) DEF BeginLeave, ClaimMutation
<1>3. HostTypes'
  BY SMTT(20), <1>1, <1>2 DEF HostTypes, TypeOK
<1>4. Serial'
  BY SMTT(20), <1>1, <1>2, StarConstants DEF Serial, HostTypes, TypeOK
<1>5. Doing(p)' /\ Building(p)' /\ (Faithful' => Agreeing(p)')
  BY SMTT(20), <1>1, <1>2, StarConstants DEF Doing, Building, Agreeing, Kept, Faithful, Resting, HostTypes,
     TypeOK
<1>6. Whole' /\ NoOrphan'
  BY <1>1, <1>2 DEF Whole, NoOrphan, Clean
<1> QED  BY ZenonT(30), <1>1, <1>2, <1>3, <1>4, <1>5, <1>6, StepKeeps

\* reconcile_on_startup.
LEMMA ReconcileStep ==
  ASSUME HostIInv, BeginReconcile
  PROVE  HostIInv'
<1> USE DEF Held, Starting, Stopping
<1>0. Boot \in Processes
  BY DEF Processes
<1>1. /\ \A q \in Processes : pc[q] = "idle" /\ ~failed[q]
      /\ HostTypes /\ Serial /\ Resting /\ Whole /\ NoOrphan
  <2>1. mutation = Free /\ ~up /\ pc[Boot] = "idle"
    BY DEF BeginReconcile, HostIInv, Serial
  <2> QED  BY SMTT(20), <1>0, <2>1, AtRest
<1>2. PICK l \in {"ok", "start"} :
        /\ ~up /\ pc' = [pc EXCEPT ![Boot] = l] /\ creating' = Boot
        /\ op' = [op EXCEPT ![Boot] = "reconcile"] /\ net' = [net EXCEPT ![Boot] = durable]
        /\ l = IF durable = NoNetwork THEN "ok" ELSE "start"
        /\ UNCHANGED <<durable, known, status, active, exists, transition, mutation, tried, todo,
                       failed, up, crashes, faults>>
  BY ZenonT(30) DEF BeginReconcile
<1>3. HostTypes'
  BY SMTT(20), <1>1, <1>2 DEF HostTypes, TypeOK, Processes
<1>4. Serial'
  BY SMTT(20), <1>1, <1>2, StarConstants DEF Serial
<1>5. Doing(Boot)' /\ Building(Boot)' /\ (Faithful' => Agreeing(Boot)')
  BY SMTT(20), <1>0, <1>1, <1>2 DEF Doing, Building, Agreeing, Kept, Resting, HostTypes, TypeOK
<1>6. Whole' /\ NoOrphan'
  BY SMTT(20), <1>1, <1>2 DEF Whole, NoOrphan, Clean
<1> QED  BY Zenon, <1>0, <1>1, <1>2, <1>3, <1>4, <1>5, <1>6, StepKeeps

\* Observers change nothing but the transition, which no process holds then.
LEMMA ObserverStep ==
  ASSUME HostIInv, NEW o \in Observers, Observe(o) \/ EndObserve(o)
  PROVE  HostIInv'
<1>1. /\ transition' \in {o, Free} /\ transition \in {o, Free}
      /\ UNCHANGED <<durable, known, status, active, exists, todo, failed, creating, mutation,
                     pc, op, net, tried, up, crashes, faults>>
  BY SMTT(20) DEF Observe, EndObserve, Claimable
<1>2. HostTypes'
  BY <1>1 DEF HostIInv, HostTypes, TypeOK
<1>3. Serial'
  BY Zenon, <1>1, StarConstants DEF HostIInv, Serial, Processes
<1>4. ASSUME NEW p \in Processes, pc'[p] # "idle"
      PROVE  Doing(p)' /\ (Clean' => Building(p)') /\ (Faithful' => Agreeing(p)')
  <2>1. Doing(p) /\ (Clean => Building(p)) /\ (Faithful => Agreeing(p))
    BY Zenon, <1>1, <1>4 DEF HostIInv
  <2>2. Doing(p)'
    BY Zenon, <1>1, <2>1 DEF Doing
  <2>3. Clean' => Building(p)'
    BY Zenon, <1>1, <2>1 DEF Clean, Building
  <2>4. Faithful' => Agreeing(p)'
    BY Zenon, <1>1, <2>1 DEF Faithful, Agreeing, Kept
  <2> QED  BY <2>2, <2>3, <2>4
<1>5. (Quiet => Resting)' /\ Whole' /\ NoOrphan'
  BY Zenon, <1>1 DEF HostIInv, Clean, Faithful, Quiet, Resting, Whole, NoOrphan
<1> QED  BY <1>1, <1>2, <1>3, <1>4, <1>5 DEF HostIInv

\* A crash forgets the processes; what it leaves behind is a fault of its own.
LEMMA CrashStep ==
  ASSUME HostIInv, Crash
  PROVE  HostIInv'
<1>1. HostTypes'
  <2>1. IsFiniteSet({}) /\ Cardinality({}) = 0
    BY SMTT(20), FS_EmptySet
  <2>2. todo' \in [Processes -> Plans] /\ tried' \in [Processes -> SUBSET NetworkIds]
    BY SMTT(20) DEF Crash, Plans
  <2>3. \A p \in Processes : IsFiniteSet(tried'[p]) /\ Cardinality(tried'[p]) <= MaxRetries
    BY SMTT(20), <2>1, StarConstants DEF Crash
  <2>4. exists' \in [NetworkIds -> SUBSET Resources] /\ failed' \in [Processes -> BOOLEAN]
    BY SMTT(20) DEF Crash, HostIInv, HostTypes, TypeOK
  <2>5. crashes' \in 0..MaxCrashes
    BY SMTT(20), StarConstants DEF Crash, HostIInv, HostTypes, TypeOK
  <2> QED
    BY Zenon, <2>2, <2>3, <2>5 DEF Crash, HostIInv, HostTypes, TypeOK
<1>2. Serial'
  BY SMTT(20), StarConstants DEF Crash, Serial, Processes, Held
<1>3. ~Clean'
  BY DEF Crash, Clean
<1> QED
  BY Zenon, <1>1, <1>2, <1>3 DEF Crash, HostIInv, Resting, Whole, NoOrphan

\* Every step of the system.
LEMMA HostNext == HostIInv /\ [Next]_vars => HostIInv'
<1> SUFFICES ASSUME HostIInv, [Next]_vars PROVE HostIInv'
  OBVIOUS
<1>1. CASE BeginReconcile
  BY SMTT(20), <1>1, ReconcileStep
<1>2. ASSUME NEW p \in Processes, ProcessStep(p) PROVE HostIInv'
  BY <1>2, CreateStep, LeaveStep, PickStep, StartStep, SurveyStep, BridgeStep, AddressStep, NapStep,
     AdvertiseStep, CleaningStep, RollbackStep, StopStep, CleanupStep, SaveStep, OkStep, EndStep
     DEF ProcessStep
<1>3. ASSUME NEW o \in Observers, Observe(o) \/ EndObserve(o) PROVE HostIInv'
  BY <1>3, ObserverStep
<1>4. CASE Crash
  BY <1>4, CrashStep
<1>5. CASE UNCHANGED vars
  <2>1. \A p \in Processes : Doing(p) => Doing(p)'
    BY <1>5 DEF vars, Doing
  <2>2. \A p \in Processes : (Building(p) => Building(p)') /\ (Agreeing(p) => Agreeing(p)')
    BY ZenonT(30), <1>5 DEF vars, Building, Agreeing, Kept
  <2>3. HostTypes' /\ Serial' /\ (Clean' => Clean) /\ (Faithful' => Faithful)
    BY <1>5 DEF vars, HostIInv, HostTypes, TypeOK, Serial, Clean, Faithful
  <2>4. (Quiet => Resting)' /\ Whole' /\ NoOrphan'
    BY Zenon, <1>5 DEF vars, HostIInv, Clean, Faithful, Quiet, Resting, Whole, NoOrphan
  <2> QED  BY ZenonT(30), <1>5, <2>1, <2>2, <2>3, <2>4 DEF vars, HostIInv
<1> QED
  BY <1>1, <1>2, <1>3, <1>4, <1>5 DEF Next

\* What the invariant says to an observer and to a caller.
LEMMA HostIInvSays ==
  HostIInv => /\ ObservedHostIsWhole /\ NoOrphanedRuntime
              /\ MembershipMatchesHost /\ AcknowledgedIsDone
<1> SUFFICES ASSUME HostIInv
    PROVE  ObservedHostIsWhole /\ NoOrphanedRuntime /\ MembershipMatchesHost /\ AcknowledgedIsDone
  OBVIOUS
<1>1. ObservedHostIsWhole
  BY StarConstants DEF HostIInv, Serial, Held, ObservedHostIsWhole, Processes, Whole
<1>2. NoOrphanedRuntime
  <2>1. Settled => \A p \in Processes : pc[p] \notin Held
    BY SMTT(20), StarConstants DEF HostIInv, Serial, Processes, Settled
  <2> QED  BY ZenonT(30), <2>1 DEF HostIInv, NoOrphanedRuntime, Clean, NoOrphan
<1>3. MembershipMatchesHost
  BY DEF HostIInv, MembershipMatchesHost, Faithful, Resting
<1>4. AcknowledgedIsDone
  <2> SUFFICES ASSUME NEW p \in Processes, pc[p] = "ack"
      PROVE  IF op[p] = "create"
             THEN /\ durable = net[p] /\ active = net[p]
                  /\ "cleanup" \notin faults => exists[net[p]] = Resources
             ELSE durable = NoNetwork /\ (net[p] # NoNetwork => active = NoNetwork /\ exists[net[p]] = {})
    BY Zenon DEF AcknowledgedIsDone
  <2>1. Doing(p) /\ Whole /\ \A q \in Processes \ {p} : pc[q] = "idle"
    BY SMTT(20), Running
  <2>2. op[p] \in {"create", "leave"}
    BY DEF Doing, HostIInv, HostTypes, TypeOK
  <2> QED  BY Zenon, <2>1, <2>2, StarConstants DEF Doing, Whole
<1> QED  BY <1>1, <1>2, <1>3, <1>4

\* Whatever requests, startup, observers and crashes do between two calls to the
\* backends, and whichever of those calls fail: an observed host is whole, nothing of
\* a network outlives its host, host and membership agree between mutations, and what
\* was acknowledged is done, with the exceptions the four properties name.
THEOREM HostStaysSound == Spec => []HostIsSound
<1>1. Spec => []HostIInv
  BY HostInit, HostNext, PTL DEF Spec
<1>2. HostIInv => HostIsSound
  BY Zenon, HostIInvSays DEF HostIsSound, HostIInv, HostTypes
<1> QED  BY <1>1, <1>2, PTL
===============================================================================
