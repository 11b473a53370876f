---------------------------- MODULE MCControlPlane ----------------------------
(* The control worker on two networks, two peers and two keys.  Networks,      *)
(* peers and keys are interchangeable: of the initial states that differ only  *)
(* by their names one is kept.                                                 *)
EXTENDS ControlPlane

CONSTANTS p1, p2, k2, n2

MCInit ==
  /\ Init
  /\ durable # n2
  /\ \A n \in Networks : pins[n][p1] # k2 /\ (pins[n][p1] = NoKey => pins[n][p2] = NoKey)

MCSpec == MCInit /\ [][Next]_vars /\ WF_vars(Worker) /\ WF_vars(CallStep)
===============================================================================
