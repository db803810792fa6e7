-------------------------- MODULE LifecycleProofs --------------------------
(***************************************************************************)
(* Proofs about Lifecycle, for every choice of controllers and every       *)
(* length of the heartbeat channel.                                        *)
(***************************************************************************)
EXTENDS Lifecycle, TLAPS

\* A goroutine that sleeps on a condition variable is woken only by a Broadcast on
\* it, so that wherever the main goroutine has got to, the set-ups it has waited
\* for are over.
WaitInv ==
    /\ mainPc = "waitCNI" => "CNIFirewallSetup" \in waiting \/ SetupOver("CNIFirewallSetup")
    /\ mainPc = "waitProxy" =>
          "ProxyFirewallSetup" \in waiting \/ SetupOver("ProxyFirewallSetup")
    /\ RunFirewall /\ RunRouter /\ mainPc \in {"proxy", "lockProxy", "waitProxy", "firewall"}
          => SetupOver("CNIFirewallSetup")
    /\ RunFirewall /\ RunServiceProxy /\ mainPc = "firewall"
          => SetupOver("ProxyFirewallSetup")

\* The network policy controller has been started behind both waits, and its sync
\* goroutine by it.
PolicyInv ==
    /\ pc["NPC"] # "off" => /\ RunRouter => SetupOver("CNIFirewallSetup")
                            /\ RunServiceProxy => SetupOver("ProxyFirewallSetup")
    /\ pc["NPCSync"] # "off" => pc["NPC"] # "off"

\* Without a startup error the channel is closed behind wg.Wait only.
CloseInv ==
    /\ chanClosed => mainPc = "returned"
    /\ mainPc \in {"close", "returned"} /\ ~startFailed
          => \A g \in Goroutines : ~Running(g)

IInv == TypeOK /\ WaitInv /\ PolicyInv /\ CloseInv /\ OrderlyShutdown

USE LifecycleAssumption DEF LifecycleAssumption

-----------------------------------------------------------------------------
\* Init establishes the invariant.
LEMMA InitIInv == Init => IInv
  <1> SUFFICES ASSUME Init PROVE IInv
    OBVIOUS
  <1>1. TypeOK
    <2>1. pc \in [Goroutines -> {"select", "off"}]
      BY DEF Init
    <2>2. 0 \in 0 .. ChanCap
      OBVIOUS
    <2> QED
      BY <2>1, <2>2 DEF Init, TypeOK
  <1>2. WaitInv /\ CloseInv /\ OrderlyShutdown
    BY DEF Init, WaitInv, CloseInv, OrderlyShutdown
  <1>3. PolicyInv
    BY DEF Init, PolicyInv, Goroutines
  <1> QED
    BY <1>1, <1>2, <1>3 DEF IInv

-----------------------------------------------------------------------------
(* Steps of the main goroutine.                                            *)

\* Going to sleep on a condition variable.
LEMMA CondWaitStep ==
    ASSUME IInv, NEW from, NEW cond, NEW to, CondWait(from, cond, to),
           \/ from = "lockCNI" /\ cond = "CNIFirewallSetup" /\ to = "waitCNI"
           \/ from = "lockProxy" /\ cond = "ProxyFirewallSetup" /\ to = "waitProxy"
    PROVE  IInv'
  <1> USE DEF CondWait, Main, chanVars, Alive, SetupOver
  <1>1. TypeOK'
    BY DEF IInv, TypeOK, Conds
  <1>2. WaitInv'
    BY DEF IInv, WaitInv
  <1>3. PolicyInv'
    BY DEF IInv, PolicyInv
  <1>4. CloseInv' /\ OrderlyShutdown'
    BY DEF IInv, CloseInv, OrderlyShutdown, Running
  <1> QED
    BY <1>1, <1>2, <1>3, <1>4 DEF IInv

\* The controllers are started and waited for one after the other.
LEMMA MainStartStep == IInv /\ MainStart => IInv'
  <1> SUFFICES ASSUME IInv, MainStart PROVE IInv'
    OBVIOUS
  <1> USE DEF IInv, TypeOK, WaitInv, PolicyInv, CloseInv, OrderlyShutdown, Main, chanVars,
              Alive, Goroutines, Conds, Running, SetupOver
  <1>1. CASE MainCacheSync
    BY <1>1 DEF MainCacheSync
  <1>2. ASSUME NEW enabled \in BOOLEAN, MainStartMetrics(enabled) PROVE IInv'
    BY <1>2 DEF MainStartMetrics
  <1>3. CASE MainStartRouter
    BY <1>3 DEF MainStartRouter
  <1>4. CASE MainWaitCNI
    <2>1. CASE CondWait("lockCNI", "CNIFirewallSetup", "waitCNI")
      BY <2>1, CondWaitStep
    <2>2. CASE CondWoken("waitCNI", "CNIFirewallSetup", "proxy")
      BY <2>2 DEF CondWoken
    <2> QED
      BY <1>4, <2>1, <2>2 DEF MainWaitCNI
  <1>5. CASE MainStartProxy
    BY <1>5 DEF MainStartProxy
  <1>6. CASE MainWaitProxy
    <2>1. CASE CondWait("lockProxy", "ProxyFirewallSetup", "waitProxy")
      BY <2>1, CondWaitStep
    <2>2. CASE CondWoken("waitProxy", "ProxyFirewallSetup", "firewall")
      BY <2>2 DEF CondWoken
    <2> QED
      BY <1>6, <2>1, <2>2 DEF MainWaitProxy
  <1>7. CASE MainStartFirewall
    BY <1>7 DEF MainStartFirewall
  <1>8. CASE MainNotify
    BY <1>8 DEF MainNotify
  <1> QED
    BY <1>1, <1>2, <1>3, <1>4, <1>5, <1>6, <1>7, <1>8 DEF MainStart

\* Startup errors, signals, and the way out.
LEMMA MainStopStep == IInv /\ (MainFails \/ MainSignalled \/ MainStop \/ Killed) => IInv'
  <1> SUFFICES ASSUME IInv, MainFails \/ MainSignalled \/ MainStop \/ Killed PROVE IInv'
    OBVIOUS
  <1> USE DEF IInv, TypeOK, WaitInv, PolicyInv, CloseInv, OrderlyShutdown, Main, chanVars,
              Alive, Goroutines, Conds, Running, SetupOver
  <1>1. CASE MainFails
    BY <1>1 DEF MainFails
  <1>2. CASE MainSignalled
    BY <1>2 DEF MainSignalled
  <1>3. CASE MainWaitGroup
    BY <1>3 DEF MainWaitGroup
  <1>4. CASE MainClose
    BY <1>4 DEF MainClose
  <1>5. CASE MainExit
    BY <1>5 DEF MainExit
  <1>6. CASE Killed
    BY <1>6 DEF Killed
  <1> QED
    BY <1>1, <1>2, <1>3, <1>4, <1>5, <1>6 DEF MainStop

-----------------------------------------------------------------------------
(* Steps of the other goroutines.                                          *)

Labels == {"off", "setup", "syncer", "bgp", "retry", "first", "check", "request", "send",
           "send1", "send2", "sync", "select", "done"}

\* A goroutine that takes a step was running, so the channel is not closed unless
\* startup has failed.
LEMMA MoveStep ==
    ASSUME IInv, NEW g \in Goroutines, NEW from \in Labels \ {"off", "done"},
           NEW to \in Labels \ {"off"}, Move(g, from, to),
           waiting' \in SUBSET Conds,
           firewallSetup' \in [Conds -> {"pending", "done", "failed"}],
           fullSyncRequest' \in BOOLEAN,
           \A c \in Conds : SetupOver(c) => SetupOver(c)',
           \A c \in waiting : c \in waiting' \/ SetupOver(c)'
    PROVE  IInv'
  <1> USE DEF Move, chanVars, Alive, Goroutines, Labels, Running, Conds
  <1>1. TypeOK'
    BY DEF IInv, TypeOK
  <1>2. WaitInv'
    BY DEF IInv, WaitInv
  <1>3. PolicyInv'
    BY DEF IInv, TypeOK, PolicyInv
  <1>4. CloseInv' /\ OrderlyShutdown'
    BY DEF IInv, CloseInv, OrderlyShutdown, TypeOK
  <1> QED
    BY <1>1, <1>2, <1>3, <1>4 DEF IInv

\* A goroutine moves on without touching anything that is shared.
LEMMA QuietStep ==
    ASSUME IInv, NEW g \in Goroutines, NEW from \in Labels \ {"off", "done"},
           NEW to \in Labels \ {"off"}, Quietly(g, from, to)
    PROVE  IInv'
  <1>1. /\ waiting' \in SUBSET Conds
        /\ firewallSetup' \in [Conds -> {"pending", "done", "failed"}]
        /\ fullSyncRequest' \in BOOLEAN
        /\ \A c \in Conds : SetupOver(c) => SetupOver(c)'
        /\ \A c \in waiting : c \in waiting' \/ SetupOver(c)'
    BY DEF IInv, TypeOK, Quietly, SetupOver
  <1>2. Move(g, from, to)
    BY DEF Quietly
  <1> QED
    BY <1>1, <1>2, MoveStep

\* A controller has set up its firewall and wakes the main goroutine.
LEMMA BroadcastStep ==
    ASSUME IInv, NEW g \in Goroutines, NEW cond \in Conds, NEW to \in Labels \ {"off"},
           Broadcast(g, cond, to)
    PROVE  IInv'
  <1>1. /\ waiting' \in SUBSET Conds
        /\ firewallSetup' \in [Conds -> {"pending", "done", "failed"}]
        /\ fullSyncRequest' \in BOOLEAN
        /\ \A c \in Conds : SetupOver(c) => SetupOver(c)'
        /\ \A c \in waiting : c \in waiting' \/ SetupOver(c)'
    BY DEF IInv, TypeOK, Broadcast, SetupOver
  <1>2. Move(g, "setup", to) /\ "setup" \in Labels \ {"off", "done"}
    BY DEF Broadcast, Labels
  <1> QED
    BY <1>1, <1>2, MoveStep

\* A controller sends a heartbeat: a panic, if the channel is closed.
LEMMA BeatStep ==
    ASSUME IInv, NEW g \in Goroutines, NEW from \in Labels \ {"off", "done"},
           NEW to \in Labels \ {"off"}, SendHeartBeat(g, from, to)
    PROVE  IInv'
  <1> USE DEF SendHeartBeat, Alive, Goroutines, Labels, Running, SetupOver
  <1>1. TypeOK'
    BY DEF IInv, TypeOK
  <1>2. WaitInv'
    BY DEF IInv, WaitInv
  <1>3. PolicyInv'
    BY DEF IInv, TypeOK, PolicyInv
  <1>4. CloseInv'
    BY DEF IInv, CloseInv, TypeOK
  <1>5. OrderlyShutdown'
    BY DEF IInv, CloseInv, OrderlyShutdown, TypeOK
  <1> QED
    BY <1>1, <1>2, <1>3, <1>4, <1>5 DEF IInv

\* Every step of a goroutine other than the main one.
LEMMA OtherStep ==
    IInv /\ (RunCheckReceive \/ Metrics \/ Router \/ Proxy \/ Policy \/ PolicySync
             \/ Stops \/ Fatals) => IInv'
  <1> SUFFICES ASSUME IInv,
                      RunCheckReceive \/ Metrics \/ Router \/ Proxy \/ Policy \/ PolicySync
                         \/ Stops \/ Fatals
               PROVE  IInv'
    OBVIOUS
  <1> USE DEF Labels, Goroutines
  <1>1. CASE RunCheckReceive
    BY <1>1 DEF RunCheckReceive, IInv, TypeOK, WaitInv, PolicyInv, CloseInv, OrderlyShutdown,
                Running, Alive, SetupOver
  <1>2. CASE Metrics
    BY <1>2, QuietStep, BeatStep DEF Metrics, MetricsBeat, MetricsTick
  <1>3. CASE Router
    <2>1. CASE Broadcast("NRC", "CNIFirewallSetup", "syncer")
      BY <2>1, BroadcastStep DEF Conds
    <2>2. CASE RouterStartSyncer
      BY <2>2 DEF RouterStartSyncer, IInv, TypeOK, WaitInv, PolicyInv, CloseInv,
                  OrderlyShutdown, Running, Alive, chanVars, SetupOver
    <2>3. CASE RouterBgp \/ RouterRetry \/ RouterCheck \/ RouterTick
      BY <2>3, QuietStep DEF RouterBgp, RouterRetry, RouterCheck, RouterTick
    <2>4. CASE RouterBeat
      BY <2>4, QuietStep, BeatStep DEF RouterBeat
    <2> QED
      BY <1>3, <2>1, <2>2, <2>3, <2>4 DEF Router
  <1>4. CASE Proxy
    <2>1. CASE Broadcast("NSC", "ProxyFirewallSetup", "first")
      BY <2>1, BroadcastStep DEF Conds
    <2>2. CASE ProxyFirst \/ ProxyPick
      BY <2>2, QuietStep DEF ProxyFirst, ProxyPick
    <2>3. CASE ProxyBeat
      BY <2>3, QuietStep, BeatStep DEF ProxyBeat
    <2> QED
      BY <1>4, <2>1, <2>2, <2>3 DEF Proxy
  <1>5. CASE Policy
    <2>1. CASE PolicyStart
      BY <2>1 DEF PolicyStart, IInv, TypeOK, WaitInv, PolicyInv, CloseInv,
                  OrderlyShutdown, Running, Alive, chanVars, SetupOver
    <2>2. CASE RequestFullSync
      <3>1. /\ waiting' \in SUBSET Conds
            /\ firewallSetup' \in [Conds -> {"pending", "done", "failed"}]
            /\ fullSyncRequest' \in BOOLEAN
            /\ \A c \in Conds : SetupOver(c) => SetupOver(c)'
            /\ \A c \in waiting : c \in waiting' \/ SetupOver(c)'
        BY <2>2 DEF RequestFullSync, IInv, TypeOK, SetupOver
      <3>2. Move("NPC", "request", "select")
        BY <2>2 DEF RequestFullSync
      <3> QED
        BY <3>1, <3>2, MoveStep
    <2>3. CASE PolicyTick
      BY <2>3, QuietStep DEF PolicyTick
    <2> QED
      BY <1>5, <2>1, <2>2, <2>3 DEF Policy
  <1>6. CASE PolicySync
    <2>1. CASE PolicyCheck \/ FullPolicySync
      BY <2>1, QuietStep DEF PolicyCheck, FullPolicySync
    <2>2. CASE TakeFullSyncRequest
      <3>1. /\ waiting' \in SUBSET Conds
            /\ firewallSetup' \in [Conds -> {"pending", "done", "failed"}]
            /\ fullSyncRequest' \in BOOLEAN
            /\ \A c \in Conds : SetupOver(c) => SetupOver(c)'
            /\ \A c \in waiting : c \in waiting' \/ SetupOver(c)'
        BY <2>2 DEF TakeFullSyncRequest, IInv, TypeOK, SetupOver
      <3>2. Move("NPCSync", "select", "send")
        BY <2>2 DEF TakeFullSyncRequest
      <3> QED
        BY <3>1, <3>2, MoveStep
    <2>3. CASE PolicyBeat
      BY <2>3, BeatStep DEF PolicyBeat
    <2> QED
      BY <1>6, <2>1, <2>2, <2>3 DEF PolicySync
  <1>7. CASE Stops
    <2>1. PICK p \in StopPoints : Stop(p[1], p[2])
      BY <1>7 DEF Stops
    <2>2. p[1] \in Goroutines /\ p[2] \in Labels \ {"off", "done"}
      BY DEF StopPoints
    <2>3. Quietly(p[1], p[2], "done")
      BY <2>1 DEF Stop, Quietly
    <2> QED
      BY <2>2, <2>3, QuietStep
  <1>8. CASE Fatals
    BY <1>8 DEF Fatals, Fatal, IInv, TypeOK, WaitInv, PolicyInv, CloseInv, OrderlyShutdown,
                Running, Alive, chanVars, SetupOver
  <1> QED
    BY <1>1, <1>2, <1>3, <1>4, <1>5, <1>6, <1>7, <1>8

-----------------------------------------------------------------------------
\* The invariant holds in every reachable state.
LEMMA Invariant == Spec => []IInv
  <1>1. IInv /\ [Next]_vars => IInv'
    <2> SUFFICES ASSUME IInv, [Next]_vars PROVE IInv'
      OBVIOUS
    <2>1. CASE UNCHANGED vars
      BY <2>1 DEF vars, IInv, TypeOK, WaitInv, PolicyInv, CloseInv, OrderlyShutdown, Running,
                  SetupOver
    <2>2. CASE Terminated
      BY <2>1, <2>2 DEF Terminated
    <2> QED
      BY <2>1, <2>2, MainStartStep, MainStopStep, OtherStep DEF Next
  <1> QED
    BY InitIInv, <1>1, PTL DEF Spec

\* Startup, heartbeats and shutdown keep every variable in its type; the heartbeat
\* channel never holds more than its capacity.
THEOREM TypeCorrect == Spec => []TypeOK
  <1>1. IInv => TypeOK
    BY DEF IInv
  <1> QED
    BY <1>1, Invariant, PTL

\* Whatever the main goroutine, the routing controller and the service proxy
\* interleave around the two sync.Conds, the network policy controller runs only
\* once both are through with setting up their firewall rules, be it with an
\* error: the Wait without a predicate may sleep for ever, but never ends early.
THEOREM PoliciesLast == Spec => []SetupBeforePolicies
  <1>1. IInv => SetupBeforePolicies
    BY DEF IInv, PolicyInv, SetupBeforePolicies, Running
  <1> QED
    BY <1>1, Invariant, PTL

\* Without a startup error nobody sends on the heartbeat channel after its deferred
\* close, for any number of heartbeats in flight when the signal arrives.
THEOREM ShutdownIsOrderly == Spec => []OrderlyShutdown
  <1>1. IInv => OrderlyShutdown
    BY DEF IInv
  <1> QED
    BY <1>1, Invariant, PTL
=============================================================================
