----------------------------- MODULE Lifecycle -----------------------------
(***************************************************************************)
(* How the process starts and stops (pkg/cmd/kube-router.go, the Run       *)
(* methods of the controllers, pkg/healthcheck, pkg/metrics).              *)
(*                                                                         *)
(* Run, the main goroutine, starts the others one after the other.  When   *)
(* the firewall is enabled it waits, on a sync.Cond, until the routing     *)
(* controller and then the service proxy are through with setting up their *)
(* firewall rules, an error of which is only logged, and then starts the   *)
(* network policy controller.  All of them send heartbeats over one        *)
(* bounded channel to RunCheck.  On SIGTERM it closes stopCh, waits for    *)
(* everyone and closes the heartbeat channel.                              *)
(*                                                                         *)
(* Goroutines: "HS" RunServer and "HC" RunCheck of the health controller,  *)
(* "MC" metrics, "NRC" routing, "RS" its route syncer, "NSC" service       *)
(* proxy, "NPC" network policies, "NPCSync" its full-sync goroutine.       *)
(***************************************************************************)
EXTENDS Naturals, FiniteSets

CONSTANTS
    RunRouter, RunServiceProxy, RunFirewall,    \* the three --run-... flags
    ChanCap                                     \* healthControllerChannelLength

ASSUME LifecycleAssumption ==
    /\ RunRouter \in BOOLEAN /\ RunServiceProxy \in BOOLEAN /\ RunFirewall \in BOOLEAN
    /\ RunRouter \/ RunServiceProxy \/ RunFirewall
    /\ ChanCap \in Nat \ {0}

VARIABLES
    mainPc,
    pc,             \* where each goroutine is; "off" before it is started
    waiting,        \* condition variables the main goroutine sleeps on
    firewallSetup,  \* per condition variable: what became of the set-up that it
                    \* announces, "pending" until Broadcast
    fullSyncRequest,\* a request is buffered in npc.fullSyncRequestChan
    healthChan,     \* heartbeats buffered
    chanClosed,     \* the deferred close(healthChan) has been executed
    stopCh,         \* close(stopCh) has been executed
    startFailed,    \* Run returned an error
    dead            \* why the process ended, or "no"

vars == <<mainPc, pc, waiting, firewallSetup, fullSyncRequest, healthChan,
          chanClosed, stopCh, startFailed, dead>>
chanVars == <<healthChan, chanClosed>>

Goroutines == {"HS", "HC", "MC", "NRC", "RS", "NSC", "NPC", "NPCSync"}
Conds == {"CNIFirewallSetup", "ProxyFirewallSetup"}
Running(g) == pc[g] \notin {"off", "done"}
Alive == dead = "no"

Init ==
    /\ mainPc = "cache"
    /\ pc = [g \in Goroutines |-> IF g = "HS" THEN "select" ELSE "off"]
    /\ waiting = {}
    /\ firewallSetup = [c \in Conds |-> "pending"]
    /\ fullSyncRequest = FALSE
    /\ healthChan = 0
    /\ chanClosed = FALSE
    /\ stopCh = FALSE
    /\ startFailed = FALSE
    /\ dead = "no"

-----------------------------------------------------------------------------
(* The main goroutine.                                                     *)

Main(from, to) ==
    /\ Alive
    /\ mainPc = from
    /\ mainPc' = to
    /\ UNCHANGED <<chanVars, dead>>

\* CacheSyncOrTimeout, then RunCheck.
MainCacheSync ==
    /\ Main("cache", "metrics")
    /\ pc' = [pc EXCEPT !["HC"] = "select"]
    /\ UNCHANGED <<waiting, firewallSetup, fullSyncRequest, stopCh, startFailed>>

\* The metrics controller is optional.
MainStartMetrics(enabled) ==
    /\ Main("metrics", "router")
    /\ pc' = IF enabled THEN [pc EXCEPT !["MC"] = "send"] ELSE pc
    /\ UNCHANGED <<waiting, firewallSetup, fullSyncRequest, stopCh, startFailed>>

MainStartRouter ==
    /\ Main("router", IF RunRouter /\ RunFirewall THEN "lockCNI" ELSE "proxy")
    /\ pc' = IF RunRouter THEN [pc EXCEPT !["NRC"] = "setup"] ELSE pc
    /\ UNCHANGED <<waiting, firewallSetup, fullSyncRequest, stopCh, startFailed>>

MainStartProxy ==
    /\ Main("proxy", IF RunServiceProxy /\ RunFirewall THEN "lockProxy" ELSE "firewall")
    /\ pc' = IF RunServiceProxy THEN [pc EXCEPT !["NSC"] = "setup"] ELSE pc
    /\ UNCHANGED <<waiting, firewallSetup, fullSyncRequest, stopCh, startFailed>>

MWaitSkipped(from, cond, to) ==
    /\ Main(from, to)
    /\ UNCHANGED <<pc, waiting, firewallSetup, fullSyncRequest, stopCh, startFailed>>

\* Cond.Wait under Cond.L: from here on a Broadcast wakes the goroutine.
CondWait(from, cond, to) ==
    /\ Main(from, to)
    /\ waiting' = waiting \cup {cond}
    /\ UNCHANGED <<pc, firewallSetup, fullSyncRequest, stopCh, startFailed>>

CondWoken(from, cond, to) ==
    /\ Main(from, to)
    /\ cond \notin waiting
    /\ UNCHANGED <<pc, waiting, firewallSetup, fullSyncRequest, stopCh, startFailed>>

MainWaitCNI ==
    \/ CondWait("lockCNI", "CNIFirewallSetup", "waitCNI")
    \/ CondWoken("waitCNI", "CNIFirewallSetup", "proxy")

MainWaitProxy ==
    \/ CondWait("lockProxy", "ProxyFirewallSetup", "waitProxy")
    \/ CondWoken("waitProxy", "ProxyFirewallSetup", "firewall")

MainStartFirewall ==
    /\ Main("firewall", "notify")
    /\ pc' = IF RunFirewall THEN [pc EXCEPT !["NPC"] = "setup"] ELSE pc
    /\ UNCHANGED <<waiting, firewallSetup, fullSyncRequest, stopCh, startFailed>>

\* A cache-sync timeout, a bad BGP option, or a constructor or an event handler
\* registration that fails: Run returns the error.
MainFails ==
    /\ mainPc \in {"cache", "metrics", "router", "proxy", "firewall"}
    /\ Main(mainPc, "close")
    /\ startFailed' = TRUE
    /\ UNCHANGED <<pc, waiting, firewallSetup, fullSyncRequest, stopCh>>

\* signal.Notify, and the receive that a signal ends.
MainNotify ==
    /\ Main("notify", "running")
    /\ UNCHANGED <<pc, waiting, firewallSetup, fullSyncRequest, stopCh, startFailed>>

MainSignalled ==
    /\ Main("running", "waitGroup")
    /\ stopCh' = TRUE
    /\ UNCHANGED <<pc, waiting, firewallSetup, fullSyncRequest, startFailed>>

MMainNoWait ==
    /\ Main("waitGroup", "close")
    /\ UNCHANGED <<pc, waiting, firewallSetup, fullSyncRequest, stopCh, startFailed>>

\* wg.Wait: every goroutine is counted from before it starts until it returns.
MainWaitGroup ==
    /\ Main("waitGroup", "close")
    /\ \A g \in Goroutines : ~Running(g)
    /\ UNCHANGED <<pc, waiting, firewallSetup, fullSyncRequest, stopCh, startFailed>>

\* The deferred close(healthChan), and the exit of the process after it.
MainClose ==
    /\ Alive
    /\ mainPc = "close"
    /\ mainPc' = "returned"
    /\ chanClosed' = TRUE
    /\ UNCHANGED <<pc, waiting, firewallSetup, fullSyncRequest, healthChan, stopCh,
                   startFailed, dead>>

MainExit ==
    /\ Alive
    /\ mainPc = "returned"
    /\ dead' = "exit"
    /\ UNCHANGED <<mainPc, pc, waiting, firewallSetup, fullSyncRequest, chanVars,
                   stopCh, startFailed>>

\* SIGTERM before signal.Notify has the default effect.
Killed ==
    /\ Alive
    /\ mainPc \notin {"running", "waitGroup", "close", "returned"}
    /\ dead' = "killed"
    /\ UNCHANGED <<mainPc, pc, waiting, firewallSetup, fullSyncRequest, chanVars,
                   stopCh, startFailed>>

-----------------------------------------------------------------------------
(* The other goroutines.                                                   *)

\* A step of goroutine g that leaves the heartbeat channel alone.
Move(g, from, to) ==
    /\ Alive
    /\ pc[g] = from
    /\ pc' = [pc EXCEPT ![g] = to]
    /\ UNCHANGED <<mainPc, stopCh, chanVars, startFailed, dead>>

\* A select, or the check at the top of a loop, that finds stopCh closed.
Stop(g, at) ==
    /\ stopCh
    /\ Move(g, at, "done")
    /\ UNCHANGED <<waiting, firewallSetup, fullSyncRequest>>

Quietly(g, from, to) ==
    Move(g, from, to) /\ UNCHANGED <<waiting, firewallSetup, fullSyncRequest>>

\* The channel made without a length: a send meets a receive.
MSendUnbuffered(g, from, to) ==
    /\ Alive
    /\ pc[g] = from
    /\ pc["HC"] = "select"
    /\ pc' = [pc EXCEPT ![g] = to]
    /\ UNCHANGED <<chanVars, dead, mainPc, waiting, firewallSetup, fullSyncRequest,
                   stopCh, startFailed>>

\* SendHeartBeat blocks while the channel is full, and panics once it is closed.
SendHeartBeat(g, from, to) ==
    /\ Alive
    /\ pc[g] = from
    /\ \/ /\ chanClosed
          /\ dead' = "panic"
          /\ UNCHANGED healthChan
       \/ /\ ~chanClosed
          /\ healthChan < ChanCap
          /\ healthChan' = healthChan + 1
          /\ UNCHANGED dead
    /\ pc' = [pc EXCEPT ![g] = to]
    /\ UNCHANGED <<chanClosed, mainPc, waiting, firewallSetup, fullSyncRequest, stopCh,
                   startFailed>>

\* klog.Fatal ends the process from any goroutine: a CNI configuration that cannot be
\* written, a sysctl, the initial service sync, an iptables or ipset command of the
\* network policies.
FatalPoints ==
    { <<"NRC", "setup">>, <<"NSC", "setup">>, <<"NSC", "first">>, <<"NPC", "setup">>,
      <<"NPCSync", "sync">> }

Fatal(g, at) ==
    /\ Alive
    /\ pc[g] = at
    /\ dead' = "fatal"
    /\ UNCHANGED <<mainPc, pc, waiting, firewallSetup, fullSyncRequest, chanVars, stopCh,
                   startFailed>>

Fatals == \E p \in FatalPoints : Fatal(p[1], p[2])

MNoBroadcast(g, cond, to) ==
    Move(g, "setup", to) /\ UNCHANGED <<waiting, firewallSetup, fullSyncRequest>>

\* The set-up of the firewall rules succeeds, or fails and is logged; Broadcast
\* follows either way.  It wakes the main goroutine if that is waiting, and is
\* forgotten if not; Cond.L is not held.
Broadcast(g, cond, to) ==
    /\ Move(g, "setup", to)
    /\ waiting' = waiting \ {cond}
    /\ \E result \in {"done", "failed"} :
          firewallSetup' = [firewallSetup EXCEPT ![cond] = result]
    /\ UNCHANGED fullSyncRequest

\* RunCheck; its select also has a tick, which changes nothing here.
RunCheckReceive ==
    /\ Alive
    /\ pc["HC"] = "select"
    /\ healthChan > 0
    /\ healthChan' = healthChan - 1
    /\ UNCHANGED <<mainPc, pc, waiting, firewallSetup, fullSyncRequest, chanClosed,
                   stopCh, startFailed, dead>>

MetricsBeat == SendHeartBeat("MC", "send", "select")
MetricsTick == Quietly("MC", "select", "send")
Metrics == MetricsBeat \/ MetricsTick

\* The routing controller: setup and Broadcast, the route syncer, the BGP server
\* (with retries), then one pass per tick, whose heartbeat is skipped on error.
RouterBgp == Quietly("NRC", "bgp", "check")
RouterRetry == Quietly("NRC", "bgp", "retry") \/ Quietly("NRC", "retry", "bgp")
RouterStartSyncer ==
    /\ Alive
    /\ pc["NRC"] = "syncer"
    /\ pc' = [pc EXCEPT !["NRC"] = "bgp", !["RS"] = "select"]
    /\ UNCHANGED <<mainPc, waiting, firewallSetup, fullSyncRequest, chanVars, stopCh,
                   startFailed, dead>>
RouterCheck ==
    /\ ~stopCh
    /\ Quietly("NRC", "check", "send")
RouterBeat == SendHeartBeat("NRC", "send", "select") \/ Quietly("NRC", "send", "select")
RouterTick == Quietly("NRC", "select", "check")
Router ==
    \/ Broadcast("NRC", "CNIFirewallSetup", "syncer")
    \/ RouterStartSyncer \/ RouterBgp \/ RouterRetry \/ RouterCheck \/ RouterBeat
    \/ RouterTick

\* The service proxy: setup and Broadcast, the initial sync, then for a request or
\* a tick a heartbeat, the sync, and another heartbeat unless it failed.
ProxyFirst ==
    /\ ~stopCh
    /\ Quietly("NSC", "first", "select")
ProxyPick == Quietly("NSC", "select", "send1")
ProxyBeat ==
    \/ SendHeartBeat("NSC", "send1", "send2")
    \/ SendHeartBeat("NSC", "send2", "select")
    \/ Quietly("NSC", "send2", "select")
Proxy == Broadcast("NSC", "ProxyFirewallSetup", "first") \/ ProxyFirst \/ ProxyPick
         \/ ProxyBeat

\* The network policy controller: Run asks for a full sync at every tick, which
\* is dropped when one is already queued; event handlers do the same.
PolicyStart ==
    /\ Alive
    /\ pc["NPC"] = "setup"
    /\ pc' = [pc EXCEPT !["NPC"] = "request", !["NPCSync"] = "check"]
    /\ UNCHANGED <<mainPc, waiting, firewallSetup, fullSyncRequest, chanVars, stopCh,
                   startFailed, dead>>
RequestFullSync ==
    /\ Move("NPC", "request", "select")
    /\ fullSyncRequest' = TRUE
    /\ UNCHANGED <<waiting, firewallSetup>>
PolicyTick == Quietly("NPC", "select", "request")
PolicyCheck ==
    /\ ~stopCh
    /\ Quietly("NPCSync", "check", "select")
TakeFullSyncRequest ==
    /\ fullSyncRequest
    /\ Move("NPCSync", "select", "send")
    /\ fullSyncRequest' = FALSE
    /\ UNCHANGED <<waiting, firewallSetup>>
PolicyBeat == SendHeartBeat("NPCSync", "send", "sync")
FullPolicySync == Quietly("NPCSync", "sync", "check")
Policy == PolicyStart \/ RequestFullSync \/ PolicyTick
PolicySync == PolicyCheck \/ TakeFullSyncRequest \/ PolicyBeat \/ FullPolicySync

\* Where each goroutine looks at stopCh.
StopPoints ==
    { <<"HS", "select">>, <<"HC", "select">>, <<"MC", "select">>, <<"NRC", "retry">>,
      <<"NRC", "check">>, <<"NRC", "select">>, <<"RS", "select">>, <<"NSC", "first">>,
      <<"NSC", "select">>, <<"NPC", "select">>, <<"NPCSync", "check">>,
      <<"NPCSync", "select">> }

Stops == \E p \in StopPoints : Stop(p[1], p[2])

Terminated == ~Alive /\ UNCHANGED vars

-----------------------------------------------------------------------------
MainStart ==
    \/ MainCacheSync \/ \E enabled \in BOOLEAN : MainStartMetrics(enabled)
    \/ MainStartRouter \/ MainWaitCNI \/ MainStartProxy \/ MainWaitProxy
    \/ MainStartFirewall \/ MainNotify
MainStop == MainWaitGroup \/ MainClose \/ MainExit

Next ==
    \/ MainStart \/ MainFails \/ MainSignalled \/ MainStop \/ Killed
    \/ RunCheckReceive \/ Metrics \/ Router \/ Proxy \/ Policy \/ PolicySync
    \/ Stops \/ Fatals
    \/ Terminated

StopOf(g) == \E p \in StopPoints : p[1] = g /\ Stop(g, p[2])

\* Every goroutine keeps running, and Go's select takes a case that is ready again
\* and again: a loop that goes on ticking takes the closed stopCh in the end.
\* Signals and startup errors may never come, and the BGP server may never start.
Fairness ==
    /\ WF_vars(MainStart) /\ WF_vars(MainStop)
    /\ WF_vars(Metrics) /\ WF_vars(Router) /\ WF_vars(Proxy)
    /\ WF_vars(Policy) /\ WF_vars(PolicySync)
    /\ \A g \in {"HS", "HC", "RS", "NPCSync"} : WF_vars(StopOf(g))
    /\ \A g \in {"MC", "NRC", "NSC", "NPC"} : SF_vars(StopOf(g))

Spec == Init /\ [][Next]_vars
FairSpec == Spec /\ Fairness

-----------------------------------------------------------------------------
TypeOK ==
    /\ mainPc \in {"cache", "metrics", "router", "lockCNI", "waitCNI", "proxy",
                   "lockProxy", "waitProxy", "firewall", "notify", "running",
                   "waitGroup", "close", "returned"}
    /\ pc \in [Goroutines -> {"off", "setup", "syncer", "bgp", "retry", "first", "check",
                              "request", "send", "send1", "send2", "sync", "select", "done"}]
    /\ waiting \in SUBSET Conds
    /\ firewallSetup \in [Conds -> {"pending", "done", "failed"}]
    /\ fullSyncRequest \in BOOLEAN
    /\ healthChan \in 0 .. ChanCap
    /\ chanClosed \in BOOLEAN
    /\ stopCh \in BOOLEAN
    /\ startFailed \in BOOLEAN
    /\ dead \in {"no", "exit", "killed", "fatal", "panic"}

\* The network policy controller, and the sync goroutine it starts, run only when
\* the set-up of pod networking's and of the service proxy's firewall rules is
\* over, so that neither of them puts its rules above the network policies'
\* during start-up.  Over, not successful: a set-up that failed has been logged
\* and announced all the same.
SetupOver(cond) == firewallSetup[cond] # "pending"
SetupBeforePolicies ==
    Running("NPC") \/ Running("NPCSync")
        => /\ RunRouter => SetupOver("CNIFirewallSetup")
           /\ RunServiceProxy => SetupOver("ProxyFirewallSetup")

\* On an orderly shutdown nobody sends a heartbeat on the closed channel: a panic
\* is possible only on the way out after a startup error.
OrderlyShutdown == dead = "panic" => startFailed

\* After SIGTERM the process ends, unless RunCheck has gone and left the heartbeat
\* channel full, so that a sender blocks and wg.Wait with it.
HealthChanStuck == pc["HC"] = "done" /\ healthChan = ChanCap
ShutdownCompletes == (mainPc = "waitGroup") ~> (~Alive \/ HealthChanStuck)

\* Startup gets through: the main goroutine starts all controllers, or the process
\* ends, unless it sleeps on a condition variable whose Broadcast came before the
\* Wait.  The Wait has no predicate to check, so nothing wakes it then.
BroadcastLost == \E cond \in waiting : SetupOver(cond)
StartupCompletes == <>(mainPc \in {"running", "waitGroup", "close", "returned"} \/ ~Alive \/ BroadcastLost)
=============================================================================
