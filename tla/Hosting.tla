------------------------------ MODULE Hosting ------------------------------
(***************************************************************************)
(* The multi-application host, pulp -host: startHostedApplications         *)
(* (run/run.go) and MultiHostSupervisor (run/multihost.go) start every     *)
(* application instance in dependency order (applicationRuntime.Start,     *)
(* run/application_runtime.go), release the step loops, start the          *)
(* pollsters and the gateway (run/host_gateway.go), and on a signal or a   *)
(* failure stop everything in reverse.  Meanwhile guests call providers of *)
(* other applications (run/cross_application.go), extensions report their  *)
(* listeners (run/endpoint_registry.go) and requests pass the gateway.     *)
(*                                                                         *)
(* One main goroutine boots and stops the host.  Every instance has two    *)
(* goroutines that enter its guests: its step loop, which also stands for  *)
(* pulp_init while it boots, and an operator command or observer that      *)
(* holds its provider access.                                              *)
(***************************************************************************)
EXTENDS HostManifest

CONSTANTS
    Manifests,      \* the host manifests to boot
    Caps,           \* the registered capabilities, in their order
    HTTP,           \* the capability that opens a public listener
    Unscoped,       \* capabilities without a scoped teardown
    Paths,          \* the paths that clients request
    MaxAddresses,   \* bound: addresses that the listeners of an instance have
    Moving          \* bound: the applications whose listeners change their address

\* A host manifest is a list of entries with the fields that HostManifest names.
ASSUME ManifestsAssumption ==
    \A h \in Manifests :
        /\ IsFiniteSet(DOMAIN h.apps)
        /\ \A k \in DOMAIN h.apps :
            /\ h.apps[k].id \in Nat /\ h.apps[k].count \in Nat /\ h.apps[k].aliases \in Seq(Int)
            /\ \A c \in Physical(h.apps[k]) : c.name \in Nat /\ c.provides \subseteq Nat
ASSUME CapsAssumption ==
    Caps \in Seq(Range(Caps)) /\ HTTP \in Range(Caps) /\ Unscoped \subseteq Range(Caps)
ASSUME MaxAddressesAssumption == MaxAddresses \in Nat \ {0}

VARIABLES
    host,        \* the host manifest
    pc,          \* where startHostedApplications and its caller are
    order,       \* the instances in start order; Start's "started" is a prefix
    at,          \* the position of the instance that is being started or stopped
    phase,       \* per instance: how far Start or stopLocked is
    caps,        \* per instance: the capabilities that are set up
    entries,     \* crossApplicationRegistry.entries: the published instances
    activated,   \* whether the step loops are released
    stack,       \* per goroutine: the guest frames it is in, innermost last
    listener,    \* per instance: the address of the listener that the extension
                 \* has open, or 0
    endpoint,    \* EndpointRegistry: the address visible for an instance, or 0
    gone,        \* per instance: the addresses of the listeners that it has closed
    queue,       \* per instance: whether an event waits in its channel
    polling,     \* whether the pollsters run
    gateway,     \* the gateway: none, serving, draining or closed
    request,     \* the request in the gateway
    failed,      \* whether the boot failed
    unfinished   \* the instance whose setupCapabilities failed half-way, if any

mainVars == <<host, pc, order, at, failed, unfinished>>
runtimeVars == <<phase, caps, entries, activated>>
endpointVars == <<listener, endpoint, gone>>
frontVars == <<queue, polling, gateway, request>>
vars == <<mainVars, runtimeVars, stack, endpointVars, frontVars>>

Instances == Range(order)
Current == order[at]
Goroutine == {"loop", "operator"} \X Instances
Entry(i) == EntryOf(host, i[1])
Frame == [at : Instances, cell : Nat, provider : Nat]
NoRequest == [state |-> "none"]

\* The phases in which the step loops exist and are not cancelled, in which
\* the provider access is active, and in which the cells are loaded.
Looping == {"launched", "published", "ready", "unpublished", "revoked"}
Accessible == {"launched", "published", "ready", "unpublished"}
Loaded == Looping \cup {"init", "cancelled"}

Init ==
    /\ host \in Manifests
    /\ pc = "load"
    /\ order = <<>>
    /\ at = 0
    /\ phase = <<>>
    /\ caps = <<>>
    /\ entries = {}
    /\ activated = FALSE
    /\ stack = <<>>
    /\ listener = <<>>
    /\ endpoint = <<>>
    /\ gone = <<>>
    /\ queue = <<>>
    /\ polling = FALSE
    /\ gateway = "none"
    /\ request = NoRequest
    /\ failed = FALSE
    /\ unfinished = {}

----------------------------------------------------------------------------
(* loading the manifest *)

\* manifest.LoadHost, then the loader and canonicalHostedApplications.
LoadApplications ==
    /\ pc = "load"
    /\ LoadHost(host)
    /\ pc' = "boot"
    /\ order' = canonicalHostedApplications(host)
    /\ at' = 1
    /\ LET I == Range(order') IN
        /\ phase' = [i \in I |-> "off"]
        /\ caps' = [i \in I |-> {}]
        /\ stack' = [t \in {"loop", "operator"} \X I |-> <<>>]
        /\ listener' = [i \in I |-> 0]
        /\ endpoint' = [i \in I |-> 0]
        /\ gone' = [i \in I |-> {}]
        /\ queue' = [i \in I |-> FALSE]
    /\ UNCHANGED <<host, entries, activated, polling, gateway, request, failed, unfinished>>

RejectManifest ==
    /\ pc = "load"
    /\ ~LoadHost(host)
    /\ pc' = "exited"
    /\ failed' = TRUE
    /\ UNCHANGED <<host, order, at, unfinished, runtimeVars, stack, endpointVars, frontVars>>

----------------------------------------------------------------------------
(* applicationRuntime.Start for the current instance *)

Booting(i, ph) == pc = "boot" /\ i = Current /\ phase[i] = ph
Go(i, ph) == phase' = [phase EXCEPT ![i] = ph]

\* startFailure of the supervisor: every runtime created so far is stopped.
RollBack == pc' = "stop" /\ failed' = TRUE

\* What the application declares: the union over its placements.
Declared(i) == Entry(i).caps

\* More than one instance: only capabilities with a scoped teardown.
validateCapabilityLifecycle(i) == Len(order) > 1 => Declared(i) \cap Unscoped = {}

\* LoadApp, fusion, execution placements and the physical plan; nothing has been
\* set up if one of them fails.
Plan(i) ==
    /\ Booting(i, "off")
    /\ validateCapabilityLifecycle(i)
    /\ Go(i, "planned")
    /\ UNCHANGED <<mainVars, caps, entries, activated, stack, endpointVars, frontVars>>

PlanFails(i) ==
    /\ Booting(i, "off")
    /\ RollBack
    /\ UNCHANGED <<host, order, at, unfinished, runtimeVars, stack, endpointVars, frontVars>>

\* The declared capabilities that setupCapabilities has still to set up.
ToSetUp(i) == {k \in DOMAIN Caps : Caps[k] \in Declared(i) \ caps[i]}

\* The next capability in registry order.  The HTTP extension opens its
\* listener, at an address that is 1 from now on, and reports it.
SetupCapability(i) ==
    /\ Booting(i, "planned")
    /\ ToSetUp(i) # {}
    /\ LET c == Caps[Min(ToSetUp(i))] IN
        /\ caps' = [caps EXCEPT ![i] = @ \cup {c}]
        /\ listener' = [listener EXCEPT ![i] = IF c = HTTP THEN 1 ELSE @]
        /\ endpoint' = [endpoint EXCEPT ![i] = IF c = HTTP THEN 1 ELSE @]
    /\ UNCHANGED <<mainVars, phase, entries, activated, stack, gone, frontVars>>

\* Setup fails: the runtime is reset without tearing down what is set up.
SetupFails(i) ==
    /\ Booting(i, "planned")
    /\ ToSetUp(i) # {}
    /\ RollBack
    /\ Go(i, "off")
    /\ unfinished' = {i}
    /\ UNCHANGED <<host, order, at, caps, entries, activated, stack, endpointVars, frontVars>>

Push(t, frame) == stack' = [stack EXCEPT ![t] = Append(@, frame)]
Enter(t, i) == \E c \in Physical(Entry(i)) : Push(t, [at |-> i, cell |-> c.name, provider |-> 0])

\* The cells are loaded and pulp_init runs.
BeginInit(i) ==
    /\ Booting(i, "planned")
    /\ ToSetUp(i) = {}
    /\ Go(i, "init")
    /\ Enter(<<"loop", i>>, i)
    /\ UNCHANGED <<mainVars, caps, entries, activated, endpointVars, frontVars>>

Idle(t) == stack[t] = <<>>

\* Every cell is initialized: the step loops are launched, the provider access
\* is made and its commands are bound.
EndInit(i) ==
    /\ Booting(i, "init")
    /\ Len(stack[<<"loop", i>>]) = 1
    /\ Go(i, "launched")
    /\ stack' = [stack EXCEPT ![<<"loop", i>>] = <<>>]
    /\ UNCHANGED <<mainVars, caps, entries, activated, endpointVars, frontVars>>

\* markReady.
MarkReady(i) ==
    /\ Booting(i, "launched")
    /\ i \notin entries
    /\ Go(i, "published")
    /\ entries' = entries \cup {i}
    /\ UNCHANGED <<mainVars, caps, activated, stack, endpointVars, frontVars>>

\* The lifecycle observer, and on to the next instance.
Observed(i) ==
    /\ Booting(i, "published")
    /\ Go(i, "ready")
    /\ at' = IF at < Len(order) THEN at + 1 ELSE at
    /\ pc' = IF at < Len(order) THEN "boot" ELSE "activate"
    /\ UNCHANGED <<host, order, failed, unfinished, caps, entries, activated, stack, endpointVars, frontVars>>

\* startFailure of the runtime: a cell does not load or init, a sibling link is
\* missing, the commands cannot be bound or the observer fails.  stopLocked
\* begins with markUnavailable.
StartFails(i) ==
    /\ \E ph \in {"init", "launched", "published"} : Booting(i, ph)
    /\ Len(stack[<<"loop", i>>]) <= 1
    /\ RollBack
    /\ Go(i, "unpublished")
    /\ entries' = entries \ {i}
    /\ stack' = [stack EXCEPT ![<<"loop", i>>] = <<>>]
    /\ UNCHANGED <<host, order, at, unfinished, caps, activated, endpointVars, frontVars>>

----------------------------------------------------------------------------
(* the rest of startHostedApplications *)

\* activateSteps: every application is published.
Activate ==
    /\ pc = "activate"
    /\ activated' = TRUE
    /\ pc' = "pollsters"
    /\ UNCHANGED <<host, order, at, failed, unfinished, phase, caps, entries, stack, endpointVars, frontVars>>

StartPollsters ==
    /\ pc = "pollsters"
    /\ polling' = TRUE
    /\ pc' = IF host.routes = <<>> THEN "up" ELSE "gateway"
    /\ UNCHANGED <<host, order, at, failed, unfinished, runtimeVars, stack, endpointVars, queue, gateway, request>>

\* Two cells have one event target, or the capabilities cannot be selected; no
\* pollster runs yet.
PollstersFail ==
    /\ pc = "pollsters"
    /\ pc' = "stoppoll"
    /\ failed' = TRUE
    /\ UNCHANGED <<host, order, at, unfinished, runtimeVars, stack, endpointVars, frontVars>>

\* NewSupervisorHostGateway: every route's target shows an HTTP address.
RoutesReady == \A k \in DOMAIN host.routes : endpoint[RouteTarget(host, host.routes[k])] # 0

StartGateway ==
    /\ pc = "gateway"
    /\ RoutesReady
    /\ gateway' = "serving"
    /\ pc' = "up"
    /\ UNCHANGED <<host, order, at, failed, unfinished, runtimeVars, stack, endpointVars, queue, polling, request>>

\* The port is missing or taken, or a target is not ready: hosted.Shutdown.
GatewayFails ==
    /\ pc = "gateway"
    /\ pc' = "stoppoll"
    /\ failed' = TRUE
    /\ UNCHANGED <<host, order, at, unfinished, runtimeVars, stack, endpointVars, frontVars>>

----------------------------------------------------------------------------
(* hosted.Shutdown *)

\* A signal; http.Server.Shutdown closes the gateway's listener.
Signal ==
    /\ pc = "up"
    /\ pc' = IF gateway = "serving" THEN "drain" ELSE "stoppoll"
    /\ gateway' = IF gateway = "serving" THEN "draining" ELSE gateway
    /\ UNCHANGED <<host, order, at, failed, unfinished, runtimeVars, stack, endpointVars, queue, polling, request>>

\* Faulty variant: the front door waits for the last request however long.
DrainGatewayForever ==
    /\ pc = "drain"
    /\ request = NoRequest
    /\ gateway' = "closed"
    /\ pc' = "stoppoll"
    /\ UNCHANGED <<host, order, at, failed, unfinished, runtimeVars, stack, endpointVars, queue, polling, request>>

\* The requests are done, or the five seconds are over.
DrainGateway ==
    /\ pc = "drain"
    /\ gateway' = IF request = NoRequest THEN "closed" ELSE "expired"
    /\ pc' = "stoppoll"
    /\ UNCHANGED <<host, order, at, failed, unfinished, runtimeVars, stack, endpointVars, queue, polling, request>>

StopPollsters ==
    /\ pc = "stoppoll"
    /\ polling' = FALSE
    /\ pc' = "stop"
    /\ UNCHANGED <<host, order, at, failed, unfinished, runtimeVars, stack, endpointVars, queue, gateway, request>>

----------------------------------------------------------------------------
(* stopLocked for the current instance *)

Stopping(i, ph) == pc = "stop" /\ at > 0 /\ i = Current /\ phase[i] = ph

\* The frames of calls that came into i from another application.
Inbound(i) ==
    {tk \in UNION {{t} \X (2 .. Len(stack[t])) : t \in Goroutine} : stack[tk[1]][tk[2]].at = i}

\* markUnavailable: no new call finds the application.
MarkUnavailable(i) ==
    /\ Stopping(i, "ready")
    /\ Go(i, "unpublished")
    /\ entries' = entries \ {i}
    /\ UNCHANGED <<mainVars, caps, activated, stack, endpointVars, frontVars>>

\* The calls inside have returned; the observer is told, unbind and revoke.
Revoke(i) ==
    /\ Stopping(i, "unpublished")
    /\ Inbound(i) = {}
    /\ Go(i, "revoked")
    /\ UNCHANGED <<mainVars, caps, entries, activated, stack, endpointVars, frontVars>>

\* Faulty variant: revoke does not wait for the calls it lets finish.
CancelStepsAtOnce(i) ==
    /\ Stopping(i, "revoked")
    /\ Go(i, "cancelled")
    /\ UNCHANGED <<mainVars, caps, entries, activated, stack, endpointVars, frontVars>>

\* The calls through the provider access have returned; the loops are cancelled.
CancelSteps(i) ==
    /\ Stopping(i, "revoked")
    /\ Idle(<<"operator", i>>)
    /\ Go(i, "cancelled")
    /\ UNCHANGED <<mainVars, caps, entries, activated, stack, endpointVars, frontVars>>

\* The loops have ended: queued events are finalized, the cells shut down and
\* closed in stop order.
CloseCells(i) ==
    /\ Stopping(i, "cancelled")
    /\ Idle(<<"loop", i>>)
    /\ Go(i, "closed")
    /\ queue' = [queue EXCEPT ![i] = FALSE]
    /\ UNCHANGED <<mainVars, caps, entries, activated, stack, endpointVars, polling, gateway, request>>

\* shutdownRuntimes goes on with the instance started before.
Previous == at' = at - 1

\* Faulty variant: the endpoints are left to the extension's own Gone.
TeardownKeepsEndpoints(i) ==
    /\ Stopping(i, "closed")
    /\ Previous
    /\ Go(i, "off")
    /\ caps' = [caps EXCEPT ![i] = {}]
    /\ listener' = [listener EXCEPT ![i] = 0]
    /\ gone' = [gone EXCEPT ![i] = @ \cup ({listener[i]} \ {0})]
    /\ UNCHANGED <<host, pc, order, failed, unfinished, entries, activated, stack, endpoint, frontVars>>

\* teardownCapabilities closes the listener, whose Gone may come later;
\* RemoveApplication and reset.
Teardown(i) ==
    /\ Stopping(i, "closed")
    /\ Previous
    /\ Go(i, "off")
    /\ caps' = [caps EXCEPT ![i] = {}]
    /\ listener' = [listener EXCEPT ![i] = 0]
    /\ gone' = [gone EXCEPT ![i] = @ \cup ({listener[i]} \ {0})]
    /\ endpoint' = [endpoint EXCEPT ![i] = 0]
    /\ UNCHANGED <<host, pc, order, failed, unfinished, entries, activated, stack, frontVars>>

\* Shutdown of a runtime that never started, or that stopped itself.
ShutdownNotStarted(i) ==
    /\ Stopping(i, "off")
    /\ Previous
    /\ UNCHANGED <<host, pc, order, failed, unfinished, runtimeVars, stack, endpointVars, frontVars>>

Exit ==
    /\ pc = "stop"
    /\ at = 0
    /\ pc' = "exited"
    /\ UNCHANGED <<host, order, at, failed, unfinished, runtimeVars, stack, endpointVars, frontVars>>

----------------------------------------------------------------------------
(* guests *)

\* A released step loop takes the event that waits, or ticks by itself.
BeginStep(i) ==
    /\ activated
    /\ phase[i] \in Looping
    /\ Idle(<<"loop", i>>)
    /\ Enter(<<"loop", i>>, i)
    /\ queue' = [queue EXCEPT ![i] = FALSE]
    /\ UNCHANGED <<mainVars, runtimeVars, endpointVars, polling, gateway, request>>

\* CallProvider by an operator command or the lifecycle observer.
OperatorCall(i) ==
    /\ phase[i] \in Accessible
    /\ Idle(<<"operator", i>>)
    /\ Enter(<<"operator", i>>, i)
    /\ UNCHANGED <<mainVars, runtimeVars, endpointVars, frontVars>>

CellOf(frame) == CHOOSE c \in Physical(Entry(frame.at)) : c.name = frame.cell

\* pulp_app_call_v1: the route is complete, the call is allowed, acquire finds
\* the target, and the named cell declares the provider.
CrossCall(t, j, cell, p) ==
    /\ ~Idle(t)
    /\ LET from == Last(stack[t]) IN allowsCrossApplicationCall(host, from.at, CellOf(from), j, p)
    /\ j \in entries
    /\ callDeclaredProvider(host, j, cell, p)
    /\ Push(t, [at |-> j, cell |-> cell, provider |-> p])
    /\ UNCHANGED <<mainVars, runtimeVars, endpointVars, frontVars>>

\* The innermost guest returns: of a call to its caller, of a step to the loop.
\* The end of pulp_init is EndInit or StartFails.
Return(t) ==
    /\ ~Idle(t)
    /\ Len(stack[t]) = 1 => ~(t[1] = "loop" /\ phase[t[2]] = "init")
    /\ stack' = [stack EXCEPT ![t] = Front(@)]
    /\ UNCHANGED <<mainVars, runtimeVars, endpointVars, frontVars>>

----------------------------------------------------------------------------
(* listeners, events and requests *)

\* An extension replaces its listener by one at address a, which may be the
\* address of the old one; the Gone of that one is under way.
MoveListener(i, a) ==
    /\ a = listener[i] \/ i[1] \in Moving
    /\ phase[i] = "ready"
    /\ listener[i] # 0
    /\ listener' = [listener EXCEPT ![i] = a]
    /\ gone' = [gone EXCEPT ![i] = @ \cup {listener[i]}]
    /\ UNCHANGED <<mainVars, runtimeVars, stack, endpoint, frontVars>>

\* Ready is refused while another address of the application is visible, and
\* changes nothing if it is this one; the extension tries again.
Ready(i) ==
    /\ phase[i] = "ready"
    /\ listener[i] # 0
    /\ endpoint[i] = 0
    /\ endpoint' = [endpoint EXCEPT ![i] = listener[i]]
    /\ UNCHANGED <<mainVars, runtimeVars, stack, listener, gone, frontVars>>

\* Faulty variant: Gone does not compare addresses.
GoneAny(i, a) ==
    /\ a \in gone[i]
    /\ endpoint' = [endpoint EXCEPT ![i] = 0]
    /\ UNCHANGED <<mainVars, runtimeVars, stack, listener, gone, frontVars>>

\* Gone removes the address it names and nothing else, however often and late
\* it comes, and whichever listener has that address now.
Gone(i, a) ==
    /\ a \in gone[i]
    /\ endpoint' = [endpoint EXCEPT ![i] = IF @ = a THEN 0 ELSE @]
    /\ UNCHANGED <<mainVars, runtimeVars, stack, listener, gone, frontVars>>

\* The pollster of the HTTP capability delivers an event to the cell its
\* routing identity names.
Deliver(i) ==
    /\ polling
    /\ HTTP \in Declared(i)
    /\ ~queue[i]
    /\ queue' = [queue EXCEPT ![i] = TRUE]
    /\ UNCHANGED <<mainVars, runtimeVars, stack, endpointVars, polling, gateway, request>>

Accept(path) ==
    /\ gateway = "serving"
    /\ request = NoRequest
    /\ request' = [state |-> "accepted", path |-> path]
    /\ UNCHANGED <<mainVars, runtimeVars, stack, endpointVars, queue, polling, gateway>>

\* ServeHTTP: the health path is answered here, to a GET or HEAD; else the first
\* matching route, and the address of its target, which waits for Start or
\* Shutdown of that target (r.mu).
Serve ==
    /\ request.state = "accepted"
    /\ LET routes == GatewayRoutes(host)
           k == MatchedRoute(routes, request.path)
           i == RouteTarget(host, routes[k])
       IN \/ host.health # NoHealth /\ request.path = host.health /\ request' = NoRequest
          \/ k = 0 /\ request' = NoRequest
          \/ /\ k # 0
             /\ phase[i] \in {"ready", "off"}
             /\ request' = IF phase[i] = "off" \/ endpoint[i] = 0 THEN NoRequest
                           ELSE [state |-> "proxied", path |-> request.path, to |-> i]
    /\ UNCHANGED <<mainVars, runtimeVars, stack, endpointVars, queue, polling, gateway>>

\* The application has answered, or its connection is gone.
Respond ==
    /\ request.state = "proxied"
    /\ request' = NoRequest
    /\ UNCHANGED <<mainVars, runtimeVars, stack, endpointVars, queue, polling, gateway>>

----------------------------------------------------------------------------

Boot(i) ==
    \/ Plan(i) \/ PlanFails(i)
    \/ SetupCapability(i) \/ SetupFails(i)
    \/ BeginInit(i) \/ EndInit(i)
    \/ MarkReady(i) \/ Observed(i) \/ StartFails(i)

Stop(i) ==
    \/ MarkUnavailable(i) \/ Revoke(i) \/ CancelSteps(i)
    \/ CloseCells(i) \/ Teardown(i) \/ ShutdownNotStarted(i)

Calls(t) == \E j \in Instances : \E c \in Physical(Entry(j)) : \E p \in c.provides : CrossCall(t, j, c.name, p)

\* Everything that happens beside the main goroutine.
Around ==
    \/ \E i \in Instances :
        \/ BeginStep(i) \/ OperatorCall(i)
        \/ Ready(i) \/ Deliver(i)
        \/ \E a \in 1 .. MaxAddresses : MoveListener(i, a) \/ Gone(i, a)
    \/ \E t \in Goroutine : Calls(t) \/ Return(t)
    \/ \E path \in Paths : Accept(path)
    \/ Serve \/ Respond

Next ==
    \/ LoadApplications \/ RejectManifest
    \/ \E i \in Instances : Boot(i) \/ Stop(i)
    \/ Activate \/ StartPollsters \/ PollstersFail \/ StartGateway \/ GatewayFails
    \/ Signal \/ DrainGateway \/ StopPollsters \/ Exit
    \/ pc # "exited" /\ Around
    \/ pc = "exited" /\ UNCHANGED vars

\* The goroutines that stopLocked waits for: inbound calls, then the calls
\* through the provider access, then the step loop.
Awaited ==
    {t \in Goroutine :
        \/ Stopping(Current, "unpublished") /\ \E k \in 2 .. Len(stack[t]) : stack[t][k].at = Current
        \/ Stopping(Current, "revoked") /\ t = <<"operator", Current>>
        \/ Stopping(Current, "cancelled") /\ t = <<"loop", Current>>}

\* The deepest a goroutine can be in guests: the applications are acyclic.
MaxDepth == Max({Len(h.apps) : h \in Manifests})

\* The main goroutine goes on.  A guest it waits for returns, and one that calls
\* others again and again is ended by the budget of its entry (Interruptible),
\* hence the strong fairness.  Nobody promises that an application answers a
\* request or that a signal comes.
Fairness ==
    /\ WF_vars(DrainGateway \/ StopPollsters \/ Exit \/ \E i \in Instances : Stop(i))
    /\ \A d \in 1 .. MaxDepth :
        SF_vars(pc = "stop" /\ at > 0 /\ \E t \in Awaited : Len(stack[t]) = d /\ Return(t))

Spec == Init /\ [][Next]_vars /\ Fairness

----------------------------------------------------------------------------
(* properties *)

\* What the variables hold once a manifest is loaded.
TypeOK ==
    /\ host \in Manifests
    /\ pc \in {"load", "boot", "activate", "pollsters", "gateway", "up", "drain", "stoppoll", "stop", "exited"}
    /\ order \in Seq(Ids(host) \X Nat) /\ at \in 0 .. Len(order) + 1
    /\ phase \in [Instances -> Loaded \cup {"off", "planned", "closed"}]
    /\ caps \in [Instances -> SUBSET Range(Caps)]
    /\ entries \subseteq Instances /\ unfinished \subseteq Instances
    /\ activated \in BOOLEAN /\ polling \in BOOLEAN /\ failed \in BOOLEAN
    /\ stack \in [Goroutine -> Seq(Frame)]
    /\ listener \in [Instances -> 0 .. MaxAddresses] /\ endpoint \in [Instances -> 0 .. MaxAddresses]
    /\ gone \in [Instances -> SUBSET (1 .. MaxAddresses)]
    /\ queue \in [Instances -> BOOLEAN]
    /\ gateway \in {"none", "serving", "draining", "expired", "closed"}
    /\ request.state \in {"none", "accepted", "proxied"}

\* While the cells of an instance are loaded, every instance of every
\* application it depends on is published: start order, roll-back and shutdown
\* order of the supervisor together (multihost.go), whatever fails.
DependencyOutlivesDependent ==
    \A i, j \in Instances :
        phase[i] \in Loaded /\ j[1] \in DependsOn(host, i[1]) => j \in entries

\* No goroutine is inside a guest whose cells are closed or not yet loaded:
\* what markUnavailable, revoke and the join of the step loops are for.
CallsStayInside ==
    \A t \in Goroutine : \A k \in DOMAIN stack[t] : phase[stack[t][k].at] \in Loaded

\* The listener of an instance that serves is open and visible, and stays open.
ListenerServes(i) ==
    /\ phase[i] = "ready" /\ phase'[i] = "ready"
    /\ listener[i] # 0 /\ endpoint[i] = listener[i] /\ listener'[i] = listener[i]

\* It stays visible too: late and repeated Gone notifications of listeners that
\* had other addresses do not take it away, whatever moves there were.
VisibleListenerStays ==
    [][\A i \in Instances :
        ListenerServes(i) /\ listener[i] \notin gone[i] => endpoint'[i] = endpoint[i]]_vars

\* What the comment on Gone says (run/endpoint_registry.go:68-69), of any
\* replacement: a late teardown notification cannot erase it.
ReplacementStays ==
    [][\A i \in Instances : ListenerServes(i) => endpoint'[i] = endpoint[i]]_vars

\* When the host has ended, after a signal or a failed boot, nothing is left:
\* no instance published or loaded, no goroutine in a guest, no capability set
\* up, no endpoint visible, no event without Finalize, no pollster.  The one
\* exception is an instance whose setupCapabilities failed: what it had set up
\* is not torn down.
ExitLeavesNothing ==
    pc = "exited" =>
        /\ ~polling
        /\ entries = {}
        /\ \A i \in Instances : phase[i] = "off" /\ ~queue[i]
        /\ \A t \in Goroutine : Idle(t)
        /\ \A i \in Instances \ unfinished : caps[i] = {} /\ endpoint[i] = 0

\* A shutdown ends: no goroutine of the host waits for ever for another one,
\* and a request that is never answered does not keep the host alive.
HostExits == pc \in {"drain", "stoppoll", "stop"} ~> pc = "exited"

=============================================================================
