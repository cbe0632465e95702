------------------------------ MODULE Discovery ------------------------------
(***************************************************************************)
(* Service discovery: how an executor process registers itself in etcd     *)
(* under the lease of its session, and how the resolver of a client        *)
(* channel follows the registry through a watch and full lists.            *)
(*                                                                         *)
(* Source: pkg/grpc/server.go, pkg/grpc/registry/etcd/registry.go,         *)
(* pkg/grpc/resolver.go.  The SDK of etcd (leases, watches) and gRPC (who  *)
(* calls the resolver) are external: see the comments of their actions.    *)
(*                                                                         *)
(* An instance is one run of a server process; its session, and so its     *)
(* lease, lives and dies with it.  A key is the advertised address below   *)
(* the service name; its value is the instance that wrote it.              *)
(***************************************************************************)
EXTENDS Integers, FiniteSets

CONSTANTS
    Servers,      \* executor processes
    Name,         \* Name[s]: configured service name
    Listen,       \* Listen[s]: <<host, port>>
    Advertise,    \* Advertise[s]: configured address or Unset
    PodIP,        \* PodIP[s], HostIP[s]: environment, or Unset
    HostIP,
    OutboundIP,   \* OutboundIP[s]: what netx.GetOutboundIP finds, or Unset
    Unset,
    Wildcards,    \* the hosts "::" and "0.0.0.0"
    Target,       \* service name the client channel resolves
    StartsWith,   \* pairs <<p, n>> of service names: p is a prefix of n
    NoInstance,
    MaxStarts,    \* bound: MaxStarts[s] starts of server s
    MaxFaults,    \* bound: failing lists, broken watches, sessions lost
                  \* under a living process
    MaxResolves,  \* bound: ResolveNow calls
    MaxBuilds     \* bound: times the channel leaves idle mode

ASSUME DiscoveryAssumption ==
    /\ {MaxFaults, MaxResolves, MaxBuilds} \subseteq Nat
    /\ MaxStarts \in [Servers -> Nat]
    /\ \A s \in Servers : <<Name[s], Name[s]>> \in StartsWith

Instance == UNION {[server : {s}, start : 1..MaxStarts[s]] : s \in Servers}

ASSUME NoInstanceAssumption == NoInstance \notin Instance

----------------------------------------------------------------------------
(* The address a server registers. *)

\* getAdvertiseIP: POD_IP, then HOST_IP, then the address of the route out.
AdvertiseIP(s) ==
    CASE PodIP[s] # Unset -> PodIP[s]
      [] PodIP[s] = Unset /\ HostIP[s] # Unset -> HostIP[s]
      [] OTHER -> OutboundIP[s]

\* resolveAdvertiseAddress; Unset if no address is found.
AdvertisedAddress(s) ==
    CASE Advertise[s] # Unset -> Advertise[s]
      [] Advertise[s] = Unset /\ Listen[s][1] \in Wildcards ->
             IF AdvertiseIP(s) = Unset THEN Unset ELSE <<AdvertiseIP(s), Listen[s][2]>>
      [] OTHER -> Listen[s]

\* instanceKey: below the prefix, the service name and the address.
InstanceKey(s) == <<Name[s], AdvertisedAddress(s)>>

Keys == {InstanceKey(s) : s \in Servers}

----------------------------------------------------------------------------
VARIABLES
    server,     \* the processes: where they are, how often they started, and
                \* whether their session was lost while they live
    key,        \* the keys of the registry in etcd
    rev,        \* etcd revision: changes of the keys so far
    channel,    \* the client channel: "idle", "building" or "open"
    sub,        \* the subscription of the resolver
    resolve,    \* the two goroutines that may run resolve()
    addresses,  \* the answer the resolver last handed to gRPC
    newest,     \* revision of the newest answer handed to gRPC
    bound       \* how often the bounded faults and calls have happened

vars == <<server, key, rev, channel, sub, resolve, addresses, newest, bound>>
clientVars == <<channel, resolve, addresses, newest>>

\* gRPC calls Build and ResolveNow one at a time; watch is the resolver's own.
Callers == {"grpc", "watch"}

Answer == [phase : {"idle", "listed"}, ok : BOOLEAN, nodes : SUBSET Servers, rev : Nat]

NoAnswer == [phase |-> "idle", ok |-> TRUE, nodes |-> {}, rev |-> 0]

NoSubscription == [phase |-> "none", from |-> 0, pending |-> 0]

Init ==
    /\ server = [s \in Servers |-> [phase |-> "down", start |-> 0, lost |-> FALSE]]
    /\ key = [k \in Keys |-> NoInstance]
    /\ rev = 0
    /\ channel = "idle" /\ sub = NoSubscription
    /\ resolve = [c \in Callers |-> NoAnswer]
    /\ addresses = NoAnswer /\ newest = 0
    /\ bound = [faults |-> 0, resolves |-> 0, builds |-> 0]

Self(s) == [server |-> s, start |-> server[s].start]

\* serviceKey WithPrefix: the list and the watch also match longer names.
Matches(k) == <<Target, k[1]>> \in StartsWith

Listed == {key[k].server : k \in {k \in Keys : key[k] # NoInstance /\ Matches(k)}}

\* A write or a deletion of the keys in ks: a watch that covers them gets one
\* event for each.
Change(ks, value) ==
    /\ key' = [k \in Keys |-> IF k \in ks THEN value ELSE key[k]]
    /\ LET n == Cardinality({k \in ks : Matches(k)})
       IN  /\ rev' = rev + n
           /\ sub' = IF sub.phase = "subscribed" THEN [sub EXCEPT !.pending = @ + n] ELSE sub

----------------------------------------------------------------------------
(* The server process. *)

\* Mutant of StartServer: a key that exists keeps its value and its lease.
StartServerIfAbsent(s) ==
    /\ server[s].phase = "down" /\ server[s].start < MaxStarts[s]
    /\ AdvertisedAddress(s) # Unset
    /\ server' = [server EXCEPT ![s] =
                     [phase |-> "serving", start |-> @.start + 1, lost |-> FALSE]]
    /\ IF key[InstanceKey(s)] = NoInstance THEN Change({InstanceKey(s)}, Self(s)')
       ELSE UNCHANGED <<key, rev, sub>>
    /\ UNCHANGED <<clientVars, bound>>

\* NewRegistry opens a session; startServer listens, and register puts the key
\* with the lease of the session, over an older one.  If no address is found or
\* the put fails, the process gives up and leaves nothing behind.
StartServer(s) ==
    /\ server[s].phase = "down" /\ server[s].start < MaxStarts[s]
    /\ AdvertisedAddress(s) # Unset
    /\ server' = [server EXCEPT ![s] =
                     [phase |-> "serving", start |-> @.start + 1, lost |-> FALSE]]
    /\ Change({InstanceKey(s)}, Self(s)')
    /\ UNCHANGED <<clientVars, bound>>

\* GracefulStop, and Stop through Close: the key is deleted whatever its value,
\* or the error is logged.  What follows until the process is gone leaves the
\* registry alone, its session included, which is not closed.
StopServer(s) ==
    /\ server[s].phase = "serving"
    /\ key[InstanceKey(s)] # NoInstance
    /\ Change({InstanceKey(s)}, NoInstance)
    /\ server' = [server EXCEPT ![s].phase = "down", ![s].lost = FALSE]
    /\ UNCHANGED <<clientVars, bound>>

\* The process dies, or stops without being able to delete its key.
Die(s) ==
    /\ server[s].phase = "serving"
    /\ server' = [server EXCEPT ![s].phase = "down", ![s].lost = FALSE]
    /\ UNCHANGED <<key, rev, sub, clientVars, bound>>

Runs(i) == server[i.server].phase = "serving" /\ server[i.server].start = i.start

\* Mutant of ExpireLease: the value is attached to the lease, not the key.
ExpireLeaseKeepsKey(i) ==
    /\ key[InstanceKey(i.server)] = i
    /\ IF Runs(i)
       THEN /\ ~server[i.server].lost /\ bound.faults < MaxFaults
            /\ server' = [server EXCEPT ![i.server].lost = TRUE]
            /\ bound' = [bound EXCEPT !.faults = @ + 1]
            /\ Change({InstanceKey(i.server)}, NoInstance)
       ELSE UNCHANGED <<server, bound, key, rev, sub>>
    /\ UNCHANGED clientVars

\* etcd: a lease that is not kept alive expires and takes the keys that were put
\* with it along, also under a living process that could not reach etcd.
ExpireLease(i) ==
    /\ key[InstanceKey(i.server)] = i
    /\ Change({InstanceKey(i.server)}, NoInstance)
    /\ IF Runs(i)
       THEN /\ ~server[i.server].lost /\ bound.faults < MaxFaults
            /\ server' = [server EXCEPT ![i.server].lost = TRUE]
            /\ bound' = [bound EXCEPT !.faults = @ + 1]
       ELSE UNCHANGED <<server, bound>>
    /\ UNCHANGED clientVars

----------------------------------------------------------------------------
(* The resolver of the client channel. *)

\* ListServices: one consistent read, or an error or a timeout.
ListServices(c, ok) ==
    resolve' = [resolve EXCEPT ![c] =
                   [phase |-> "listed", ok |-> ok, nodes |-> IF ok THEN Listed ELSE {},
                    rev |-> rev]]

Counts(calls, ok) ==
    /\ ok \/ bound.faults < MaxFaults
    /\ bound' = [f \in DOMAIN bound |->
                    IF f \in calls \/ (~ok /\ f = "faults") THEN bound[f] + 1 ELSE bound[f]]

\* Build, when a call finds the channel idle: resolve now, watch afterwards.
Build(ok) ==
    /\ channel = "idle" /\ bound.builds < MaxBuilds
    /\ channel' = "building"
    /\ ListServices("grpc", ok) /\ Counts({"builds"}, ok)
    /\ UNCHANGED <<server, key, rev, sub, addresses, newest>>

\* gRPC calls ResolveNow when a connection breaks or cannot be made.
ResolveNow(ok) ==
    /\ channel = "open" /\ resolve["grpc"].phase = "idle"
    /\ bound.resolves < MaxResolves
    /\ ListServices("grpc", ok) /\ Counts({"resolves"}, ok)
    /\ UNCHANGED <<server, key, rev, channel, sub, addresses, newest>>

\* Subscribe: the watch reports what changes from now on.
Subscribe ==
    /\ channel = "open" /\ sub.phase = "none"
    /\ sub' = [phase |-> "subscribed", from |-> rev, pending |-> 0]
    /\ UNCHANGED <<server, key, rev, clientVars, bound>>

\* Mutant of WatchEvent: events that are waiting together are taken as one,
\* and one that finds a ResolveNow in progress is taken as answered by it.
WatchEventSkips(ok) ==
    /\ channel = "open" /\ sub.pending > 0 /\ resolve["watch"].phase = "idle"
    /\ sub' = [sub EXCEPT !.pending = @ - 1]
    /\ IF resolve["grpc"].phase = "listed" THEN ok /\ UNCHANGED <<resolve, bound>>
       ELSE ListServices("watch", ok) /\ Counts({}, ok)
    /\ UNCHANGED <<server, key, rev, channel, addresses, newest>>

\* Every event, whatever it says, makes the watch loop list everything.
WatchEvent(ok) ==
    /\ channel = "open" /\ sub.pending > 0 /\ resolve["watch"].phase = "idle"
    /\ sub' = [sub EXCEPT !.pending = @ - 1]
    /\ ListServices("watch", ok) /\ Counts({}, ok)
    /\ UNCHANGED <<server, key, rev, channel, addresses, newest>>

\* A cancelled watch ends the goroutine of the subscription; nobody subscribes
\* again, and what the watch had not delivered is gone.
WatchBreaks ==
    /\ sub.phase = "subscribed" /\ bound.faults < MaxFaults
    /\ sub' = [sub EXCEPT !.phase = "broken", !.pending = 0]
    /\ Counts({"faults"}, TRUE)
    /\ UNCHANGED <<server, key, rev, clientVars>>

\* Mutant of UpdateState: the goroutine of the watch gives up on an answer
\* while the other one has one at hand.
UpdateStateUnlessBusy(c) ==
    /\ resolve[c].phase = "listed"
    /\ channel' = "open"
    /\ IF c = "watch" /\ resolve["grpc"].phase = "listed" THEN UNCHANGED <<addresses, newest>>
       ELSE /\ addresses' = resolve[c]
            /\ newest' = IF resolve[c].rev > newest THEN resolve[c].rev ELSE newest
    /\ resolve' = [resolve EXCEPT ![c] = NoAnswer]
    /\ UNCHANGED <<server, key, rev, sub, bound>>

\* The list is handed to gRPC, an empty one after an error, in the order in
\* which the two goroutines get there.
UpdateState(c) ==
    /\ resolve[c].phase = "listed"
    /\ channel' = "open"
    /\ addresses' = resolve[c]
    /\ newest' = IF resolve[c].rev > newest THEN resolve[c].rev ELSE newest
    /\ resolve' = [resolve EXCEPT ![c] = NoAnswer]
    /\ UNCHANGED <<server, key, rev, sub, bound>>

\* Mutant of Close: the watch loop is not told to end.
CloseKeepsWatch ==
    /\ channel = "open"
    /\ channel' = "idle"
    /\ resolve' = [c \in Callers |-> NoAnswer]
    /\ addresses' = NoAnswer /\ newest' = 0
    /\ UNCHANGED <<server, key, rev, sub, bound>>

\* gRPC lets an unused channel go idle: the watch loop ends (its subscription
\* stays behind, unread) and answers that are late are ignored.
Close ==
    /\ channel = "open"
    /\ channel' = "idle"
    /\ resolve' = [c \in Callers |-> NoAnswer]
    /\ sub' = NoSubscription
    /\ addresses' = NoAnswer /\ newest' = 0
    /\ UNCHANGED <<server, key, rev, bound>>

----------------------------------------------------------------------------
Serving(s) ==
    StartServer(s) \/ StopServer(s) \/ Die(s)

Next ==
    \/ \E s \in Servers : Serving(s)
    \/ \E i \in Instance : ExpireLease(i)
    \/ \E ok \in BOOLEAN : Build(ok) \/ ResolveNow(ok) \/ WatchEvent(ok)
    \/ Subscribe \/ WatchBreaks \/ Close
    \/ \E c \in Callers : UpdateState(c)

Spec == Init /\ [][Next]_vars

\* etcd expires dead leases; goroutines run on and lists come back or time out.
FairSpec ==
    /\ Spec
    /\ \A i \in Instance : WF_vars(~Runs(i) /\ ExpireLease(i))
    /\ WF_vars(Subscribe)
    /\ WF_vars(\E ok \in BOOLEAN : WatchEvent(ok))
    /\ \A c \in Callers : WF_vars(UpdateState(c))

----------------------------------------------------------------------------
(* Properties. *)

\* Type invariant; keys were put by starts that happened, answers are never
\* ahead of the registry, and an idle channel watches nothing.
TypeOK ==
    /\ server \in [Servers -> [phase : {"down", "serving"},
                               start : Nat, lost : BOOLEAN]]
    /\ \A s \in Servers : server[s].start <= MaxStarts[s]
    /\ key \in [Keys -> Instance \cup {NoInstance}]
    /\ \A k \in Keys : key[k] # NoInstance => key[k].start <= server[key[k].server].start
    /\ channel \in {"idle", "building", "open"}
    /\ rev \in Nat
    /\ sub \in [phase : {"none", "subscribed", "broken"}, from : Nat, pending : Nat]
    /\ sub.from <= rev
    /\ channel = "idle" => sub.phase = "none"
    /\ resolve \in [Callers -> Answer] /\ addresses \in Answer
    /\ \A c \in Callers : resolve[c].rev <= rev
    /\ newest \in Nat /\ newest <= rev

\* A server that serves is in the registry under its present session, also
\* when it came back before the lease of its predecessor expired, unless the
\* session was lost under the living process (nobody registers it again) or
\* another server with the same advertised address took the key over.
ServingIsRegistered ==
    \A s \in Servers : server[s].phase = "serving" =>
        \/ key[InstanceKey(s)] = Self(s)
        \/ server[s].lost
        \/ \E t \in Servers \ {s} : InstanceKey(t) = InstanceKey(s)

\* No resolve is in progress or due.
Settled ==
    /\ channel = "open" /\ sub.phase = "subscribed" /\ sub.pending = 0
    /\ \A c \in Callers : resolve[c].phase = "idle"

\* When everything is settled gRPC has the present list of servers, except for
\* the three ways the code can leave it with another: the last list failed, an
\* older list arrived after a newer one, or the only change was made between
\* the first list and the subscription.
SettledIsCurrent ==
    Settled /\ addresses.nodes # Listed =>
        \/ ~addresses.ok
        \/ addresses.rev < newest
        \/ sub.from = rev /\ addresses.rev < sub.from

\* A change the watch covers is answered to gRPC, by a list made after it or by
\* the error of one, unless the watch breaks or the channel goes idle.
ChangeIsFollowed ==
    (sub.phase = "subscribed" /\ sub.from < rev) ~> (newest = rev \/ sub.phase # "subscribed")

\* A server that is gone leaves the registry.
DeadIsForgotten ==
    \A i \in Instance :
        (key[InstanceKey(i.server)] = i /\ ~Runs(i)) ~> key[InstanceKey(i.server)] # i
=============================================================================
