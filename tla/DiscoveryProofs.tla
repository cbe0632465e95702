--------------------------- MODULE DiscoveryProofs ---------------------------
(***************************************************************************)
(* Proofs about Discovery, for every set of servers, all names, addresses  *)
(* and prefix relations, and every bound on starts, faults and calls.      *)
(***************************************************************************)
EXTENDS Discovery, TLAPS, FiniteSetTheorems

----------------------------------------------------------------------------
(* The inductive invariant. *)

\* A list of the present revision names the servers that are registered.
IsTrue(a) == a.phase = "listed" /\ a.ok /\ a.rev = rev => a.nodes = Listed

AnswersAreTrue == IsTrue(addresses) /\ \A c \in Callers : IsTrue(resolve[c])

\* gRPC was handed something when the channel is open, and "newest" says how new
\* it can be.
GivenIsCounted ==
    /\ channel = "open" => addresses.phase = "listed"
    /\ addresses.rev <= newest

\* A change the watch covers waits as an event, is being answered, or was.
WatchIsFollowed ==
    sub.phase = "subscribed" /\ sub.from < rev =>
        \/ sub.pending > 0
        \/ \E c \in Callers : resolve[c].phase = "listed" /\ resolve[c].rev = rev
        \/ newest = rev

DiscoveryInv ==
    TypeOK /\ ServingIsRegistered /\ AnswersAreTrue /\ GivenIsCounted /\ WatchIsFollowed

\* Initially nothing is registered and nobody has asked.
LEMMA InitInv == Init => DiscoveryInv
<1>. SUFFICES ASSUME Init PROVE DiscoveryInv
    OBVIOUS
<1>1. NoAnswer \in Answer /\ NoAnswer.rev = 0 /\ NoAnswer.phase = "idle"
    BY DEF NoAnswer, Answer
<1>2. TypeOK
    <2>1. \A s \in Servers : MaxStarts[s] \in Nat
        BY DiscoveryAssumption
    <2>2. NoSubscription \in [phase : {"none", "subscribed", "broken"}, from : Nat, pending : Nat]
          /\ NoSubscription.from = 0 /\ NoSubscription.phase = "none"
        BY DEF NoSubscription
    <2>. QED
        BY <1>1, <2>1, <2>2 DEF Init, TypeOK
<1>3. ServingIsRegistered
    BY DEF Init, ServingIsRegistered
<1>4. AnswersAreTrue /\ GivenIsCounted
    BY <1>1 DEF Init, AnswersAreTrue, IsTrue, GivenIsCounted
<1>5. WatchIsFollowed
    BY DEF Init, WatchIsFollowed, NoSubscription
<1>. QED
    BY <1>2, <1>3, <1>4, <1>5 DEF DiscoveryInv

----------------------------------------------------------------------------
(* What a change of one key does. *)

Subscription == [phase : {"none", "subscribed", "broken"}, from : Nat, pending : Nat]

\* Either the client's service is not concerned, and its list stays what it was,
\* or the revision moves on and an open watch has one event more.
LEMMA ChangeStep ==
    ASSUME TypeOK, NEW s \in Servers, NEW v \in Instance \cup {NoInstance},
           Change({InstanceKey(s)}, v)
    PROVE  /\ key' \in [Keys -> Instance \cup {NoInstance}]
           /\ \A k \in Keys : key'[k] = IF k = InstanceKey(s) THEN v ELSE key[k]
           /\ rev' \in Nat /\ rev' >= rev
           /\ sub' \in Subscription /\ sub'.phase = sub.phase /\ sub'.from = sub.from
           /\ \/ rev' = rev /\ Listed' = Listed /\ sub'.pending = sub.pending
              \/ /\ rev' = rev + 1
                 /\ sub.phase = "subscribed" => sub'.pending = sub.pending + 1
<1>. DEFINE ks == {k \in {InstanceKey(s)} : Matches(k)}
            n == Cardinality(ks)
<1>1. /\ key' = [k \in Keys |-> IF k \in {InstanceKey(s)} THEN v ELSE key[k]]
      /\ rev' = rev + n
      /\ sub' = IF sub.phase = "subscribed" THEN [sub EXCEPT !.pending = @ + n] ELSE sub
    BY DEF Change
<1>2. key' \in [Keys -> Instance \cup {NoInstance}]
    BY <1>1 DEF TypeOK
<1>3. (n = 0 /\ ~Matches(InstanceKey(s))) \/ n = 1
    <2>1. CASE Matches(InstanceKey(s))
        <3>1. ks = {InstanceKey(s)}
            BY <2>1
        <3>. QED
            BY <3>1, FS_Singleton
    <2>2. CASE ~Matches(InstanceKey(s))
        <3>1. ks = {}
            BY <2>2
        <3>. QED
            BY <2>2, <3>1, FS_EmptySet
    <2>. QED
        BY <2>1, <2>2
<1>4. ~Matches(InstanceKey(s)) => Listed' = Listed
    <2>. SUFFICES ASSUME ~Matches(InstanceKey(s)) PROVE Listed' = Listed
        OBVIOUS
    <2>1. {k \in Keys : key'[k] # NoInstance /\ Matches(k)}
              = {k \in Keys : key[k] # NoInstance /\ Matches(k)}
        BY <1>1
    <2>2. \A k \in Keys : Matches(k) => key'[k] = key[k]
        BY <1>1
    <2>. QED
        BY <2>1, <2>2 DEF Listed, Matches
<1>. HIDE DEF n
<1>5. rev \in Nat /\ sub \in Subscription /\ sub.pending \in Nat
    BY DEF TypeOK, Subscription
<1>6. /\ sub' \in Subscription /\ sub'.phase = sub.phase /\ sub'.from = sub.from
      /\ sub.phase = "subscribed" => sub'.pending = sub.pending + n
      /\ sub.phase # "subscribed" => sub'.pending = sub.pending
    BY <1>1, <1>3, <1>5 DEF Subscription
<1>. QED
    BY <1>1, <1>2, <1>3, <1>4, <1>5, <1>6
\* An answer has nothing to do with the revision to come.
LEMMA AnswerIsBehind ==
    ASSUME DiscoveryInv
    PROVE  /\ rev \in Nat
           /\ addresses.rev \in Nat /\ addresses.rev <= rev
           /\ \A c \in Callers : resolve[c].rev \in Nat /\ resolve[c].rev <= rev
<1>1. /\ newest \in Nat /\ newest <= rev /\ rev \in Nat
      /\ addresses \in Answer /\ addresses.rev <= newest
      /\ \A c \in Callers : resolve[c] \in Answer /\ resolve[c].rev <= rev
    BY DEF DiscoveryInv, TypeOK, GivenIsCounted
<1>. QED
    BY <1>1 DEF Answer

\* What a change of the registry leaves of the client's side of the invariant.
LEMMA ChangeKeepsClient ==
    ASSUME DiscoveryInv, NEW s \in Servers, NEW v \in Instance \cup {NoInstance},
           Change({InstanceKey(s)}, v), UNCHANGED clientVars
    PROVE  /\ AnswersAreTrue' /\ GivenIsCounted' /\ WatchIsFollowed'
           /\ rev' \in Nat /\ sub' \in Subscription /\ sub'.from <= rev'
           /\ channel' \in {"idle", "building", "open"}
           /\ channel' = "idle" => sub'.phase = "none"
           /\ resolve' \in [Callers -> Answer] /\ addresses' \in Answer
           /\ \A c \in Callers : resolve'[c].rev <= rev'
           /\ newest' \in Nat /\ newest' <= rev'
<1>. USE DEF DiscoveryInv
<1>1. /\ rev' \in Nat /\ rev' >= rev
      /\ sub' \in Subscription /\ sub'.phase = sub.phase /\ sub'.from = sub.from
      /\ \/ rev' = rev /\ Listed' = Listed /\ sub'.pending = sub.pending
         \/ /\ rev' = rev + 1
            /\ sub.phase = "subscribed" => sub'.pending = sub.pending + 1
    BY ChangeStep
<1>2. /\ rev \in Nat /\ newest \in Nat /\ newest <= rev
      /\ sub.pending \in Nat /\ sub.from \in Nat /\ sub.from <= rev
    BY DEF TypeOK
<1>3. /\ addresses.rev \in Nat /\ addresses.rev <= rev
      /\ \A c \in Callers : resolve[c].rev \in Nat /\ resolve[c].rev <= rev
    BY AnswerIsBehind
<1>4. channel' = channel /\ resolve' = resolve /\ addresses' = addresses /\ newest' = newest
    BY DEF clientVars
<1>5. AnswersAreTrue'
    BY <1>1, <1>2, <1>3, <1>4 DEF AnswersAreTrue, IsTrue
<1>6. GivenIsCounted'
    BY <1>4 DEF GivenIsCounted
<1>7. WatchIsFollowed'
    <2>1. CASE rev' = rev /\ sub'.pending = sub.pending
        BY <1>1, <1>4, <2>1 DEF WatchIsFollowed
    <2>2. CASE sub.phase = "subscribed" => sub'.pending = sub.pending + 1
        BY <1>1, <1>2, <2>2 DEF WatchIsFollowed
    <2>. QED
        BY <1>1, <2>1, <2>2
<1>8. /\ channel' \in {"idle", "building", "open"}
      /\ channel' = "idle" => sub'.phase = "none"
      /\ resolve' \in [Callers -> Answer] /\ addresses' \in Answer
    BY <1>1, <1>4 DEF TypeOK
<1>9. /\ sub'.from <= rev' /\ newest' \in Nat /\ newest' <= rev'
      /\ \A c \in Callers : resolve'[c].rev <= rev'
    BY <1>1, <1>2, <1>3, <1>4
<1>. QED
    BY <1>1, <1>5, <1>6, <1>7, <1>8, <1>9

----------------------------------------------------------------------------
(* The server processes and etcd. *)

Process == [phase : {"down", "serving"}, start : Nat, lost : BOOLEAN]

\* What the type invariant says of the processes and their keys.
ServersOK ==
    /\ server \in [Servers -> Process]
    /\ \A s \in Servers : server[s].start <= MaxStarts[s]
    /\ key \in [Keys -> Instance \cup {NoInstance}]
    /\ \A k \in Keys : key[k] # NoInstance => key[k].start <= server[key[k].server].start

\* An instance belongs to a server of the set.
LEMMA InstanceType ==
    ASSUME NEW i \in Instance
    PROVE  i.server \in Servers /\ i.start \in Nat
BY DiscoveryAssumption DEF Instance

\* A new process writes its key, whoever it was left by.
LEMMA StartServerStep ==
    ASSUME DiscoveryInv, NEW s \in Servers, StartServer(s)
    PROVE  DiscoveryInv'
<1>. USE DEF DiscoveryInv
<1>. DEFINE v == [server |-> s, start |-> server[s].start + 1]
            p == [phase |-> "serving", start |-> server[s].start + 1, lost |-> FALSE]
<1>1. /\ server[s] \in Process /\ server[s].start \in Nat /\ server[s].start < MaxStarts[s]
      /\ MaxStarts[s] \in Nat /\ server[s].phase = "down"
    BY DiscoveryAssumption DEF TypeOK, Process, StartServer
<1>2. server' = [server EXCEPT ![s] = p] /\ server \in [Servers -> Process]
    BY DEF StartServer, TypeOK, Process
<1>3. p \in Process /\ v \in Instance /\ p.start = server[s].start + 1
    BY <1>1 DEF Process, Instance
<1>4. Self(s)' = v
    BY <1>2, <1>3 DEF Self
<1>5. Change({InstanceKey(s)}, v) /\ UNCHANGED clientVars
    BY <1>4 DEF StartServer
<1>6. /\ key' \in [Keys -> Instance \cup {NoInstance}]
      /\ \A k \in Keys : key'[k] = IF k = InstanceKey(s) THEN v ELSE key[k]
    BY <1>3, <1>5, ChangeStep
<1>7. v # NoInstance /\ v.server = s /\ v.start = server[s].start + 1
    BY <1>3, NoInstanceAssumption
<1>. HIDE DEF v, p
<1>8. ServersOK'
    <2>1. server' \in [Servers -> Process] /\ server'[s].start = server[s].start + 1
        BY <1>2, <1>3
    <2>2. \A t \in Servers : server'[t].start <= MaxStarts[t]
        BY <1>1, <1>2, <2>1 DEF TypeOK
    <2>3. ASSUME NEW k \in Keys, key'[k] # NoInstance
          PROVE  key'[k].start <= server'[key'[k].server].start
        <3>1. CASE k = InstanceKey(s)
            BY <1>1, <1>6, <1>7, <2>1, <3>1
        <3>2. CASE k # InstanceKey(s)
            <4>1. key'[k] = key[k] /\ key[k] \in Instance
                BY <1>6, <2>3, <3>2
            <4>2. key[k].server \in Servers /\ key[k].start \in Nat
                BY <4>1, InstanceType
            <4>3. key[k].start <= server[key[k].server].start
                BY <2>3, <4>1 DEF TypeOK
            <4>4. CASE key[k].server = s
                BY <1>1, <2>1, <4>1, <4>2, <4>3, <4>4
            <4>5. CASE key[k].server # s
                BY <1>2, <4>1, <4>2, <4>3, <4>5
            <4>. QED
                BY <4>4, <4>5
        <3>. QED
            BY <3>1, <3>2
    <2>. QED
        BY <1>6, <2>1, <2>2, <2>3 DEF ServersOK
<1>9. ServingIsRegistered'
    <2>. SUFFICES ASSUME NEW t \in Servers, server'[t].phase = "serving"
                  PROVE  \/ key'[InstanceKey(t)] = Self(t)'
                         \/ server'[t].lost
                         \/ \E u \in Servers \ {t} : InstanceKey(u) = InstanceKey(t)
        BY DEF ServingIsRegistered, InstanceKey, AdvertisedAddress, AdvertiseIP
    <2>1. CASE t = s
        BY <1>4, <1>6, <2>1 DEF Keys
    <2>2. CASE t # s /\ InstanceKey(t) = InstanceKey(s)
        BY <2>2
    <2>3. CASE InstanceKey(t) # InstanceKey(s)
        <3>1. server'[t] = server[t] /\ Self(t)' = Self(t)
            BY <1>2, <2>3 DEF Self
        <3>2. key'[InstanceKey(t)] = key[InstanceKey(t)]
            BY <1>6, <2>3 DEF Keys
        <3>. QED
            BY <3>1, <3>2 DEF ServingIsRegistered
    <2>. QED
        BY <2>1, <2>2, <2>3
<1>. QED
    BY <1>3, <1>5, <1>8, <1>9, ChangeKeepsClient DEF TypeOK, ServersOK, Process, Subscription

\* A key that is taken away was the key of servers that stopped, that are marked
\* as having lost it, or that share their address.
LEMMA KeyGoes ==
    ASSUME DiscoveryInv, NEW s \in Servers, NEW p \in Process,
           Change({InstanceKey(s)}, NoInstance), UNCHANGED clientVars,
           server' = [server EXCEPT ![s] = p], p.start = server[s].start,
           p.phase = "serving" => server[s].phase = "serving" /\ (server[s].lost => p.lost),
           p.phase = "serving" /\ ~p.lost => key[InstanceKey(s)] # Self(s)
    PROVE  DiscoveryInv'
<1>. USE DEF DiscoveryInv
<1>1. server \in [Servers -> Process] /\ server' \in [Servers -> Process]
    BY DEF TypeOK, Process
<1>2. /\ key' \in [Keys -> Instance \cup {NoInstance}]
      /\ \A k \in Keys : key'[k] = IF k = InstanceKey(s) THEN NoInstance ELSE key[k]
    BY ChangeStep
<1>3. \A t \in Servers : server'[t].start = server[t].start
    BY <1>1
<1>4. ServersOK'
    <2>1. ASSUME NEW k \in Keys, key'[k] # NoInstance
          PROVE  key'[k].start <= server'[key'[k].server].start
        <3>1. key'[k] = key[k] /\ key[k] \in Instance
            BY <1>2, <2>1
        <3>2. key[k].server \in Servers
            BY <3>1, InstanceType
        <3>. QED
            BY <1>3, <2>1, <3>1, <3>2 DEF TypeOK
    <2>. QED
        BY <1>1, <1>2, <1>3, <2>1 DEF ServersOK, TypeOK
<1>5. ServingIsRegistered'
    <2>. SUFFICES ASSUME NEW t \in Servers, server'[t].phase = "serving"
                  PROVE  \/ key'[InstanceKey(t)] = Self(t)'
                         \/ server'[t].lost
                         \/ \E u \in Servers \ {t} : InstanceKey(u) = InstanceKey(t)
        BY DEF ServingIsRegistered
    <2>1. CASE t = s
        BY <1>1, <2>1 DEF ServingIsRegistered
    <2>2. CASE t # s /\ InstanceKey(t) = InstanceKey(s)
        BY <2>2
    <2>3. CASE InstanceKey(t) # InstanceKey(s)
        <3>1. server'[t] = server[t] /\ Self(t)' = Self(t)
            BY <1>3, <2>3 DEF Self
        <3>2. key'[InstanceKey(t)] = key[InstanceKey(t)]
            BY <1>2, <2>3 DEF Keys
        <3>. QED
            BY <3>1, <3>2 DEF ServingIsRegistered
    <2>. QED
        BY <2>1, <2>2, <2>3
<1>. QED
    BY <1>4, <1>5, ChangeKeepsClient DEF TypeOK, ServersOK, Process, Subscription

\* A server that stops takes its key away, and is no longer serving.
LEMMA StopServerStep ==
    ASSUME DiscoveryInv, NEW s \in Servers, StopServer(s)
    PROVE  DiscoveryInv'
<1>. DEFINE p == [server[s] EXCEPT !.phase = "down", !.lost = FALSE]
<1>1. server \in [Servers -> Process] /\ server[s] \in Process
    BY DEF DiscoveryInv, TypeOK, Process
<1>2. server' = [server EXCEPT ![s] = p]
    BY <1>1 DEF StopServer
<1>3. p \in Process /\ p.start = server[s].start /\ p.phase = "down"
    BY <1>1 DEF Process
<1>. HIDE DEF p
<1>. QED
    BY <1>2, <1>3, KeyGoes DEF StopServer, clientVars

\* A server that dies leaves its key behind.
LEMMA DieStep ==
    ASSUME DiscoveryInv, NEW s \in Servers, Die(s)
    PROVE  DiscoveryInv'
<1>. USE DEF DiscoveryInv
<1>. DEFINE p == [server[s] EXCEPT !.phase = "down", !.lost = FALSE]
<1>1. server \in [Servers -> Process] /\ server[s] \in Process
    BY DEF TypeOK, Process
<1>2. server' = [server EXCEPT ![s] = p]
    BY <1>1 DEF Die
<1>3. p \in Process /\ p.start = server[s].start /\ p.phase = "down"
    BY <1>1 DEF Process
<1>. HIDE DEF p
<1>4. /\ server' \in [Servers -> Process]
      /\ \A t \in Servers : server'[t].start = server[t].start
      /\ \A t \in Servers : server'[t].phase = "serving" => server'[t] = server[t]
    BY <1>1, <1>2, <1>3
<1>5. UNCHANGED <<key, rev, sub, channel, resolve, addresses, newest>>
    BY DEF Die, clientVars
<1>6. \A k \in Keys : key[k] # NoInstance => key[k].start <= server'[key[k].server].start
    <2>. SUFFICES ASSUME NEW k \in Keys, key[k] # NoInstance
                  PROVE  key[k].start <= server'[key[k].server].start
        OBVIOUS
    <2>1. key[k] \in Instance /\ key[k].start <= server[key[k].server].start
        BY DEF TypeOK
    <2>. QED
        BY <1>4, <2>1, InstanceType
<1>7. TypeOK'
    BY <1>4, <1>5, <1>6 DEF TypeOK, Process
<1>8. ServingIsRegistered'
    BY <1>4, <1>5 DEF ServingIsRegistered, Self
<1>9. Listed' = Listed
    BY <1>5 DEF Listed, Matches
<1>. QED
    BY <1>5, <1>7, <1>8, <1>9 DEF AnswersAreTrue, IsTrue, GivenIsCounted, WatchIsFollowed

\* A lease that expires under a living process marks it; one of an earlier
\* session has nothing to do with the present one.
LEMMA ExpireLeaseStep ==
    ASSUME DiscoveryInv, NEW i \in Instance, ExpireLease(i)
    PROVE  DiscoveryInv'
<1>. DEFINE s == i.server
            p == IF Runs(i) THEN [server[s] EXCEPT !.lost = TRUE] ELSE server[s]
<1>1. s \in Servers /\ server \in [Servers -> Process] /\ server[s] \in Process
    BY InstanceType DEF DiscoveryInv, TypeOK, Process
<1>2. server' = [server EXCEPT ![s] = p]
    BY <1>1 DEF ExpireLease
<1>3. p \in Process /\ p.start = server[s].start /\ p.phase = server[s].phase
    BY <1>1 DEF Process
<1>4. /\ server[s].lost => p.lost
      /\ p.phase = "serving" /\ ~p.lost => key[InstanceKey(s)] # Self(s)
    <2>1. CASE Runs(i)
        BY <1>1, <2>1 DEF Process
    <2>2. CASE ~Runs(i)
        <3>1. key[InstanceKey(s)] = i
            BY DEF ExpireLease
        <3>2. p.phase = "serving" => i.start # server[s].start
            BY <2>2 DEF Runs
        <3>. QED
            BY <2>2, <3>1, <3>2 DEF Self
    <2>. QED
        BY <2>1, <2>2
<1>5. Change({InstanceKey(s)}, NoInstance) /\ UNCHANGED clientVars
    BY DEF ExpireLease
<1>. HIDE DEF p, s
<1>. QED
    BY <1>1, <1>2, <1>3, <1>4, <1>5, KeyGoes

----------------------------------------------------------------------------
(* The resolver. *)

\* A list is of the present revision, and true unless it failed.
LEMMA ListIsTrue ==
    ASSUME DiscoveryInv, NEW c \in Callers, NEW ok \in BOOLEAN, ListServices(c, ok)
    PROVE  /\ resolve' \in [Callers -> Answer]
           /\ \A d \in Callers : d # c => resolve'[d] = resolve[d]
           /\ resolve'[c].phase = "listed" /\ resolve'[c].rev = rev
           /\ resolve'[c].ok => resolve'[c].nodes = Listed
<1>. DEFINE a == [phase |-> "listed", ok |-> ok, nodes |-> IF ok THEN Listed ELSE {}, rev |-> rev]
<1>1. Listed \subseteq Servers
    <2>1. \A k \in Keys : key[k] # NoInstance => key[k].server \in Servers
        BY InstanceType DEF DiscoveryInv, TypeOK
    <2>. QED
        BY <2>1 DEF Listed
<1>2. a \in Answer
    BY <1>1 DEF Answer, DiscoveryInv, TypeOK
<1>3. resolve' = [resolve EXCEPT ![c] = a] /\ resolve \in [Callers -> Answer]
    BY DEF ListServices, DiscoveryInv, TypeOK
<1>. QED
    BY <1>2, <1>3

\* Asking for a list disturbs nothing else; a watch event that is taken for it
\* is being answered.
LEMMA ListStep ==
    ASSUME DiscoveryInv, NEW c \in Callers, NEW ok \in BOOLEAN, ListServices(c, ok),
           UNCHANGED <<server, key, rev, addresses, newest>>,
           channel' \in {"building", channel}, channel' = "open" => channel = "open",
           sub' \in Subscription, sub'.phase = sub.phase, sub'.from = sub.from
    PROVE  DiscoveryInv'
<1>. USE DEF DiscoveryInv
<1>1. /\ resolve' \in [Callers -> Answer]
      /\ \A d \in Callers : d # c => resolve'[d] = resolve[d]
      /\ resolve'[c].phase = "listed" /\ resolve'[c].rev = rev
      /\ resolve'[c].ok => resolve'[c].nodes = Listed
    BY ListIsTrue
<1>2. rev \in Nat
    BY DEF TypeOK
<1>3. TypeOK'
    BY <1>1, <1>2 DEF TypeOK, Subscription
<1>4. ServingIsRegistered'
    BY DEF ServingIsRegistered, Self
<1>5. Listed' = Listed
    BY DEF Listed, Matches
<1>6. AnswersAreTrue'
    BY <1>1, <1>5 DEF AnswersAreTrue, IsTrue
<1>7. GivenIsCounted' /\ WatchIsFollowed'
    BY <1>1 DEF GivenIsCounted, WatchIsFollowed
<1>. QED
    BY <1>3, <1>4, <1>6, <1>7

\* The watch begins at the present revision, or ends.
LEMMA SubscriptionStep ==
    ASSUME DiscoveryInv, Subscribe \/ WatchBreaks
    PROVE  DiscoveryInv'
<1>. USE DEF DiscoveryInv
<1>1. UNCHANGED <<server, key, rev, channel, resolve, addresses, newest>>
    BY DEF Subscribe, WatchBreaks, clientVars
<1>2. /\ sub' \in Subscription /\ sub'.from <= rev /\ (channel = "idle" => sub'.phase = "none")
      /\ sub'.phase = "subscribed" => sub'.from = rev
    <2>1. CASE Subscribe
        BY <2>1 DEF Subscribe, Subscription, TypeOK
    <2>2. CASE WatchBreaks
        <3>1. sub \in Subscription /\ sub' = [sub EXCEPT !.phase = "broken", !.pending = 0]
            BY <2>2 DEF WatchBreaks, Subscription, TypeOK
        <3>2. sub' \in Subscription /\ sub'.phase = "broken" /\ sub'.from = sub.from
            BY <3>1 DEF Subscription
        <3>. QED
            BY <2>2, <3>2 DEF WatchBreaks, TypeOK
    <2>. QED
        BY <2>1, <2>2
<1>3. TypeOK'
    BY <1>1, <1>2 DEF TypeOK, Subscription
<1>4. ServingIsRegistered' /\ Listed' = Listed
    BY <1>1 DEF ServingIsRegistered, Self, Listed, Matches
<1>5. AnswersAreTrue' /\ GivenIsCounted'
    BY <1>1, <1>4 DEF AnswersAreTrue, IsTrue, GivenIsCounted
<1>6. WatchIsFollowed'
    BY <1>1, <1>2, <1>3 DEF WatchIsFollowed, TypeOK
<1>. QED
    BY <1>3, <1>4, <1>5, <1>6

\* What is handed to gRPC is as true as it was when it was listed, and an answer
\* to the last change makes "newest" the present revision.
LEMMA UpdateStateStep ==
    ASSUME DiscoveryInv, NEW c \in Callers, UpdateState(c)
    PROVE  DiscoveryInv'
<1>. USE DEF DiscoveryInv
<1>1. /\ UNCHANGED <<server, key, rev, sub>> /\ channel' = "open"
      /\ addresses' = resolve[c] /\ resolve[c].phase = "listed"
      /\ newest' = IF resolve[c].rev > newest THEN resolve[c].rev ELSE newest
      /\ resolve' = [resolve EXCEPT ![c] = NoAnswer]
    BY DEF UpdateState
<1>2. /\ resolve[c] \in Answer /\ resolve[c].rev \in Nat /\ resolve[c].rev <= rev
      /\ rev \in Nat /\ newest \in Nat /\ newest <= rev
    BY AnswerIsBehind DEF TypeOK
<1>3. NoAnswer \in Answer /\ NoAnswer.phase = "idle" /\ NoAnswer.rev = 0
    BY DEF NoAnswer, Answer
<1>4. /\ newest' \in Nat /\ newest' <= rev /\ newest' >= newest /\ resolve[c].rev <= newest'
    BY <1>1, <1>2
<1>5. /\ resolve' \in [Callers -> Answer] /\ resolve'[c] = NoAnswer
      /\ \A d \in Callers : d # c => resolve'[d] = resolve[d]
    BY <1>1, <1>3 DEF TypeOK
<1>6. TypeOK'
    BY <1>1, <1>2, <1>3, <1>4, <1>5 DEF TypeOK
<1>7. ServingIsRegistered' /\ Listed' = Listed
    BY <1>1 DEF ServingIsRegistered, Self, Listed, Matches
<1>8. AnswersAreTrue'
    BY <1>1, <1>3, <1>5, <1>7 DEF AnswersAreTrue, IsTrue
<1>9. GivenIsCounted'
    BY <1>1, <1>4 DEF GivenIsCounted
<1>10. WatchIsFollowed'
    BY <1>1, <1>2, <1>4, <1>5 DEF WatchIsFollowed
<1>. QED
    BY <1>6, <1>7, <1>8, <1>9, <1>10

\* A closed channel has forgotten everything.
LEMMA CloseStep ==
    ASSUME DiscoveryInv, Close
    PROVE  DiscoveryInv'
<1>. USE DEF DiscoveryInv
<1>1. /\ UNCHANGED <<server, key, rev>> /\ channel' = "idle" /\ sub' = NoSubscription
      /\ resolve' = [c \in Callers |-> NoAnswer] /\ addresses' = NoAnswer /\ newest' = 0
    BY DEF Close
<1>2. NoAnswer \in Answer /\ NoAnswer.phase = "idle" /\ NoAnswer.rev = 0
    BY DEF NoAnswer, Answer
<1>3. NoSubscription \in Subscription /\ NoSubscription.phase = "none" /\ NoSubscription.from = 0
    BY DEF NoSubscription, Subscription
<1>4. TypeOK'
    BY <1>1, <1>2, <1>3 DEF TypeOK, Subscription
<1>5. ServingIsRegistered'
    BY <1>1 DEF ServingIsRegistered, Self
<1>6. AnswersAreTrue' /\ GivenIsCounted' /\ WatchIsFollowed'
    BY <1>1, <1>2, <1>3 DEF AnswersAreTrue, IsTrue, GivenIsCounted, WatchIsFollowed
<1>. QED
    BY <1>4, <1>5, <1>6

----------------------------------------------------------------------------
(* The theorems. *)

\* Every step keeps the inductive invariant.
LEMMA NextInv == DiscoveryInv /\ [Next]_vars => DiscoveryInv'
<1>. SUFFICES ASSUME DiscoveryInv, [Next]_vars PROVE DiscoveryInv'
    OBVIOUS
<1>1. ASSUME NEW s \in Servers, Serving(s) PROVE DiscoveryInv'
    BY <1>1, StartServerStep, StopServerStep, DieStep DEF Serving
<1>2. ASSUME NEW i \in Instance, ExpireLease(i) PROVE DiscoveryInv'
    BY <1>2, ExpireLeaseStep
<1>3. ASSUME NEW ok \in BOOLEAN, Build(ok) \/ ResolveNow(ok) PROVE DiscoveryInv'
    BY <1>3, ListStep DEF Build, ResolveNow, Callers, DiscoveryInv, TypeOK, Subscription
<1>4. ASSUME NEW ok \in BOOLEAN, WatchEvent(ok) PROVE DiscoveryInv'
    <2>1. sub \in Subscription /\ sub.pending > 0
        BY <1>4 DEF WatchEvent, DiscoveryInv, TypeOK, Subscription
    <2>2. sub' \in Subscription /\ sub'.phase = sub.phase /\ sub'.from = sub.from
        BY <1>4, <2>1 DEF WatchEvent, Subscription
    <2>. QED
        BY <1>4, <2>2, ListStep DEF WatchEvent, Callers
<1>5. CASE Subscribe \/ WatchBreaks
    BY <1>5, SubscriptionStep
<1>6. ASSUME NEW c \in Callers, UpdateState(c) PROVE DiscoveryInv'
    BY <1>6, UpdateStateStep
<1>7. CASE Close
    BY <1>7, CloseStep
<1>8. CASE UNCHANGED vars
    <2>1. TypeOK'
        BY <1>8 DEF vars, DiscoveryInv, TypeOK
    <2>2. ServingIsRegistered' /\ Listed' = Listed
        BY <1>8 DEF vars, DiscoveryInv, ServingIsRegistered, Self, Listed, Matches
    <2>3. AnswersAreTrue' /\ GivenIsCounted' /\ WatchIsFollowed'
        BY <1>8, <2>2 DEF vars, DiscoveryInv, AnswersAreTrue, IsTrue, GivenIsCounted,
                          WatchIsFollowed
    <2>. QED
        BY <2>1, <2>2, <2>3 DEF DiscoveryInv
<1>. QED
    BY <1>1, <1>2, <1>3, <1>4, <1>5, <1>6, <1>7, <1>8 DEF Next

\* The inductive invariant holds in every reachable state.
THEOREM DiscoveryInvariant == Spec => []DiscoveryInv
BY InitInv, NextInv, PTL DEF Spec

\* Every reachable state has the declared shape; no key is of a start that did
\* not happen, no answer is ahead of the registry.
THEOREM DiscoveryTypeCorrect == Spec => []TypeOK
<1>1. DiscoveryInv => TypeOK
    BY DEF DiscoveryInv
<1>. QED
    BY <1>1, DiscoveryInvariant, PTL

\* A server that serves is registered under its present session, also when the
\* lease of its predecessor expires afterwards, unless its own session was lost
\* or another server advertises the same address.
THEOREM ServersAreRegistered == Spec => []ServingIsRegistered
<1>1. DiscoveryInv => ServingIsRegistered
    BY DEF DiscoveryInv
<1>. QED
    BY <1>1, DiscoveryInvariant, PTL

\* When no list is due or in progress, gRPC has the present servers, or the last
\* list failed, or came late, or the change fell between list and watch.
THEOREM SettledListIsCurrent == Spec => []SettledIsCurrent
<1>1. DiscoveryInv => SettledIsCurrent
    <2>. SUFFICES ASSUME DiscoveryInv, Settled, addresses.nodes # Listed,
                         addresses.ok, ~(addresses.rev < newest)
                  PROVE  sub.from = rev /\ addresses.rev < sub.from
        BY DEF SettledIsCurrent
    <2>1. /\ addresses.rev \in Nat /\ addresses.rev <= newest /\ addresses.phase = "listed"
          /\ newest \in Nat /\ newest <= rev /\ rev \in Nat /\ sub.from \in Nat /\ sub.from <= rev
        BY AnswerIsBehind DEF DiscoveryInv, TypeOK, GivenIsCounted, Settled
    <2>2. addresses.rev # rev
        BY <2>1 DEF DiscoveryInv, AnswersAreTrue, IsTrue
    <2>3. ~(sub.from < rev)
        BY <2>1, <2>2 DEF DiscoveryInv, WatchIsFollowed, Settled
    <2>. QED
        BY <2>1, <2>2, <2>3
<1>. QED
    BY <1>1, DiscoveryInvariant, PTL
=============================================================================
