------------------------ MODULE RoutingBalancerProofs ------------------------
(***************************************************************************)
(* Proofs about RoutingBalancer, for every finite set of nodes, every      *)
(* number of concurrent calls, and every bound on lists and failures.      *)
(***************************************************************************)
EXTENDS RoutingBalancer, TLAPS, FiniteSetTheorems, SequenceTheorems

----------------------------------------------------------------------------
(* The inductive invariant. *)

Callback == [kind : {"list", "state"}, addrs : SUBSET Address, to : States]

\* The i-th callback tells of the SubConn of a.
IsNews(i, a) == callbacks[i].kind = "state" /\ callbacks[i].addrs = {a}

\* A list that waits names each node once, and addresses of its own that have
\* no SubConn yet.
ListsAreNew ==
    /\ \A a \in Address : state[a] # ABSENT => a.attributes <= lists
    /\ \A i \in DOMAIN callbacks : callbacks[i].kind = "list" =>
           /\ \A a \in callbacks[i].addrs : state[a] = ABSENT /\ a.attributes <= lists
           /\ \A a, b \in callbacks[i].addrs : a.node = b.node => a = b
           /\ \A j \in DOMAIN callbacks : callbacks[j].kind = "list" /\ j # i =>
                  callbacks[i].addrs \cap callbacks[j].addrs = {}

\* News is of a SubConn that was made, and of its end only if it was shut down.
NewsIsOfConns ==
    \A i \in DOMAIN callbacks : callbacks[i].kind = "state" =>
        \E a \in Address : /\ callbacks[i].addrs = {a} /\ state[a] # ABSENT
                           /\ callbacks[i].to = SHUTDOWN => state[a] = SHUTDOWN

\* The last news of a SubConn is its real state; one without news was counted
\* as ready exactly if it is.
LastNewsIs(a) ==
    /\ (\A i \in DOMAIN callbacks : ~IsNews(i, a)) => (a \in readySCs <=> state[a] = READY)
    /\ \A i \in DOMAIN callbacks :
           IsNews(i, a) /\ (\A j \in DOMAIN callbacks : IsNews(j, a) => j <= i)
               => callbacks[i].to = state[a]

LastNewsIsTrue == \A a \in subConns : state[a] \notin {ABSENT, SHUTDOWN} /\ LastNewsIs(a)

BalancerInv ==
    /\ TypeOK /\ OneConnPerNode /\ picker = readySCs /\ callbacks \in Seq(Callback)
    /\ ListsAreNew /\ NewsIsOfConns /\ LastNewsIsTrue

LEMMA InitInv == Init => BalancerInv
<1>. SUFFICES ASSUME Init PROVE BalancerInv
    OBVIOUS
<1>1. callbacks \in Seq(Callback) /\ DOMAIN callbacks = {}
    BY EmptySeq DEF Init
<1>2. TypeOK
    BY BalancerAssumption DEF Init, TypeOK, States, Call, NoCall, Ctx, AnyNode
<1>3. OneConnPerNode /\ ListsAreNew /\ NewsIsOfConns /\ LastNewsIsTrue
    BY <1>1 DEF Init, OneConnPerNode, ListsAreNew, NewsIsOfConns, LastNewsIsTrue
<1>. QED
    BY <1>1, <1>2, <1>3 DEF BalancerInv, Init

----------------------------------------------------------------------------
(* Sets of addresses, and sequences made of them. *)

LEMMA AddressesAreFinite ==
    ASSUME NEW A \in SUBSET Address
    PROVE  IsFiniteSet(A) /\ Cardinality(A) \in Nat
<1>. DEFINE f == [a \in Address |-> <<a.node, a.attributes>>]
<1>1. MaxLists \in Nat /\ IsFiniteSet(Nodes) /\ IsFiniteSet(1..MaxLists)
    BY BalancerAssumption, FS_Interval
<1>2. IsFiniteSet(Nodes \X (1..MaxLists))
    BY <1>1, FS_Product
<1>3. \A a \in Address : a = [node |-> a.node, attributes |-> a.attributes]
    BY DEF Address
<1>4. f \in Injection(Address, Nodes \X (1..MaxLists))
    <2>1. f \in [Address -> Nodes \X (1..MaxLists)]
        BY DEF Address
    <2>2. IsInjective(f)
        BY <1>3 DEF IsInjective
    <2>. QED
        BY <2>1, <2>2 DEF Injection
<1>. HIDE DEF f
<1>5. IsFiniteSet(Address)
    BY <1>2, <1>4, FS_Injection
<1>. QED
    BY <1>5, FS_Subset, FS_CardinalityType

\* SetToSeq enumerates a finite set.
LEMMA SetToSeqType ==
    ASSUME NEW S, IsFiniteSet(S)
    PROVE  SetToSeq(S) \in Seq(S)
<1>1. Cardinality(S) \in Nat /\ ExistsBijection(1..Cardinality(S), S)
    BY FS_CardinalityType
<1>2. PICK f \in [1..Cardinality(S) -> S] : IsInjective(f)
    BY <1>1 DEF ExistsBijection, Bijection, Injection
<1>3. SetToSeq(S) \in [1..Cardinality(S) -> S]
    BY <1>2 DEF SetToSeq
<1>. QED
    BY <1>1, <1>3, SeqDef

\* What gRPC is going to tell of the SubConns that are shut down.
LEMMA ShutdownNews ==
    ASSUME NEW gone \in SUBSET Address
    PROVE  LET s == SetToSeq({StateCallback(a, SHUTDOWN) : a \in gone})
           IN  /\ s \in Seq(Callback)
               /\ \A j \in DOMAIN s : \E a \in gone : s[j] = StateCallback(a, SHUTDOWN)
<1>. DEFINE T == {StateCallback(a, SHUTDOWN) : a \in gone}
            f == [a \in gone |-> StateCallback(a, SHUTDOWN)]
            s == SetToSeq(T)
<1>1. IsFiniteSet(T)
    <2>1. f \in Surjection(gone, T)
        BY DEF Surjection
    <2>2. IsFiniteSet(gone)
        BY AddressesAreFinite
    <2>. HIDE DEF f, T
    <2>. QED
        BY <2>1, <2>2, FS_Surjection
<1>2. T \subseteq Callback
    BY DEF StateCallback, Callback, States
<1>3. s \in Seq(T)
    BY <1>1, SetToSeqType
<1>4. s \in Seq(Callback)
    BY <1>2, <1>3, SeqMonotonic
<1>5. ASSUME NEW j \in DOMAIN s PROVE s[j] \in T
    BY <1>3, <1>5, ElementOfSeq, LenProperties
<1>6. ASSUME NEW j \in DOMAIN s
      PROVE  \E a \in gone : s[j] = StateCallback(a, SHUTDOWN)
    BY <1>5
<1>. QED
    BY <1>4, <1>6

----------------------------------------------------------------------------
(* The queue of callbacks. *)

LEMMA CallbackType ==
    ASSUME callbacks \in Seq(Callback)
    PROVE  \A i \in DOMAIN callbacks : /\ callbacks[i] \in Callback
                                       /\ callbacks[i].addrs \subseteq Address
<1>1. ASSUME NEW i \in DOMAIN callbacks PROVE callbacks[i] \in Callback
    BY <1>1, ElementOfSeq, LenProperties
<1>. QED
    BY <1>1 DEF Callback

\* A callback is told, which may cause others: what waited moves up.
LEMMA MovesUp ==
    ASSUME NEW s \in Seq(Callback), callbacks \in Seq(Callback), callbacks # <<>>,
           callbacks' = Tail(callbacks) \o s
    PROVE  /\ callbacks' \in Seq(Callback)
           /\ 1 \in DOMAIN callbacks /\ Told = callbacks[1] /\ Told \in Callback
           /\ \A i \in DOMAIN callbacks' :
                  \/ i + 1 \in DOMAIN callbacks /\ callbacks'[i] = callbacks[i + 1]
                  \/ \E j \in DOMAIN s : callbacks'[i] = s[j]
           /\ \A i \in DOMAIN callbacks :
                  i # 1 => i - 1 \in DOMAIN callbacks' /\ callbacks'[i - 1] = callbacks[i]
           /\ DOMAIN callbacks \subseteq Nat /\ DOMAIN callbacks' \subseteq Nat
<1>. DEFINE t == Tail(callbacks)
<1>1. /\ Len(callbacks) \in Nat \ {0} /\ DOMAIN callbacks = 1..Len(callbacks)
      /\ Len(s) \in Nat /\ DOMAIN s = 1..Len(s)
    BY EmptySeq, LenProperties
<1>2. /\ t \in Seq(Callback) /\ Len(t) = Len(callbacks) - 1
      /\ \A i \in 1..Len(t) : t[i] = callbacks[i + 1]
      /\ Told \in Callback
    BY HeadTailProperties DEF Told
<1>3. /\ callbacks' \in Seq(Callback) /\ Len(callbacks') = Len(t) + Len(s)
      /\ \A i \in 1..(Len(t) + Len(s)) :
             callbacks'[i] = IF i <= Len(t) THEN t[i] ELSE s[i - Len(t)]
    BY <1>2, ConcatProperties
<1>4. DOMAIN callbacks' = 1..(Len(t) + Len(s))
    BY <1>3, LenProperties
<1>5. Told = callbacks[1]
    BY DEF Told
<1>6. ASSUME NEW i \in DOMAIN callbacks'
      PROVE  \/ i + 1 \in DOMAIN callbacks /\ callbacks'[i] = callbacks[i + 1]
             \/ \E j \in DOMAIN s : callbacks'[i] = s[j]
    <2>. HIDE DEF t
    <2>1. CASE i <= Len(t)
        BY <1>1, <1>2, <1>3, <1>4, <2>1
    <2>2. CASE ~(i <= Len(t))
        <3>1. i - Len(t) \in DOMAIN s /\ callbacks'[i] = s[i - Len(t)]
            BY <1>1, <1>2, <1>3, <1>4, <2>2
        <3>. QED
            BY <3>1
    <2>. QED
        BY <2>1, <2>2
<1>7. ASSUME NEW i \in DOMAIN callbacks, i # 1
      PROVE  i - 1 \in DOMAIN callbacks' /\ callbacks'[i - 1] = callbacks[i]
    <2>. HIDE DEF t
    <2>1. i - 1 \in 1..Len(t) /\ (i - 1) + 1 = i
        BY <1>1, <1>2, <1>7
    <2>2. t[i - 1] = callbacks[i]
        BY <1>2, <2>1
    <2>3. i - 1 \in 1..(Len(t) + Len(s)) /\ i - 1 <= Len(t)
        BY <1>1, <1>2, <2>1
    <2>. QED
        BY <1>3, <1>4, <2>2, <2>3
<1>. QED
    BY <1>1, <1>2, <1>3, <1>4, <1>5, <1>6, <1>7

LEMMA TailMovesUp ==
    ASSUME callbacks \in Seq(Callback), callbacks # <<>>, callbacks' = Tail(callbacks)
    PROVE  callbacks' = Tail(callbacks) \o <<>> /\ <<>> \in Seq(Callback)
BY HeadTailProperties, ConcatEmptySeq, EmptySeq

\* A callback is added.
LEMMA Appended ==
    ASSUME NEW c \in Callback, callbacks \in Seq(Callback), callbacks' = Append(callbacks, c)
    PROVE  LET k == Len(callbacks) + 1
           IN  /\ callbacks' \in Seq(Callback)
               /\ DOMAIN callbacks' = DOMAIN callbacks \cup {k}
               /\ callbacks'[k] = c /\ k \notin DOMAIN callbacks
               /\ \A i \in DOMAIN callbacks : callbacks'[i] = callbacks[i] /\ i < k
               /\ DOMAIN callbacks \subseteq Nat /\ k \in Nat
<1>1. Len(callbacks) \in Nat /\ DOMAIN callbacks = 1..Len(callbacks)
    BY LenProperties
<1>2. /\ callbacks' \in Seq(Callback) /\ Len(callbacks') = Len(callbacks) + 1
      /\ \A i \in 1..Len(callbacks) : callbacks'[i] = callbacks[i]
      /\ callbacks'[Len(callbacks) + 1] = c
    BY AppendProperties
<1>3. DOMAIN callbacks' = 1..(Len(callbacks) + 1)
    BY <1>2, LenProperties
<1>. QED
    BY <1>1, <1>2, <1>3

\* Telling a callback keeps what is said of a SubConn that stays, if the other
\* callbacks it causes are of other SubConns and its news is taken in.
LEMMA LastNewsMovesUp ==
    ASSUME NEW s \in Seq(Callback), callbacks \in Seq(Callback), callbacks # <<>>,
           callbacks' = Tail(callbacks) \o s,
           NEW a \in Address, LastNewsIs(a), state'[a] = state[a],
           \A j \in DOMAIN s : s[j].addrs # {a},
           IsNews(1, a) => (a \in readySCs' <=> Told.to = READY),
           ~IsNews(1, a) => (a \in readySCs' <=> a \in readySCs)
    PROVE  LastNewsIs(a)'
<1>1. /\ 1 \in DOMAIN callbacks /\ Told = callbacks[1]
      /\ \A i \in DOMAIN callbacks' :
             \/ i + 1 \in DOMAIN callbacks /\ callbacks'[i] = callbacks[i + 1]
             \/ \E j \in DOMAIN s : callbacks'[i] = s[j]
      /\ \A i \in DOMAIN callbacks :
             i # 1 => i - 1 \in DOMAIN callbacks' /\ callbacks'[i - 1] = callbacks[i]
      /\ DOMAIN callbacks \subseteq Nat /\ DOMAIN callbacks' \subseteq Nat
    BY MovesUp
<1>2. \A i \in DOMAIN callbacks' :
          IsNews(i, a)' => i + 1 \in DOMAIN callbacks /\ callbacks'[i] = callbacks[i + 1]
    BY <1>1 DEF IsNews
<1>3. \A i \in DOMAIN callbacks : i # 1 /\ IsNews(i, a) => IsNews(i - 1, a)'
    BY <1>1 DEF IsNews
<1>4. ASSUME NEW i \in DOMAIN callbacks', IsNews(i, a)',
             \A j \in DOMAIN callbacks' : IsNews(j, a)' => j <= i
      PROVE  callbacks'[i].to = state'[a]
    <2>1. i + 1 \in DOMAIN callbacks /\ callbacks'[i] = callbacks[i + 1] /\ IsNews(i + 1, a)
        BY <1>2, <1>4 DEF IsNews
    <2>2. ASSUME NEW j \in DOMAIN callbacks, IsNews(j, a) PROVE j <= i + 1
        <3>1. CASE j = 1
            BY <1>1, <3>1
        <3>2. CASE j # 1
            <4>1. j - 1 \in DOMAIN callbacks' /\ IsNews(j - 1, a)'
                BY <1>1, <1>3, <2>2, <3>2
            <4>2. j - 1 <= i
                BY <1>4, <4>1
            <4>. QED
                BY <1>1, <4>2
        <3>. QED
            BY <3>1, <3>2
    <2>. QED
        BY <2>1, <2>2 DEF LastNewsIs
<1>5. ASSUME \A i \in DOMAIN callbacks' : ~IsNews(i, a)'
      PROVE  a \in readySCs' <=> state'[a] = READY
    <2>1. \A j \in DOMAIN callbacks : IsNews(j, a) => j = 1
        BY <1>1, <1>3, <1>5
    <2>2. CASE IsNews(1, a)
        <3>1. callbacks[1].to = state[a]
            BY <1>1, <2>1, <2>2 DEF LastNewsIs
        <3>. QED
            BY <1>1, <2>2, <3>1
    <2>3. CASE ~IsNews(1, a)
        BY <2>1, <2>3 DEF LastNewsIs
    <2>. QED
        BY <2>2, <2>3
<1>. QED
    BY <1>4, <1>5 DEF LastNewsIs

\* Adding a callback keeps what is said of a SubConn, unless the callback is
\* news of it: then it has to be true.
LEMMA LastNewsAppended ==
    ASSUME NEW c \in Callback, callbacks \in Seq(Callback), callbacks' = Append(callbacks, c),
           NEW a \in Address, LastNewsIs(a), readySCs' = readySCs,
           IF c.kind = "state" /\ c.addrs = {a} THEN c.to = state'[a] ELSE state'[a] = state[a]
    PROVE  LastNewsIs(a)'
<1>1. PICK k \in Nat :
          /\ DOMAIN callbacks' = DOMAIN callbacks \cup {k}
          /\ callbacks'[k] = c /\ k \notin DOMAIN callbacks
          /\ \A i \in DOMAIN callbacks : callbacks'[i] = callbacks[i] /\ i < k
          /\ DOMAIN callbacks \subseteq Nat
    BY Appended
<1>2. \A i \in DOMAIN callbacks : IsNews(i, a)' <=> IsNews(i, a)
    BY <1>1 DEF IsNews
<1>3. CASE c.kind = "state" /\ c.addrs = {a}
    <2>1. IsNews(k, a)' /\ callbacks'[k].to = state'[a]
        BY <1>1, <1>3 DEF IsNews
    <2>2. ASSUME NEW i \in DOMAIN callbacks', \A j \in DOMAIN callbacks' : IsNews(j, a)' => j <= i
          PROVE  i = k
        <3>1. k <= i
            BY <1>1, <2>1, <2>2
        <3>. QED
            BY <1>1, <3>1
    <2>. QED
        BY <1>1, <2>1, <2>2 DEF LastNewsIs
<1>4. CASE ~(c.kind = "state" /\ c.addrs = {a})
    <2>1. ~IsNews(k, a)'
        BY <1>1, <1>4 DEF IsNews
    <2>2. state'[a] = state[a]
        BY <1>4
    <2>3. (\A i \in DOMAIN callbacks' : ~IsNews(i, a)') => (a \in readySCs' <=> state'[a] = READY)
        BY <1>1, <1>2, <2>2 DEF LastNewsIs
    <2>4. ASSUME NEW i \in DOMAIN callbacks', IsNews(i, a)',
                 \A j \in DOMAIN callbacks' : IsNews(j, a)' => j <= i
          PROVE  callbacks'[i].to = state'[a]
        <3>1. i \in DOMAIN callbacks /\ IsNews(i, a) /\ callbacks'[i] = callbacks[i]
            BY <1>1, <1>2, <2>1, <2>4
        <3>2. \A j \in DOMAIN callbacks : IsNews(j, a) => j <= i
            BY <1>1, <1>2, <2>4
        <3>. QED
            BY <2>2, <3>1, <3>2 DEF LastNewsIs
    <2>. QED
        BY <2>3, <2>4 DEF LastNewsIs
<1>. QED
    BY <1>3, <1>4

----------------------------------------------------------------------------
(* gRPC. *)

\* A list brings addresses that are all new.
LEMMA ListArrivesKeeps ==
    ASSUME BalancerInv, NEW nodes \in SUBSET Nodes, ListArrives(nodes)
    PROVE  BalancerInv'
<1>. DEFINE addrs == {[node |-> n, attributes |-> lists + 1] : n \in nodes}
            c == ListCallback(addrs)
<1>1. /\ lists < MaxLists /\ lists' = lists + 1 /\ callbacks' = Append(callbacks, c)
      /\ UNCHANGED <<state, subConns, readySCs, picker, call, breaks>>
    BY DEF ListArrives
<1>2. lists \in Nat /\ MaxLists \in Nat /\ lists + 1 \in 1..MaxLists
    BY <1>1, BalancerAssumption DEF BalancerInv, TypeOK
<1>3. /\ addrs \subseteq Address /\ \A a \in addrs : a.attributes = lists + 1
      /\ \A a, b \in addrs : a.node = b.node => a = b
    BY <1>2 DEF Address
<1>4. c \in Callback /\ c.kind = "list" /\ c.addrs = addrs
    BY <1>3 DEF ListCallback, Callback, States
<1>. HIDE DEF addrs, c
<1>5. PICK k \in Nat :
          /\ callbacks' \in Seq(Callback)
          /\ DOMAIN callbacks' = DOMAIN callbacks \cup {k}
          /\ callbacks'[k] = c /\ k \notin DOMAIN callbacks
          /\ \A i \in DOMAIN callbacks : callbacks'[i] = callbacks[i]
    BY <1>1, <1>4, Appended DEF BalancerInv
<1>6. TypeOK' /\ OneConnPerNode' /\ picker' = readySCs'
    BY <1>1, <1>2 DEF BalancerInv, TypeOK, OneConnPerNode
<1>7. ListsAreNew'
    <2>1. \A a \in Address : a.attributes \in Nat /\ (state[a] # ABSENT => a.attributes <= lists)
        BY <1>2 DEF BalancerInv, ListsAreNew, Address
    <2>2. \A a \in addrs : state[a] = ABSENT /\ a.attributes <= lists + 1
        BY <1>2, <1>3, <2>1
    <2>3. ASSUME NEW i \in DOMAIN callbacks, callbacks[i].kind = "list"
          PROVE  /\ callbacks[i].addrs \cap addrs = {}
                 /\ \A a \in callbacks[i].addrs : state[a] = ABSENT /\ a.attributes <= lists + 1
        <3>1. \A a \in callbacks[i].addrs : a \in Address
            BY CallbackType DEF BalancerInv
        <3>2. \A a \in callbacks[i].addrs : state[a] = ABSENT /\ a.attributes <= lists
            BY <2>3 DEF BalancerInv, ListsAreNew
        <3>3. \A a \in callbacks[i].addrs : a.attributes # lists + 1 /\ a.attributes <= lists + 1
            BY <1>2, <2>1, <3>1, <3>2
        <3>. QED
            BY <1>3, <3>2, <3>3
    <2>4. \A a \in Address : state'[a] # ABSENT => a.attributes <= lists'
        BY <1>1, <1>2, <2>1
    <2>5. ASSUME NEW i \in DOMAIN callbacks', callbacks'[i].kind = "list"
          PROVE  /\ \A a \in callbacks'[i].addrs : state'[a] = ABSENT /\ a.attributes <= lists'
                 /\ \A a, b \in callbacks'[i].addrs : a.node = b.node => a = b
                 /\ \A j \in DOMAIN callbacks' : callbacks'[j].kind = "list" /\ j # i =>
                        callbacks'[i].addrs \cap callbacks'[j].addrs = {}
        <3>1. CASE i = k
            BY <1>1, <1>3, <1>4, <1>5, <2>2, <2>3, <3>1
        <3>2. CASE i # k
            <4>1. i \in DOMAIN callbacks /\ callbacks'[i] = callbacks[i]
                BY <1>5, <3>2
            <4>. QED
                BY <1>1, <1>4, <1>5, <2>3, <2>5, <4>1 DEF BalancerInv, ListsAreNew
        <3>. QED
            BY <3>1, <3>2
    <2>. QED
        BY <2>4, <2>5 DEF ListsAreNew
<1>8. NewsIsOfConns'
    BY <1>1, <1>4, <1>5 DEF BalancerInv, NewsIsOfConns
<1>9. LastNewsIsTrue'
    <2>. SUFFICES ASSUME NEW a \in subConns
                  PROVE  state'[a] \notin {ABSENT, SHUTDOWN} /\ LastNewsIs(a)'
        BY <1>1 DEF LastNewsIsTrue
    <2>1. a \in Address /\ state[a] \notin {ABSENT, SHUTDOWN} /\ LastNewsIs(a)
        BY DEF BalancerInv, TypeOK, LastNewsIsTrue
    <2>. QED
        BY <1>1, <1>4, <2>1, LastNewsAppended DEF BalancerInv
<1>. QED
    BY <1>5, <1>6, <1>7, <1>8, <1>9 DEF BalancerInv

\* The real state moves and the news of it is last.
LEMMA ConnMovesKeeps ==
    ASSUME BalancerInv, NEW a \in Address, NEW to \in States, ConnMoves(a, to)
    PROVE  BalancerInv'
<1>. DEFINE c == StateCallback(a, to)
<1>1. /\ state[a] \in {CONNECTING, READY, TRANSIENT_FAILURE}
      /\ to \in {READY, TRANSIENT_FAILURE, IDLE}
      /\ to = READY \/ breaks < MaxBreaks
      /\ breaks' = IF to = READY THEN breaks ELSE breaks + 1
      /\ state' = [state EXCEPT ![a] = to]
      /\ callbacks' = Append(callbacks, c)
      /\ UNCHANGED <<lists, subConns, readySCs, picker, call>>
    BY DEF ConnMoves, Moves
<1>2. /\ state[a] \notin {ABSENT, SHUTDOWN} /\ to \notin {ABSENT, SHUTDOWN}
      /\ state' \in [Address -> States] /\ state'[a] = to
      /\ \A b \in Address : b # a => state'[b] = state[b]
    BY <1>1 DEF BalancerInv, TypeOK, ABSENT, IDLE, CONNECTING, READY, TRANSIENT_FAILURE, SHUTDOWN
<1>3. c \in Callback /\ c.kind = "state" /\ c.addrs = {a} /\ c.to = to
    BY DEF StateCallback, Callback
<1>. HIDE DEF c
<1>4. PICK k \in Nat :
          /\ callbacks' \in Seq(Callback)
          /\ DOMAIN callbacks' = DOMAIN callbacks \cup {k}
          /\ callbacks'[k] = c /\ k \notin DOMAIN callbacks
          /\ \A i \in DOMAIN callbacks : callbacks'[i] = callbacks[i]
    BY <1>1, <1>3, Appended DEF BalancerInv
<1>5. TypeOK'
    <2>1. breaks' \in 0..MaxBreaks
        BY <1>1, BalancerAssumption DEF BalancerInv, TypeOK
    <2>2. \A b \in subConns \cup readySCs : state'[b] # ABSENT
        BY <1>2 DEF BalancerInv, TypeOK
    <2>. QED
        BY <1>1, <1>2, <2>1, <2>2 DEF BalancerInv, TypeOK
<1>6. OneConnPerNode'
    BY <1>1, <1>2 DEF BalancerInv, OneConnPerNode
<1>7. \A i \in DOMAIN callbacks : callbacks[i].addrs \subseteq Address
    BY CallbackType DEF BalancerInv
<1>8. ListsAreNew'
    <2>1. \A b \in Address : state'[b] # ABSENT => b.attributes <= lists'
        BY <1>1, <1>2 DEF BalancerInv, ListsAreNew
    <2>2. ASSUME NEW i \in DOMAIN callbacks', callbacks'[i].kind = "list"
          PROVE  i \in DOMAIN callbacks /\ callbacks'[i] = callbacks[i]
        BY <1>3, <1>4, <2>2
    <2>3. \A i \in DOMAIN callbacks : callbacks[i].kind = "list" =>
              \A b \in callbacks[i].addrs : state'[b] = state[b]
        BY <1>2, <1>7 DEF BalancerInv, ListsAreNew
    <2>. QED
        BY <1>1, <2>1, <2>2, <2>3 DEF BalancerInv, ListsAreNew
<1>9. NewsIsOfConns'
    <2>. SUFFICES ASSUME NEW i \in DOMAIN callbacks', callbacks'[i].kind = "state"
                  PROVE  \E b \in Address :
                             /\ callbacks'[i].addrs = {b} /\ state'[b] # ABSENT
                             /\ callbacks'[i].to = SHUTDOWN => state'[b] = SHUTDOWN
        BY DEF NewsIsOfConns
    <2>1. CASE i = k
        BY <1>2, <1>3, <1>4, <2>1
    <2>2. CASE i # k
        <3>1. i \in DOMAIN callbacks /\ callbacks'[i] = callbacks[i]
            BY <1>4, <2>2
        <3>2. PICK b \in Address : /\ callbacks[i].addrs = {b} /\ state[b] # ABSENT
                                   /\ callbacks[i].to = SHUTDOWN => state[b] = SHUTDOWN
            BY <3>1 DEF BalancerInv, NewsIsOfConns
        <3>. QED
            BY <1>2, <3>1, <3>2
    <2>. QED
        BY <2>1, <2>2
<1>10. LastNewsIsTrue'
    <2>. SUFFICES ASSUME NEW b \in subConns
                  PROVE  state'[b] \notin {ABSENT, SHUTDOWN} /\ LastNewsIs(b)'
        BY <1>1 DEF LastNewsIsTrue
    <2>1. b \in Address /\ state[b] \notin {ABSENT, SHUTDOWN} /\ LastNewsIs(b)
        BY DEF BalancerInv, TypeOK, LastNewsIsTrue
    <2>2. IF c.kind = "state" /\ c.addrs = {b} THEN c.to = state'[b] ELSE state'[b] = state[b]
        BY <1>2, <1>3, <2>1
    <2>3. LastNewsIs(b)'
        BY <1>1, <1>3, <2>1, <2>2, LastNewsAppended DEF BalancerInv
    <2>. QED
        BY <1>2, <2>1, <2>3
<1>. QED
    BY <1>1, <1>4, <1>5, <1>6, <1>8, <1>9, <1>10 DEF BalancerInv

----------------------------------------------------------------------------
(* The callbacks of the balancer. *)

\* Calls that wait and pick again are calls.
LEMMA UnblockedType ==
    ASSUME call \in [Calls -> Call]
    PROVE  Unblocked \in [Calls -> Call]
<1>1. ASSUME NEW c \in Calls PROVE [call[c] EXCEPT !.phase = "picking"] \in Call
    BY DEF Call
<1>. QED
    BY <1>1 DEF Unblocked

\* A new list: what it lacks is shut down, and SubConns are made for new
\* addresses only.
LEMMA NewListKeeps ==
    ASSUME BalancerInv, UpdateClientConnState
    PROVE  BalancerInv'
<1>. DEFINE addrs == Told.addrs
            gone == subConns \ addrs
            s == SetToSeq({StateCallback(a, SHUTDOWN) : a \in gone})
<1>1. PICK made \in Creatable(addrs \ subConns) :
          /\ state' = [a \in Address |-> IF a \in gone THEN SHUTDOWN
                                         ELSE IF a \in made THEN CONNECTING ELSE state[a]]
          /\ subConns' = (subConns \cap addrs) \cup made
          /\ breaks' = breaks + Cardinality((addrs \ subConns) \ made)
          /\ callbacks' = Tail(callbacks) \o s
    BY DEF UpdateClientConnState
<1>2. /\ callbacks # <<>> /\ Told.kind = "list"
      /\ UNCHANGED <<lists, readySCs, picker, call>>
    BY DEF UpdateClientConnState
<1>3. gone \subseteq Address
    BY DEF BalancerInv, TypeOK
<1>4. s \in Seq(Callback) /\ \A j \in DOMAIN s : \E a \in gone : s[j] = StateCallback(a, SHUTDOWN)
    BY <1>3, ShutdownNews
<1>. HIDE DEF s
<1>5. /\ callbacks' \in Seq(Callback)
      /\ 1 \in DOMAIN callbacks /\ Told = callbacks[1] /\ Told \in Callback
      /\ \A i \in DOMAIN callbacks' :
             \/ i + 1 \in DOMAIN callbacks /\ callbacks'[i] = callbacks[i + 1]
             \/ \E j \in DOMAIN s : callbacks'[i] = s[j]
      /\ DOMAIN callbacks \subseteq Nat /\ DOMAIN callbacks' \subseteq Nat
    BY <1>1, <1>2, <1>4, MovesUp DEF BalancerInv
<1>6. /\ addrs \subseteq Address /\ made \subseteq addrs \ subConns
      /\ breaks + Cardinality((addrs \ subConns) \ made) <= MaxBreaks
    BY <1>5 DEF Creatable, Callback
<1>7. /\ \A a \in addrs : state[a] = ABSENT /\ a.attributes <= lists
      /\ \A a, b \in addrs : a.node = b.node => a = b
      /\ \A j \in DOMAIN callbacks : callbacks[j].kind = "list" /\ j # 1 =>
             addrs \cap callbacks[j].addrs = {}
    BY <1>2, <1>5 DEF BalancerInv, ListsAreNew
<1>. HIDE DEF gone, addrs
<1>8. /\ subConns \subseteq Address
      /\ \A a \in subConns : state[a] \notin {ABSENT, SHUTDOWN}
    BY DEF BalancerInv, TypeOK, LastNewsIsTrue
<1>9. /\ state' \in [Address -> States]
      /\ \A a \in gone : state'[a] = SHUTDOWN
      /\ \A a \in made : state'[a] = CONNECTING
      /\ \A a \in Address : a \notin gone /\ a \notin made => state'[a] = state[a]
    <2>1. /\ gone \cap made = {} /\ gone \subseteq Address /\ made \subseteq Address
          /\ state \in [Address -> States]
        BY <1>3, <1>6 DEF gone, BalancerInv, TypeOK
    <2>. QED
        BY <1>1, <2>1 DEF States
<1>10. TypeOK'
    <2>1. breaks' \in 0..MaxBreaks
        <3>1. Cardinality((addrs \ subConns) \ made) \in Nat
            BY <1>6, AddressesAreFinite
        <3>. QED
            BY <1>1, <1>6, <3>1, BalancerAssumption DEF BalancerInv, TypeOK
    <2>2. subConns' \subseteq Address
        BY <1>1, <1>6, <1>8
    <2>3. \A a \in subConns' \cup readySCs' : state'[a] # ABSENT
        <3>1. \A a \in subConns \cup readySCs : a \in Address /\ state[a] # ABSENT
            BY DEF BalancerInv, TypeOK
        <3>. QED
            BY <1>1, <1>2, <1>9, <3>1 DEF ABSENT, SHUTDOWN, CONNECTING
    <2>. QED
        BY <1>2, <1>9, <2>1, <2>2, <2>3 DEF BalancerInv, TypeOK
<1>11. OneConnPerNode'
    <2>1. \A a \in Address : state'[a] \notin {ABSENT, SHUTDOWN} => a \in subConns'
        BY <1>1, <1>9 DEF BalancerInv, OneConnPerNode, gone
    <2>2. subConns' \subseteq addrs
        BY <1>1, <1>6
    <2>. QED
        BY <1>7, <2>1, <2>2 DEF OneConnPerNode
<1>12. ListsAreNew'
    <2>1. \A a \in Address : state'[a] # ABSENT => a.attributes <= lists'
        BY <1>2, <1>6, <1>7, <1>8, <1>9 DEF BalancerInv, ListsAreNew, gone
    <2>2. ASSUME NEW i \in DOMAIN callbacks', callbacks'[i].kind = "list"
          PROVE  /\ i + 1 \in DOMAIN callbacks /\ callbacks'[i] = callbacks[i + 1]
                 /\ i + 1 # 1
        BY <1>4, <1>5, <2>2 DEF StateCallback
    <2>3. ASSUME NEW j \in DOMAIN callbacks, j # 1, callbacks[j].kind = "list"
          PROVE  \A a \in callbacks[j].addrs : state'[a] = ABSENT
        <3>1. \A a \in callbacks[j].addrs : a \in Address /\ state[a] = ABSENT /\ a \notin addrs
            BY <1>7, <2>3, CallbackType DEF BalancerInv, ListsAreNew
        <3>. QED
            BY <1>6, <1>8, <1>9, <3>1 DEF gone
    <2>4. ASSUME NEW i \in DOMAIN callbacks', callbacks'[i].kind = "list",
                 NEW j \in DOMAIN callbacks', callbacks'[j].kind = "list", j # i
          PROVE  callbacks'[i].addrs \cap callbacks'[j].addrs = {}
        <3>1. i + 1 # j + 1
            BY <1>5, <2>4
        <3>. QED
            BY <2>2, <2>4, <3>1 DEF BalancerInv, ListsAreNew
    <2>5. ASSUME NEW i \in DOMAIN callbacks', callbacks'[i].kind = "list"
          PROVE  /\ \A a \in callbacks'[i].addrs : state'[a] = ABSENT /\ a.attributes <= lists'
                 /\ \A a, b \in callbacks'[i].addrs : a.node = b.node => a = b
        BY <1>2, <2>2, <2>3, <2>5 DEF BalancerInv, ListsAreNew
    <2>. QED
        BY <2>1, <2>4, <2>5 DEF ListsAreNew
<1>13. NewsIsOfConns'
    <2>. SUFFICES ASSUME NEW i \in DOMAIN callbacks', callbacks'[i].kind = "state"
                  PROVE  \E a \in Address :
                             /\ callbacks'[i].addrs = {a} /\ state'[a] # ABSENT
                             /\ callbacks'[i].to = SHUTDOWN => state'[a] = SHUTDOWN
        BY DEF NewsIsOfConns
    <2>1. CASE i + 1 \in DOMAIN callbacks /\ callbacks'[i] = callbacks[i + 1]
        <3>1. PICK a \in Address : /\ callbacks[i + 1].addrs = {a} /\ state[a] # ABSENT
                                   /\ callbacks[i + 1].to = SHUTDOWN => state[a] = SHUTDOWN
            BY <2>1 DEF BalancerInv, NewsIsOfConns
        <3>2. a \notin made
            BY <1>6, <1>7, <3>1
        <3>3. state'[a] = state[a] \/ state'[a] = SHUTDOWN
            BY <1>9, <3>2
        <3>. QED
            BY <2>1, <3>1, <3>3 DEF ABSENT, SHUTDOWN
    <2>2. CASE \E j \in DOMAIN s : callbacks'[i] = s[j]
        <3>1. PICK a \in gone : callbacks'[i] = StateCallback(a, SHUTDOWN)
            BY <1>4, <2>2
        <3>. QED
            BY <1>3, <1>9, <3>1 DEF StateCallback, ABSENT, SHUTDOWN, gone
    <2>. QED
        BY <1>5, <2>1, <2>2
<1>14. LastNewsIsTrue'
    <2>1. ASSUME NEW a \in subConns, a \in addrs
          PROVE  state'[a] \notin {ABSENT, SHUTDOWN} /\ LastNewsIs(a)'
        BY <1>7, <1>8, <2>1
    <2>2. ASSUME NEW a \in made
          PROVE  state'[a] \notin {ABSENT, SHUTDOWN} /\ LastNewsIs(a)'
        <3>1. a \in Address /\ state[a] = ABSENT /\ a \notin gone
            BY <1>6, <1>7 DEF gone
        <3>2. \A i \in DOMAIN callbacks' : ~IsNews(i, a)'
            <4>1. \A i \in DOMAIN callbacks : callbacks[i].kind = "state" => callbacks[i].addrs # {a}
                BY <3>1 DEF BalancerInv, NewsIsOfConns
            <4>2. ASSUME NEW j \in DOMAIN s PROVE s[j].addrs # {a}
                <5>1. PICK b \in gone : s[j] = StateCallback(b, SHUTDOWN)
                    BY <1>4
                <5>2. s[j].addrs = {b} /\ b # a
                    BY <3>1, <5>1 DEF StateCallback
                <5>. QED
                    BY <5>2
            <4>. QED
                BY <1>5, <4>1, <4>2 DEF IsNews
        <3>3. a \notin readySCs' /\ state'[a] = CONNECTING
            BY <1>2, <1>9, <3>1 DEF BalancerInv, TypeOK
        <3>. QED
            BY <3>2, <3>3 DEF LastNewsIs, CONNECTING, READY, ABSENT, SHUTDOWN
    <2>. QED
        BY <1>1, <2>1, <2>2 DEF LastNewsIsTrue
<1>. QED
    BY <1>2, <1>5, <1>10, <1>11, <1>12, <1>13, <1>14 DEF BalancerInv

\* News of a SubConn that is tracked is taken in, other news is ignored.
LEMMA NewsKeeps ==
    ASSUME BalancerInv, UpdateSubConnState
    PROVE  BalancerInv'
<1>1. /\ callbacks # <<>> /\ Told.kind = "state" /\ callbacks' = Tail(callbacks)
      /\ UNCHANGED <<lists, state, breaks>>
    BY DEF UpdateSubConnState
<1>2. callbacks' = Tail(callbacks) \o <<>> /\ <<>> \in Seq(Callback) /\ DOMAIN <<>> = {}
    BY <1>1, TailMovesUp DEF BalancerInv
<1>3. /\ callbacks' \in Seq(Callback)
      /\ 1 \in DOMAIN callbacks /\ Told = callbacks[1] /\ Told \in Callback
      /\ \A i \in DOMAIN callbacks' :
             i + 1 \in DOMAIN callbacks /\ callbacks'[i] = callbacks[i + 1]
      /\ DOMAIN callbacks \subseteq Nat /\ DOMAIN callbacks' \subseteq Nat
    BY <1>1, <1>2, MovesUp DEF BalancerInv
<1>4. PICK t \in Address : /\ Told.addrs = {t} /\ state[t] # ABSENT
                           /\ Told.to = SHUTDOWN => state[t] = SHUTDOWN
    BY <1>1, <1>3 DEF BalancerInv, NewsIsOfConns
<1>5. /\ subConns' = subConns /\ readySCs' \subseteq readySCs \cup {t} /\ picker' = readySCs'
      /\ call' \in [Calls -> Call]
      /\ \A a \in subConns : /\ a = t => (a \in readySCs' <=> Told.to = READY)
                             /\ a # t => (a \in readySCs' <=> a \in readySCs)
    <2>1. CASE Told.addrs \cap subConns = {}
        BY <1>4, <2>1 DEF UpdateSubConnState, BalancerInv, TypeOK
    <2>2. CASE Told.addrs \cap subConns # {}
        <3>1. /\ readySCs' = IF Told.to = READY THEN readySCs \cup Told.addrs
                              ELSE readySCs \ Told.addrs
              /\ subConns' = IF Told.to = SHUTDOWN THEN subConns \ Told.addrs ELSE subConns
              /\ picker' = readySCs' /\ call' = Unblocked
            BY <2>2 DEF UpdateSubConnState, UpdatePicker
        <3>2. t \in subConns /\ Told.to # SHUTDOWN
            BY <1>4, <2>2 DEF BalancerInv, LastNewsIsTrue
        <3>3. call' \in [Calls -> Call]
            BY <3>1, UnblockedType DEF BalancerInv, TypeOK
        <3>. QED
            BY <1>4, <3>1, <3>2, <3>3
    <2>. QED
        BY <2>1, <2>2
<1>6. TypeOK'
    BY <1>1, <1>4, <1>5 DEF BalancerInv, TypeOK
<1>7. OneConnPerNode'
    BY <1>1, <1>5 DEF BalancerInv, OneConnPerNode
<1>8. ListsAreNew'
    <2>1. \A i, j \in DOMAIN callbacks' : i # j => i + 1 # j + 1
        BY <1>3
    <2>. QED
        BY <1>1, <1>3, <2>1 DEF BalancerInv, ListsAreNew
<1>9. NewsIsOfConns'
    BY <1>1, <1>3 DEF BalancerInv, NewsIsOfConns
<1>10. LastNewsIsTrue'
    <2>. SUFFICES ASSUME NEW a \in subConns
                  PROVE  state'[a] \notin {ABSENT, SHUTDOWN} /\ LastNewsIs(a)'
        BY <1>5 DEF LastNewsIsTrue
    <2>1. a \in Address /\ state[a] \notin {ABSENT, SHUTDOWN} /\ LastNewsIs(a)
        BY DEF BalancerInv, TypeOK, LastNewsIsTrue
    <2>2. IsNews(1, a) <=> a = t
        BY <1>1, <1>3, <1>4 DEF IsNews
    <2>3. LastNewsIs(a)'
        BY <1>1, <1>2, <1>5, <2>1, <2>2, LastNewsMovesUp DEF BalancerInv
    <2>. QED
        BY <1>1, <2>1, <2>3
<1>. QED
    BY <1>3, <1>5, <1>6, <1>7, <1>8, <1>9, <1>10 DEF BalancerInv

LEMMA CloseKeeps ==
    ASSUME BalancerInv, Close
    PROVE  BalancerInv'
<1>1. /\ state' = [a \in Address |-> IF a \in subConns THEN SHUTDOWN ELSE state[a]]
      /\ subConns' = {} /\ readySCs' = {} /\ picker' = {} /\ callbacks' = <<>>
      /\ UNCHANGED <<lists, call, breaks>>
    BY DEF Close
<1>2. callbacks' \in Seq(Callback) /\ DOMAIN callbacks' = {}
    BY <1>1, EmptySeq
<1>3. TypeOK'
    BY <1>1 DEF BalancerInv, TypeOK, States
<1>4. OneConnPerNode'
    BY <1>1 DEF BalancerInv, OneConnPerNode
<1>5. ListsAreNew'
    BY <1>1, <1>2 DEF BalancerInv, ListsAreNew, TypeOK
<1>6. NewsIsOfConns' /\ LastNewsIsTrue'
    BY <1>1, <1>2 DEF NewsIsOfConns, LastNewsIsTrue
<1>. QED
    BY <1>1, <1>2, <1>3, <1>4, <1>5, <1>6 DEF BalancerInv

----------------------------------------------------------------------------
(* The calls. *)

\* The rest of the invariant does not mention the calls.
LEMMA OnlyCalls ==
    ASSUME BalancerInv, call' \in [Calls -> Call],
           UNCHANGED <<lists, state, subConns, readySCs, picker, callbacks, breaks>>
    PROVE  BalancerInv'
<1>1. TypeOK' /\ OneConnPerNode'
    BY DEF BalancerInv, TypeOK, OneConnPerNode
<1>2. ListsAreNew'
    BY DEF BalancerInv, ListsAreNew
<1>3. NewsIsOfConns'
    BY DEF BalancerInv, NewsIsOfConns
<1>4. LastNewsIsTrue'
    BY DEF BalancerInv, LastNewsIsTrue, LastNewsIs, IsNews
<1>. QED
    BY <1>1, <1>2, <1>3, <1>4 DEF BalancerInv

LEMMA CallsKeep ==
    ASSUME BalancerInv, NEW c \in Calls,
           (\E ctx \in Ctx : StartCall(c, ctx)) \/ PickFor(c) \/ EndCall(c)
    PROVE  BalancerInv'
<1>1. UNCHANGED <<lists, state, subConns, readySCs, picker, callbacks, breaks>>
    BY DEF StartCall, PickFor, EndCall
<1>2. call \in [Calls -> Call] /\ call[c] \in Call
    BY DEF BalancerInv, TypeOK
<1>3. \E x \in Call : call' = [call EXCEPT ![c] = x]
    <2>1. ASSUME NEW ctx \in Ctx, StartCall(c, ctx) PROVE \E x \in Call : call' = [call EXCEPT ![c] = x]
        BY <2>1 DEF StartCall, Call
    <2>2. ASSUME PickFor(c) PROVE \E x \in Call : call' = [call EXCEPT ![c] = x]
        <3>1. /\ [call[c] EXCEPT !.phase = "blocked"] \in Call
              /\ [call[c] EXCEPT !.phase = "failed"] \in Call
            BY <1>2 DEF Call
        <3>2. ASSUME NEW a \in Address
              PROVE  [call[c] EXCEPT !.phase = "sent", !.node = a.node] \in Call
            BY <1>2 DEF Call, Address
        <3>3. Pick(picker, NodeOf, call[c].ctx) \subseteq Address
            BY DEF BalancerInv, TypeOK, Pick, PickSpecific, PickExcluding
        <3>. QED
            BY <2>2, <3>1, <3>2, <3>3 DEF PickFor
    <2>3. ASSUME EndCall(c) PROVE \E x \in Call : call' = [call EXCEPT ![c] = x]
        BY <2>3 DEF EndCall, Call, NoCall, AnyNode, Ctx
    <2>. QED
        BY <2>1, <2>2, <2>3
<1>4. call' \in [Calls -> Call]
    BY <1>2, <1>3
<1>. QED
    BY <1>1, <1>4, OnlyCalls

----------------------------------------------------------------------------
(* The theorems. *)

LEMMA StepInv == BalancerInv /\ [Next]_vars => BalancerInv'
<1>. SUFFICES ASSUME BalancerInv, [Next]_vars PROVE BalancerInv'
    OBVIOUS
<1>1. CASE \E nodes \in SUBSET Nodes : ListArrives(nodes)
    BY <1>1, ListArrivesKeeps
<1>2. CASE \E a \in Address, to \in States : ConnMoves(a, to)
    BY <1>2, ConnMovesKeeps
<1>3. CASE UpdateClientConnState \/ UpdateSubConnState \/ Close
    BY <1>3, NewListKeeps, NewsKeeps, CloseKeeps
<1>4. CASE \E c \in Calls : (\E ctx \in Ctx : StartCall(c, ctx)) \/ PickFor(c) \/ EndCall(c)
    BY <1>4, CallsKeep
<1>5. CASE UNCHANGED vars
    BY <1>5, OnlyCalls DEF vars, BalancerInv, TypeOK
<1>. QED
    BY <1>1, <1>2, <1>3, <1>4, <1>5 DEF Next

\* The inductive invariant holds in every behaviour of a channel.
THEOREM BalancerInvariant == Spec => []BalancerInv
BY InitInv, StepInv, PTL DEF Spec

\* Only SubConns that were created are tracked or offered.
THEOREM BalancerTypeCorrect == Spec => []TypeOK
<1>1. BalancerInv => TypeOK
    BY DEF BalancerInv
<1>. QED
    BY <1>1, BalancerInvariant, PTL

\* No list leaks a connection or makes a second one to a node.
THEOREM ConnsAreTracked == Spec => []OneConnPerNode
<1>1. BalancerInv => OneConnPerNode
    BY DEF BalancerInv
<1>. QED
    BY <1>1, BalancerInvariant, PTL

\* When every callback is delivered the picker offers every connection that is
\* up, and what else it offers was shut down by a list.
THEOREM PickerCatchesUp == Spec => []DeliveredPickerIsCurrent
<1>1. BalancerInv => DeliveredPickerIsCurrent
    <2>. SUFFICES ASSUME BalancerInv, callbacks = <<>>
                  PROVE  {a \in picker : state[a] # SHUTDOWN} = {a \in Address : state[a] = READY}
        BY DEF DeliveredPickerIsCurrent
    <2>1. \A a \in subConns : a \in readySCs <=> state[a] = READY
        BY DEF BalancerInv, LastNewsIsTrue, LastNewsIs
    <2>2. \A a \in Address : state[a] \notin {ABSENT, SHUTDOWN} => a \in subConns
        BY DEF BalancerInv, OneConnPerNode
    <2>3. picker = readySCs /\ \A a \in readySCs : a \in Address /\ state[a] # ABSENT
        BY DEF BalancerInv, TypeOK
    <2>. QED
        BY <2>1, <2>2, <2>3 DEF READY, ABSENT, SHUTDOWN
<1>. QED
    BY <1>1, BalancerInvariant, PTL

\* Whatever the picker still offers, a call is only sent to a node of the list
\* that was handled last.
THEOREM CallsGoToListedNodes == Spec => RemovedIsNotCalled
<1>1. BalancerInv /\ [Next]_vars =>
          [\A c \in Calls : call[c].phase = "picking" /\ call'[c].phase = "sent"
              => \E a \in subConns : a.node = call'[c].node]_vars
    <2>. SUFFICES ASSUME BalancerInv, Next, NEW c \in Calls,
                         call[c].phase = "picking", call'[c].phase = "sent"
                  PROVE  \E a \in subConns : a.node = call'[c].node
        OBVIOUS
    <2>1. call \in [Calls -> Call] /\ call' # call
        BY DEF BalancerInv, TypeOK
    <2>2. Unblocked[c].phase = "picking"
        BY DEF Unblocked
    <2>3. ~(\E nodes \in SUBSET Nodes : ListArrives(nodes))
        BY <2>1 DEF ListArrives
    <2>4. ~(\E a \in Address, to \in States : ConnMoves(a, to))
        BY <2>1 DEF ConnMoves
    <2>5. ~UpdateClientConnState /\ ~Close
        BY <2>1 DEF UpdateClientConnState, Close
    <2>6. ~UpdateSubConnState
        BY <2>1, <2>2 DEF UpdateSubConnState, UpdatePicker
    <2>7. PICK d \in Calls : (\E ctx \in Ctx : StartCall(d, ctx)) \/ PickFor(d) \/ EndCall(d)
        BY <2>3, <2>4, <2>5, <2>6 DEF Next
    <2>8. d = c
        BY <2>1, <2>7 DEF StartCall, PickFor, EndCall
    <2>9. PickFor(c)
        BY <2>1, <2>7, <2>8 DEF StartCall, EndCall, NoCall
    <2>10. PICK a \in Pick(picker, NodeOf, call[c].ctx) :
               call' = [call EXCEPT ![c] =
                          IF state[a] = READY THEN [@ EXCEPT !.phase = "sent", !.node = a.node]
                          ELSE [@ EXCEPT !.phase = "blocked"]]
        BY <2>1, <2>9 DEF PickFor, Call
    <2>11. state[a] = READY /\ call'[c].node = a.node
        <3>1. call \in [Calls -> Call] /\ call[c].phase # call'[c].phase
            BY <2>1, <2>10 DEF Call
        <3>2. call'[c] = IF state[a] = READY THEN [call[c] EXCEPT !.phase = "sent", !.node = a.node]
                         ELSE [call[c] EXCEPT !.phase = "blocked"]
            BY <2>10, <3>1
        <3>. QED
            BY <2>1, <3>1, <3>2 DEF Call
    <2>12. a \in Address
        BY <2>10 DEF BalancerInv, TypeOK, Pick, PickSpecific, PickExcluding
    <2>13. a \in subConns
        BY <2>11, <2>12 DEF BalancerInv, OneConnPerNode, READY, ABSENT, SHUTDOWN
    <2>. QED
        BY <2>11, <2>13
<1>. QED
    BY <1>1, BalancerInvariant, PTL DEF Spec, RemovedIsNotCalled
=============================================================================
