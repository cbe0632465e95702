------------------------- MODULE RetryBackoffProofs -------------------------
(***************************************************************************)
(* Proofs about RetryBackoff, for every width, unit, interval and limit,   *)
(* and for both conversions of a large float.                              *)
(***************************************************************************)
EXTENDS RetryBackoff, FiniteSetTheorems, TLAPS

----------------------------------------------------------------------------
(* Powers of two.  What is known of them comes from the numbers of subsets. *)

\* A power of two is a number of subsets, so that it is a natural number.
LEMMA PowerNat ==
    ASSUME NEW n \in Nat
    PROVE  2^n \in Nat /\ 2^n >= 1
<1>1. IsFiniteSet(1..n) /\ Cardinality(1..n) = n
    BY FS_Interval
<1>2. IsFiniteSet(SUBSET (1..n)) /\ Cardinality(SUBSET (1..n)) = 2^n
    BY <1>1, FS_SUBSET
<1>3. Cardinality(SUBSET (1..n)) \in Nat /\ Cardinality(SUBSET (1..n)) # 0
    <2>1. SUBSET (1..n) # {}
        OBVIOUS
    <2>. QED
        BY <1>2, <2>1, FS_CardinalityType, FS_EmptySet
<1>. QED
    BY <1>2, <1>3

\* To choose from two disjoint sets is to choose from each of them.
LEMMA PowerSum ==
    ASSUME NEW m \in Nat, NEW n \in Nat
    PROVE  2^(m + n) = 2^m * 2^n
<1>. DEFINE A == 1..m
            B == (m + 1)..(m + n)
            f == [X \in SUBSET (A \cup B) |-> <<X \cap A, X \cap B>>]
<1>1. /\ IsFiniteSet(A) /\ Cardinality(A) = m
      /\ IsFiniteSet(B) /\ Cardinality(B) = n
    <2>1. m + 1 \in Int /\ m + n \in Int
        OBVIOUS
    <2>. QED
        BY <2>1, FS_Interval
<1>2. A \cup B = 1..(m + n) /\ A \cap B = {}
    OBVIOUS
<1>. HIDE DEF A, B
<1>3. IsFiniteSet(A \cup B) /\ Cardinality(A \cup B) = m + n
    <2>1. \A k \in Nat : IsFiniteSet(1..k) /\ Cardinality(1..k) = k
        BY FS_Interval
    <2>2. IsFiniteSet(1..(m + n)) /\ Cardinality(1..(m + n)) = m + n
        <3>1. m + n \in Nat
            OBVIOUS
        <3>. QED
            BY <2>1, <3>1, Zenon
    <2>. QED
        BY <1>2, <2>2, Zenon
<1>4. ExistsBijection(SUBSET (A \cup B), (SUBSET A) \X (SUBSET B))
    <2>1. f \in [SUBSET (A \cup B) -> (SUBSET A) \X (SUBSET B)]
        OBVIOUS
    <2>2. ASSUME NEW X \in SUBSET (A \cup B), NEW Y \in SUBSET (A \cup B), f[X] = f[Y]
          PROVE  X = Y
        <3>1. X \cap A = Y \cap A /\ X \cap B = Y \cap B
            BY <2>2
        <3>. QED
            BY <3>1
    <2>3. ASSUME NEW t \in (SUBSET A) \X (SUBSET B)
          PROVE  \E X \in SUBSET (A \cup B) : f[X] = t
        <3>1. t = <<t[1], t[2]>> /\ t[1] \subseteq A /\ t[2] \subseteq B
            OBVIOUS
        <3>2. (t[1] \cup t[2]) \cap A = t[1] /\ (t[1] \cup t[2]) \cap B = t[2]
            BY <1>2, <3>1
        <3>3. t[1] \cup t[2] \in SUBSET (A \cup B)
            BY <3>1
        <3>4. f[t[1] \cup t[2]] = t
            BY <3>1, <3>2, <3>3
        <3>. QED
            BY <3>3, <3>4
    <2>. HIDE DEF f
    <2>4. f \in Bijection(SUBSET (A \cup B), (SUBSET A) \X (SUBSET B))
        BY <2>1, <2>2, <2>3 DEF Bijection, Injection, Surjection, IsInjective
    <2>. QED
        BY <2>4 DEF ExistsBijection
<1>5. Cardinality(SUBSET (A \cup B)) = Cardinality((SUBSET A) \X (SUBSET B))
    <2>1. IsFiniteSet(SUBSET (A \cup B))
        BY <1>3, FS_SUBSET
    <2>. QED
        BY <1>4, <2>1, FS_Bijection
<1>6. Cardinality(SUBSET (A \cup B)) = 2^(m + n)
    BY <1>3, FS_SUBSET
<1>7. Cardinality((SUBSET A) \X (SUBSET B)) = 2^m * 2^n
    <2>1. /\ IsFiniteSet(SUBSET A) /\ Cardinality(SUBSET A) = 2^m
          /\ IsFiniteSet(SUBSET B) /\ Cardinality(SUBSET B) = 2^n
        BY <1>1, FS_SUBSET
    <2>. QED
        BY <2>1, FS_Product
<1>. QED
    BY <1>5, <1>6, <1>7

----------------------------------------------------------------------------
(* Integers of Width bits. *)

Half == 2^(Width - 1)

LEMMA HalfIs ==
    /\ Half \in Nat /\ Half >= 1 /\ 2^Width = 2 * Half
    /\ Smallest = -Half /\ Largest = Half - 1
<1>1. Width - 1 \in Nat /\ 1 \in Nat /\ (Width - 1) + 1 = Width
    BY BackoffAssumption
<1>2. 2^((Width - 1) + 1) = 2^(Width - 1) * 2^1
    BY <1>1, PowerSum
<1>3. 2^1 = 2
    OBVIOUS
<1>4. 2^(Width - 1) \in Nat /\ 2^(Width - 1) >= 1
    BY <1>1, PowerNat
<1>5. 2^Width = 2 * 2^(Width - 1)
    BY <1>1, <1>2, <1>3, <1>4
<1>. QED
    BY <1>4, <1>5 DEF Half, Smallest, Largest

\* Wrapping round takes away a multiple of 2^Width, and nothing if x fits.
LEMMA WrapIs ==
    ASSUME NEW x \in Int
    PROVE  /\ Wrap(x) \in Int /\ -Half <= Wrap(x) /\ Wrap(x) <= Half - 1
           /\ \E q \in Int : x = Wrap(x) + (2 * Half) * q
           /\ -Half <= x /\ x <= Half - 1 => Wrap(x) = x
<1>. DEFINE M == 2 * Half
            y == x + Half
<1>1. Half \in Nat /\ Half >= 1 /\ M \in Nat /\ M > 0 /\ y \in Int
    BY HalfIs
<1>2. Wrap(x) = (y % M) - Half
    BY HalfIs DEF Wrap
<1>. HIDE DEF M, y
<1>3. y % M \in 0..(M - 1) /\ y \div M \in Int /\ y = M * (y \div M) + (y % M)
    BY <1>1, SMT
<1>4. 0 <= y /\ y < M => y % M = y
    BY <1>1, SMT
<1>. USE DEF M, y
<1>5. x = Wrap(x) + (2 * Half) * (y \div M)
    BY <1>1, <1>2, <1>3
<1>. QED
    BY <1>1, <1>2, <1>3, <1>4, <1>5

\* The conversion of a power gives an integer of the width.
LEMMA PowerIs ==
    ASSUME NEW k \in Nat
    PROVE  Power(k) \in Int
<1>1. 2^k \in Int
    BY PowerNat
<1>. QED
    BY <1>1, HalfIs DEF Power

----------------------------------------------------------------------------
(* One interval of the exponential strategy. *)

Config == [initial : Int, max : Int, maxRetries : Int]

\* Whatever the multiplication leaves, the interval is a positive one up to the
\* maximum, if there is one.
LEMMA IntervalIs ==
    ASSUME NEW c \in Config, -Half <= c.max, c.max <= Half - 1,
           NEW reached \in BOOLEAN, NEW n \in Nat, n >= 1
    PROVE  /\ Interval(c, reached, n).wait \in Smallest..Largest
           /\ Interval(c, reached, n).reached \in BOOLEAN
           /\ c.max > 0 => Interval(c, reached, n).wait \in 1..c.max
<1>1. c.initial \in Int /\ c.max \in Int /\ n - 1 \in Nat
    BY DEF Config
<1>2. c.initial * Power(n - 1) \in Int
    BY <1>1, PowerIs
<1>3. Raw(c, n) \in Int /\ -Half <= Raw(c, n) /\ Raw(c, n) <= Half - 1
    BY <1>2, WrapIs DEF Raw
<1>4. \/ Interval(c, reached, n) = [wait |-> c.max, reached |-> TRUE]
      \/ /\ Interval(c, reached, n) = [wait |-> Raw(c, n), reached |-> reached]
         /\ 0 < Raw(c, n) /\ Raw(c, n) <= c.max
    BY <1>1, <1>3 DEF Interval
<1>5. Half \in Nat /\ Smallest = -Half /\ Largest = Half - 1
    BY HalfIs
<1>6. CASE Interval(c, reached, n) = [wait |-> c.max, reached |-> TRUE]
    BY <1>1, <1>5, <1>6
<1>7. CASE /\ Interval(c, reached, n) = [wait |-> Raw(c, n), reached |-> reached]
           /\ 0 < Raw(c, n) /\ Raw(c, n) <= c.max
    BY <1>1, <1>3, <1>5, <1>7
<1>. QED
    BY <1>4, <1>6, <1>7

\* The configuration in durations.
LEMMA ConfigIs ==
    ASSUME TypeOK
    PROVE  LET c == ToRetryComponentConfig(config)
           IN  /\ c \in Config /\ c.maxRetries = config.maxRetries
               /\ c.initial = Wrap(config.initial * Unit) /\ c.max = Wrap(config.max * Unit)
               /\ config.initial * Unit \in Nat
               /\ -Half <= c.initial /\ c.initial <= Half - 1
               /\ -Half <= c.max /\ c.max <= Half - 1
<1>1. config.initial \in Nat /\ config.max \in Nat /\ config.maxRetries \in Int /\ Unit \in Nat
    BY BackoffAssumption DEF TypeOK
<1>2. config.initial * Unit \in Nat /\ config.max * Unit \in Nat
    BY <1>1
<1>3. /\ Wrap(config.initial * Unit) \in Int /\ Wrap(config.max * Unit) \in Int
      /\ -Half <= Wrap(config.initial * Unit) /\ Wrap(config.initial * Unit) <= Half - 1
      /\ -Half <= Wrap(config.max * Unit) /\ Wrap(config.max * Unit) <= Half - 1
    BY <1>2, WrapIs
<1>. QED
    BY <1>1, <1>2, <1>3 DEF ToRetryComponentConfig, Config

----------------------------------------------------------------------------
(* Type correctness and the bound of the waits. *)

\* The last wait is what a fresh strategy gives for the last retry.
WaitIsLast ==
    retryCount > 0 =>
        wait = Interval(ToRetryComponentConfig(config), FALSE, retryCount).wait

BackoffInv == TypeOK /\ WaitIsBounded /\ WaitIsLast

LEMMA InitInv == Init => BackoffInv
<1>. SUFFICES ASSUME Init PROVE BackoffInv
    OBVIOUS
<1>1. 0 \in Durations
    BY HalfIs DEF Durations
<1>2. /\ config \in [initial : Intervals, max : Intervals, maxRetries : Limits]
      /\ config.maxRetries \in Int
    BY BackoffAssumption DEF Init
<1>3. MaxCalls \in Nat /\ 0 \in 0..MaxCalls
    BY BackoffAssumption
<1>4. strategy \in [kind : Kinds, retries : 0..MaxCalls, reached : BOOLEAN] /\ strategy.retries = 0
    <2>1. PICK kind \in Kinds : strategy = [kind |-> kind, retries |-> 0, reached |-> FALSE]
        BY DEF Init, NewRetry
    <2>. QED
        BY <1>3, <2>1
<1>5. retryCount = 0 /\ wait = 0 /\ interval = 0
    BY DEF Init
<1>6. TypeOK
    BY <1>1, <1>2, <1>3, <1>4, <1>5 DEF TypeOK
<1>. QED
    BY <1>4, <1>5, <1>6 DEF BackoffInv, WaitIsBounded, WaitIsLast

LEMMA StepInv == BackoffInv /\ [Next]_vars => BackoffInv'
<1>. SUFFICES ASSUME BackoffInv, [Next]_vars PROVE BackoffInv'
    OBVIOUS
<1>. DEFINE c == ToRetryComponentConfig(config)
<1>1. /\ c \in Config /\ c.maxRetries = config.maxRetries /\ c.max = Wrap(config.max * Unit)
      /\ -Half <= c.max /\ c.max <= Half - 1
      /\ c.max \in Int /\ config.maxRetries \in Int
    BY ConfigIs DEF BackoffInv, Config
<1>2. MaxCalls \in Nat /\ retryCount \in Nat /\ strategy.retries \in Nat
    BY BackoffAssumption DEF BackoffInv, TypeOK
<1>. HIDE DEF c
<1>3. CASE UNCHANGED vars
    BY <1>3 DEF vars, BackoffInv, TypeOK, WaitIsBounded, WaitIsLast
<1>4. CASE UpdateRetryState
    <2>. DEFINE w == Interval(c, FALSE, retryCount + 1).wait
    <2>0. retryCount + 1 \in Nat /\ retryCount + 1 >= 1 /\ FALSE \in BOOLEAN
        BY <1>2
    <2>1. w \in Durations /\ (c.max > 0 => w \in 1..c.max)
        BY <1>1, <2>0, IntervalIs, Zenon DEF Durations
    <2>. HIDE DEF w
    <2>2. /\ wait' = w /\ retryCount' = retryCount + 1 /\ retryCount < MaxCalls
          /\ UNCHANGED <<config, strategy, interval>>
          /\ config.maxRetries > 0 => retryCount + 1 <= config.maxRetries
        BY <1>1, <1>2, <1>4 DEF UpdateRetryState, ShouldRetry, c, w
    <2>3. TypeOK'
        BY <1>2, <2>1, <2>2 DEF BackoffInv, TypeOK
    <2>4. WaitIsBounded'
        BY <1>1, <2>1, <2>2 DEF BackoffInv, WaitIsBounded
    <2>5. WaitIsLast'
        BY <2>2 DEF WaitIsLast, w, c
    <2>. QED
        BY <2>3, <2>4, <2>5 DEF BackoffInv
<1>5. CASE NextInterval
    <2>. DEFINE n == strategy.retries + 1
                i == Interval(c, strategy.reached, n)
    <2>1. i.wait \in Durations /\ i.reached \in BOOLEAN /\ (c.max > 0 => i.wait \in 1..c.max)
        BY <1>1, <1>2, IntervalIs DEF Durations, BackoffInv, TypeOK
    <2>2. FixedInterval(c).wait \in Durations /\ FixedInterval(c).reached = FALSE
        BY HalfIs, ConfigIs DEF FixedInterval, Durations, BackoffInv, c, Config
    <2>. HIDE DEF i
    <2>3. PICK next \in {FixedInterval(c), i} :
              /\ strategy.kind = "exponential" => next = i
              /\ strategy.retries < MaxCalls
              /\ strategy' = [strategy EXCEPT !.retries = @ + 1,
                                 !.reached = IF ShouldRetry(c, n) THEN next.reached ELSE @]
              /\ interval' = IF ShouldRetry(c, n) THEN next.wait ELSE interval
              /\ UNCHANGED <<config, retryCount, wait>>
        BY <1>5 DEF NextInterval, c, i
    <2>4. TypeOK'
        <3>1. interval' \in Durations
            BY <2>1, <2>2, <2>3 DEF BackoffInv, TypeOK
        <3>2. strategy' \in [kind : Kinds, retries : 0..MaxCalls, reached : BOOLEAN]
            <4>1. strategy \in [kind : Kinds, retries : 0..MaxCalls, reached : BOOLEAN]
                BY DEF BackoffInv, TypeOK
            <4>2. PICK b \in BOOLEAN : strategy' = [strategy EXCEPT !.retries = @ + 1, !.reached = b]
                BY <2>1, <2>2, <2>3, <4>1
            <4>3. strategy.retries + 1 \in 0..MaxCalls
                BY <1>2, <2>3
            <4>. QED
                BY <4>1, <4>2, <4>3
        <3>. QED
            BY <2>3, <3>1, <3>2 DEF BackoffInv, TypeOK
    <2>5. WaitIsBounded'
        <3>. SUFFICES ASSUME c.max > 0, strategy.kind = "exponential"
                      PROVE  interval' \in 1..c.max
            BY <1>1, <2>3 DEF BackoffInv, TypeOK, WaitIsBounded
        <3>1. CASE ShouldRetry(c, n)
            BY <2>1, <2>3, <3>1
        <3>2. CASE ~ShouldRetry(c, n)
            <4>1. strategy.retries > 0
                BY <1>1, <1>2, <3>2 DEF ShouldRetry
            <4>. QED
                BY <1>1, <2>3, <3>2, <4>1 DEF BackoffInv, WaitIsBounded
        <3>. QED
            BY <3>1, <3>2
    <2>6. WaitIsLast'
        BY <2>3 DEF BackoffInv, WaitIsLast
    <2>. QED
        BY <2>4, <2>5, <2>6 DEF BackoffInv
<1>. QED
    BY <1>3, <1>4, <1>5 DEF Next

----------------------------------------------------------------------------
(* Waits that shrink. *)

\* A positive multiple of a is at least a.
LEMMA Multiple ==
    ASSUME NEW a \in Nat, NEW z \in Int, a * z > 0
    PROVE  z >= 1 /\ a * z >= a
<1>1. CASE z <= 0
    BY <1>1, SMT
<1>2. CASE z >= 1
    BY <1>2, SMT
<1>. QED
    BY <1>1, <1>2

\* A larger factor gives a larger product.
LEMMA ProductGrows ==
    ASSUME NEW i \in Nat, i >= 1, NEW p \in Int, NEW x \in Int, p < x
    PROVE  i * p < i * x
<1>1. i * (x - p) >= x - p
    BY SMT
<1>2. i * (x - p) = i * x - i * p
    BY SMT
<1>. QED
    BY <1>1, <1>2

\* Below the largest power: if a product that wraps round is positive it is a
\* multiple of the power, and so at least as large.  If the interval it gives is
\* below the maximum and the first interval times the maximum fits, then nothing
\* has wrapped round, and the interval before was no longer.
LEMMA Uncapped ==
    ASSUME NEW i \in Nat, i >= 1, NEW max \in Int, i * max <= Half - 1,
           NEW k \in Nat, k >= 1, k < Width - 1,
           0 < Wrap(i * 2^k), Wrap(i * 2^k) < max
    PROVE  0 < Wrap(i * 2^(k - 1)) /\ Wrap(i * 2^(k - 1)) <= Wrap(i * 2^k)
<1>. DEFINE p == 2^k
            s == 2^(Width - k)
            h == 2^(k - 1)
<1>1. /\ k - 1 \in Nat /\ Width - k \in Nat /\ 1 \in Nat
      /\ k + (Width - k) = Width /\ (k - 1) + 1 = k
    BY BackoffAssumption
<1>2. p \in Nat /\ p >= 1 /\ s \in Nat /\ h \in Nat /\ h >= 1
    BY <1>1, PowerNat
<1>3. 2 * Half = p * s
    <2>1. 2^(k + (Width - k)) = p * s
        BY <1>1, PowerSum
    <2>. QED
        BY <1>1, <2>1, HalfIs
<1>4. p = 2 * h
    <2>1. 2^((k - 1) + 1) = h * 2^1
        BY <1>1, PowerSum
    <2>2. 2^1 = 2
        OBVIOUS
    <2>. QED
        BY <1>1, <1>2, <2>1, <2>2
<1>5. Half \in Nat
    BY HalfIs
<1>. HIDE DEF p, s, h
<1>6. i * p \in Int /\ i * h \in Int
    BY <1>2
<1>. DEFINE r == Wrap(i * p)
<1>7. r \in Int /\ 0 < r /\ r < max
    BY <1>6, WrapIs DEF p
<1>8. PICK q \in Int : i * p = r + (2 * Half) * q
    BY <1>6, WrapIs
<1>. HIDE DEF r
<1>9. r = p * (i - s * q)
    <2>1. (p * s) * q = p * (s * q) /\ i * p = p * i /\ s * q \in Int
        BY <1>2
    <2>2. p * (i - s * q) = p * i - p * (s * q)
        BY <1>2, <2>1
    <2>. QED
        BY <1>2, <1>3, <1>6, <1>7, <1>8, <2>1, <2>2
<1>10. r >= p
    <2>1. i - s * q \in Int
        BY <1>2
    <2>. QED
        BY <1>2, <1>7, <1>9, <2>1, Multiple
<1>11. i * p < Half - 1
    <2>1. p \in Int /\ p < max
        BY <1>2, <1>7, <1>10
    <2>2. i * p < i * max
        BY <2>1, ProductGrows
    <2>. QED
        BY <1>5, <1>6, <2>2
<1>12. i * p = 2 * (i * h) /\ i * h >= 1
    BY <1>2, <1>4
<1>13. Wrap(i * p) = i * p /\ Wrap(i * h) = i * h
    <2>1. /\ -Half <= i * p /\ i * p <= Half - 1
          /\ -Half <= i * h /\ i * h <= Half - 1
        BY <1>5, <1>6, <1>11, <1>12
    <2>. QED
        BY <1>6, <2>1, WrapIs
<1>14. 0 < Wrap(i * h) /\ Wrap(i * h) <= Wrap(i * p)
    BY <1>6, <1>12, <1>13
<1>. QED
    BY <1>14 DEF p, h

\* From the largest power on the first interval times the maximum does not fit.
LEMMA Capped ==
    ASSUME NEW i \in Nat, i >= 1, i <= Half - 1, NEW max \in Int, i * max <= Half - 1,
           NEW cap \in {Largest, Smallest}, 0 < Wrap(i * cap), Wrap(i * cap) < max
    PROVE  FALSE
<1>. DEFINE r == Wrap(i * cap)
<1>1. Half \in Nat /\ Half >= 1 /\ Smallest = -Half /\ Largest = Half - 1
    BY HalfIs
<1>2. cap \in Int /\ i * cap \in Int
    BY <1>1
<1>3. r \in Int /\ 0 < r /\ r < max /\ r <= Half - 1
    BY <1>2, WrapIs
<1>4. PICK q \in Int : i * cap = r + (2 * Half) * q
    BY <1>2, WrapIs
<1>. HIDE DEF r
<1>5. CASE cap = Smallest
    <2>1. r = Half * (-i - 2 * q)
        BY <1>1, <1>2, <1>3, <1>4, <1>5, SMT
    <2>2. -i - 2 * q \in Int
        OBVIOUS
    <2>3. r >= Half
        BY <1>1, <1>3, <2>1, <2>2, Multiple
    <2>. QED
        BY <1>1, <1>3, <2>3
<1>6. CASE cap = Largest
    <2>. DEFINE z == i - 2 * q
    <2>1. r = Half * z - i /\ z \in Int
        BY <1>1, <1>2, <1>3, <1>4, <1>6, SMT
    <2>. HIDE DEF z
    <2>2. Half * z \in Int /\ 0 < Half * z /\ Half * z <= 2 * Half - 2
        BY <1>1, <1>3, <2>1
    <2>3. z = 1
        <3>1. z >= 1
            BY <1>1, <2>1, <2>2, Multiple
        <3>2. z < 2
            <4>. SUFFICES ASSUME z >= 2 PROVE FALSE
                BY <2>1
            <4>1. Half * (z - 1) >= Half
                BY <1>1, <2>1, SMT
            <4>2. Half * (z - 1) = Half * z - Half
                BY <1>1, <2>1, SMT
            <4>. QED
                BY <1>1, <2>2, <4>1, <4>2
        <3>. QED
            BY <2>1, <3>1, <3>2
    <2>4. Half - i + 1 <= max
        BY <1>1, <1>3, <2>1, <2>3
    <2>5. (i - 1) * (Half - i) >= 0
        BY <1>1, SMT
    <2>6. i * (Half - i + 1) = Half + (i - 1) * (Half - i)
        BY <1>1, SMT
    <2>7. i * (Half - i + 1) <= i * max
        <3>1. CASE Half - i + 1 = max
            BY <1>1, <3>1
        <3>2. CASE Half - i + 1 < max
            <4>1. Half - i + 1 \in Int
                BY <1>1
            <4>2. i * (Half - i + 1) < i * max
                BY <3>2, <4>1, ProductGrows
            <4>. QED
                BY <1>1, <4>1, <4>2
        <3>. QED
            BY <1>1, <2>4, <3>1, <3>2
    <2>8. i * (Half - i + 1) \in Int /\ i * max \in Int /\ (i - 1) * (Half - i) \in Int
        BY <1>1
    <2>. QED
        BY <1>1, <2>5, <2>6, <2>7, <2>8
<1>. QED
    BY <1>5, <1>6

\* A fresh strategy that is asked for a later retry gives a shorter interval only
\* if the first interval times the longest does not fit.
LEMMA ShorterOverflows ==
    ASSUME TypeOK, NEW n \in Nat, n >= 1,
           Interval(ToRetryComponentConfig(config), FALSE, n + 1).wait
               < Interval(ToRetryComponentConfig(config), FALSE, n).wait
    PROVE  config.initial * Unit * ToRetryComponentConfig(config).max > Largest
<1>. DEFINE c == ToRetryComponentConfig(config)
            first == config.initial * Unit
            next == Wrap(c.initial * Power(n))
            last == Wrap(c.initial * Power(n - 1))
<1>1. /\ c.initial = Wrap(first) /\ first \in Nat
      /\ c.initial \in Int /\ c.initial <= Half - 1
      /\ c.max \in Int /\ c.max <= Half - 1
    BY ConfigIs DEF Config
<1>2. Half \in Nat /\ Half >= 1 /\ Largest = Half - 1
    BY HalfIs
<1>3. /\ n + 1 - 1 = n /\ n - 1 \in Nat
      /\ c.initial * Power(n) \in Int /\ c.initial * Power(n - 1) \in Int
    <2>1. n - 1 \in Nat
        OBVIOUS
    <2>2. Power(n) \in Int /\ Power(n - 1) \in Int
        BY <2>1, PowerIs
    <2>. QED
        BY <1>1, <2>1, <2>2
<1>4. next \in Int /\ last \in Int
    BY <1>3, WrapIs
<1>5. Raw(c, n + 1) = next /\ Raw(c, n) = last
    BY <1>3 DEF Raw
<1>. HIDE DEF c, first, next, last
<1>6. /\ Interval(c, FALSE, n + 1).wait = IF next <= 0 \/ next > c.max THEN c.max ELSE next
      /\ Interval(c, FALSE, n).wait = IF last <= 0 \/ last > c.max THEN c.max ELSE last
    BY <1>5 DEF Interval
<1>7. 0 < next /\ next < c.max /\ (last <= 0 \/ next < last)
    <2>1. Interval(c, FALSE, n + 1).wait < Interval(c, FALSE, n).wait
        BY DEF c
    <2>. DEFINE later == Interval(c, FALSE, n + 1).wait
                earlier == Interval(c, FALSE, n).wait
    <2>2. /\ next <= 0 \/ next > c.max => later = c.max
          /\ ~(next <= 0 \/ next > c.max) => later = next
          /\ last <= 0 \/ last > c.max => earlier = c.max
          /\ ~(last <= 0 \/ last > c.max) => earlier = last
        BY <1>6
    <2>. HIDE DEF later, earlier
    <2>3. later < earlier
        BY <2>1 DEF later, earlier
    <2>4. earlier <= c.max /\ earlier \in Int
        BY <1>1, <1>4, <2>2
    <2>5. later = next /\ 0 < next
        BY <1>1, <1>4, <2>2, <2>3, <2>4
    <2>6. next < c.max
        BY <1>1, <1>4, <2>3, <2>4, <2>5
    <2>7. last <= 0 \/ next < last
        BY <1>1, <1>4, <2>2, <2>3, <2>5
    <2>. QED
        BY <2>5, <2>6, <2>7
<1>8. CASE first > Half - 1
    <2>1. first * c.max >= first
        BY <1>1, <1>4, <1>7, <1>8, SMT
    <2>2. first * c.max \in Int
        BY <1>1
    <2>. QED
        BY <1>1, <1>2, <1>8, <2>1, <2>2 DEF c, first
<1>9. CASE first <= Half - 1
    <2>1. c.initial = first
        BY <1>1, <1>2, <1>9, WrapIs
    <2>2. first >= 1
        <3>. SUFFICES ASSUME first = 0 PROVE FALSE
            BY <1>1
        <3>1. c.initial * Power(n) = 0
            BY <1>3, <2>1, PowerIs
        <3>2. next = 0
            <4>1. -Half <= 0 /\ 0 <= Half - 1
                BY <1>2
            <4>. QED
                BY <3>1, <4>1, WrapIs DEF next
        <3>. QED
            BY <1>7, <3>2
    <2>. SUFFICES ASSUME first * c.max <= Half - 1 PROVE FALSE
        BY <1>1, <1>2 DEF c, first
    <2>3. CASE n < Width - 1
        <3>1. Power(n) = 2^n /\ Power(n - 1) = 2^(n - 1)
            <4>1. n < Width - 1 /\ n - 1 < Width - 1
                BY <2>3, BackoffAssumption
            <4>. QED
                BY <4>1 DEF Power
        <3>2. 0 < last /\ last <= next
            BY <1>1, <1>7, <2>1, <2>2, <2>3, <3>1, Uncapped DEF next, last
        <3>. QED
            BY <1>4, <1>7, <3>2
    <2>4. CASE ~(n < Width - 1)
        <3>1. Power(n) \in {Largest, Smallest}
            BY <2>4 DEF Power
        <3>. QED
            BY <1>1, <1>7, <1>9, <2>1, <2>2, <3>1, Capped DEF next
    <2>. QED
        BY <2>3, <2>4
<1>. QED
    BY <1>1, <1>2, <1>8, <1>9

----------------------------------------------------------------------------
(* Theorems. *)

\* What is known of a record's waits and of a kept strategy holds for ever.
THEOREM BackoffInvariant == Spec => []BackoffInv
BY InitInv, StepInv, PTL DEF Spec

\* Type correctness: every wait fits in a Duration, and updateRetryState stops at
\* a configured limit.
THEOREM BackoffTypeCorrect == Spec => []TypeOK
BY BackoffInvariant, PTL DEF BackoffInv

\* A maximum that fits bounds every exponential wait from above, and zero from
\* below, in every width and whatever the multiplication leaves.
THEOREM WaitsAreBounded == Spec => []WaitIsBounded
BY BackoffInvariant, PTL DEF BackoffInv

\* As long as the first interval times the longest one fits, the waits of a
\* record never shrink: no power wraps round to a short positive interval.
THEOREM ShrinkingOverflows == Spec => ShrinkIsOverflow
<1>. DEFINE c == ToRetryComponentConfig(config)
            Shrinks == retryCount > 0 /\ wait' < wait
<1>1. BackoffInv /\ [Next]_vars =>
          [Shrinks => config.initial * Unit * c.max > Largest]_vars
    <2>. SUFFICES ASSUME BackoffInv, [Next]_vars, retryCount > 0, wait' < wait
                  PROVE  config.initial * Unit * c.max > Largest
        OBVIOUS
    <2>1. wait \in Int /\ retryCount \in Nat
        BY HalfIs, BackoffAssumption DEF BackoffInv, TypeOK, Durations
    <2>2. UpdateRetryState
        BY <2>1 DEF Next, vars, NextInterval
    <2>3. wait' = Interval(c, FALSE, retryCount + 1).wait
        BY <2>2 DEF UpdateRetryState
    <2>4. wait = Interval(c, FALSE, retryCount).wait
        BY DEF BackoffInv, WaitIsLast
    <2>5. retryCount >= 1
        BY <2>1
    <2>. HIDE DEF c
    <2>6. Interval(c, FALSE, retryCount + 1).wait < Interval(c, FALSE, retryCount).wait
        BY <2>3, <2>4
    <2>. QED
        BY <2>1, <2>5, <2>6, ShorterOverflows DEF c, BackoffInv
<1>. QED
    BY <1>1, BackoffInvariant, PTL DEF Spec, ShrinkIsOverflow
=============================================================================
