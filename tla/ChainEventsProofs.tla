-------------------------- MODULE ChainEventsProofs --------------------------
(***************************************************************************)
(* What the repositories of chain events keep is what the chain says, for   *)
(* every set of resolutions, every length of a step and of a resolution,    *)
(* and any number of blocks, events, restarts and failures.                 *)
(*                                                                         *)
(* The argument: the log has a history, the state after each event, and     *)
(* the blocks cut it at the states in past.  A scan collects, once each,    *)
(* the events between two cuts; sorted they are a piece of the log; applied *)
(* one by one they take the cache, and counted they take the copy, from     *)
(* the state at the first cut to the state at the second.                  *)
(***************************************************************************)
EXTENDS ChainEvents, FiniteSetTheorems, SequenceTheorems, WellFoundedInduction, TLAPS

-----------------------------------------------------------------------------
(* The invariant: the chain *)

\* What an event makes of the resolutions that are open.
Effect(opened, event) ==
    [opened EXCEPT ![event.id] =
        CASE event.kind = "started" -> [count |-> event.count, since |-> event.block]
          [] event.kind = "resolved" ->
                [opened[event.id] EXCEPT !.count = opened[event.id].count - 1]
          [] event.kind = "timedOut" -> [opened[event.id] EXCEPT !.count = 0]]

\* The contracts start what is closed, and resolve and end what is open.
Legal(opened, event) ==
    IF event.kind = "started" THEN opened[event.id].count = 0 ELSE opened[event.id].count > 0

AllClosed == [id \in Ids |-> Closed]

\* history[n] is what was open after the first n events.
IsHistory(history) ==
    /\ history \in [0..Len(log) -> Opened]
    /\ history[0] = AllClosed
    /\ history[Len(log)] = open
    /\ \A n \in 1..Len(log) : /\ Legal(history[n - 1], log[n])
                              /\ history[n] = Effect(history[n - 1], log[n])
    /\ \A n \in 0..Len(log), id \in Ids :
          /\ history[n][id].since > 0 => \E i \in 1..n : log[i].block = history[n][id].since
          /\ InDatabase => history[n][id].count <= 1

\* The first n events are those of the blocks up to b.
Cut(b, n) == n \in 0..Len(log) /\ \A i \in 1..Len(log) : log[i].block <= b <=> i <= n

\* Nothing is open before the first block.
StateAt(b) == IF b > 0 THEN past[b] ELSE AllClosed

\* What was open at the end of a block is what was open after its last event.
IsPast(history) == \A b \in 0..block : \E n \in 0..Len(log) : Cut(b, n) /\ StateAt(b) = history[n]

\* An event is in a mined block or in the next one, and the state of each block is one
\* of the history.
ChainInv ==
    /\ \A i \in 1..Len(log) : /\ log[i].block <= block + 1
                              /\ InDatabase => /\ log[i].kind # "resolved"
                                               /\ log[i].count = 1
                                               /\ log[i].block >= OnboardBlock
    /\ \E history : IsHistory(history) /\ IsPast(history)

(* The invariant: the scan *)

\* The events a scan has been sent so far.
Answered ==
    {i \in 1..Len(log) :
        /\ log[i].block \in fromBlock..currentBlock
        /\ \E k \in 1..fetching : log[i].kind = Fetched[k]
                                  /\ (k = fetching => log[i].block < startBlock)}

Scanning == pc \in {"getCurrentBlock", "fetch"}

\* A scan begins where the last one ended or, the first one, before all that may still
\* be open, and it has what it was sent, each event once.
ScanInv ==
    /\ Scanning =>
        /\ lastSavedBlock > 0 => fromBlock = lastSavedBlock + 1
        /\ lastSavedBlock = 0 /\ InDatabase => fromBlock <= OnboardBlock
        /\ lastSavedBlock = 0 /\ InMemory =>
              fromBlock = 0 \/ fromBlock + Duration <= IF pc = "fetch" THEN currentBlock ELSE block
    /\ pc = "fetch" =>
        /\ startBlock \in fromBlock..currentBlock
        /\ IsInjective(collected)
        /\ Range(collected) = Answered
    /\ pc = "fetch" \/ Writing => currentBlock > 0
    /\ InMemory => Scanning \/ pc = "getFromBlock"

(* The invariant: the cache *)

\* The list holds what is open, but for what started before a block.
Agrees(active, opened, first) ==
    \A id \in Ids : \/ active[id] = opened[id].count
                    \/ active[id] = 0 /\ opened[id].since < first

\* Challenges and transfers: the list is the chain's at the last scanned block, but for
\* what was over when the first scan began.  Bundles: the list is the chain's, unless the
\* copy it was loaded from was not.
CacheInv ==
    /\ InMemory =>
          IF lastSavedBlock > 0
          THEN Agrees(cache, StateAt(lastSavedBlock), lastSavedBlock - Duration)
          ELSE cache = [id \in Ids |-> 0]
    /\ InDatabase /\ failures = 0 /\ brokenOff = 0 /\ pc # "load" =>
          Agrees(cache, StateAt(IF Writing THEN currentBlock ELSE lastSavedBlock), 0)

(* The invariant: the copy *)

\* The additions of a bundle up to a block.
AddedUpTo(b, id) ==
    {i \in 1..Len(log) : log[i].kind = "started" /\ log[i].id = id /\ log[i].block <= b}

\* The copy and the writes still due are together what the chain says at the last scanned
\* block, and never more than was ever added.  Broken off writes end the first, a copy
\* that failed to load leaves "at least" of it.
CopyInv == InDatabase =>
    /\ Scanning \/ pc = "getFromBlock" => /\ lastSavedBlock \in {0, savedBlock}
                                          /\ failures = 0 => lastSavedBlock = savedBlock
    /\ pc = "store" => savedBlock = currentBlock
    /\ ~Writing => toInsert = NoBundles /\ toDelete = NoBundles
    /\ brokenOff = 0 => \A id \in Ids :
          LET due == docs[id] + toInsert[id] - toDelete[id]
              count == StateAt(IF Writing THEN currentBlock ELSE savedBlock)[id].count
          IN  due >= count /\ (failures = 0 => due = count)
    /\ failures = 0 => \A id \in Ids :
          /\ docs[id] <= Cardinality(AddedUpTo(savedBlock, id))
          /\ Writing => docs[id] + toInsert[id] <= Cardinality(AddedUpTo(currentBlock, id))

Inv == TypeOK /\ ChainInv /\ ScanInv /\ CacheInv /\ CopyInv

-----------------------------------------------------------------------------
(* Numbers and sets *)

\* Induction up to a bound, for a set of numbers.
LEMMA UpTo ==
  ASSUME NEW n \in Nat, NEW S, 0 \in S, \A k \in 0..(n - 1) : k \in S => k + 1 \in S
  PROVE  0..n \subseteq S
<1> DEFINE T == {k \in 0..n : k \notin S}
<1>1. SUFFICES ASSUME T # {} PROVE FALSE
  OBVIOUS
<1>2. T \subseteq Nat
  OBVIOUS
<1>3. PICK t \in T : \A u \in T : ~(<<u, t>> \in OpToRel(<, Nat))
  BY <1>1, <1>2, NatLessThanWellFounded, WFMin
<1>4. \A u \in T : ~(u < t)
  BY <1>2, <1>3 DEF OpToRel
<1>5. t # 0 /\ t - 1 \in 0..(n - 1) /\ t - 1 < t
  OBVIOUS
<1>6. t - 1 \in S
  BY <1>4, <1>5
<1>7. QED
  BY <1>5, <1>6

LEMMA LastOfInterval ==
  ASSUME NEW k \in Nat, NEW X, k + 1 \in X, \A x \in X : x \in 1..(k + 1)
  PROVE  Max(X) = k + 1
  BY DEF Max

\* The elements of a finite set in a sequence: each one, once.
LEMMA SetToSeqIs ==
  ASSUME NEW S, IsFiniteSet(S)
  PROVE  SetToSeq(S) \in Seq(S) /\ IsInjective(SetToSeq(S)) /\ Range(SetToSeq(S)) = S
<1> DEFINE n == Cardinality(S)
<1>1. n \in Nat /\ ExistsBijection(1..n, S)
  BY FS_CardinalityType
<1>2. \E f \in [1..n -> S] : IsInjective(f)
  BY <1>1 DEF ExistsBijection, Bijection, Injection
<1>3. SetToSeq(S) \in [1..n -> S] /\ IsInjective(SetToSeq(S))
  BY <1>2 DEF SetToSeq
<1>4. SetToSeq(S) \in Seq(S)
  BY <1>1, <1>3, IsASeq
<1>5. SetToSeq(S) \in Injection(1..n, S)
  BY <1>3 DEF Injection
<1>6. Cardinality(1..n) = n
  BY <1>1, FS_Interval
<1>7. SetToSeq(S) \in Surjection(1..n, S)
  BY <1>5, <1>6, FS_Injection
<1>8. Range(SetToSeq(S)) = S
  BY <1>3, <1>7 DEF Surjection, Range
<1>9. QED
  BY <1>3, <1>4, <1>8

LEMMA ConcatRange ==
  ASSUME NEW S, NEW s \in Seq(S), NEW t \in Seq(S), IsInjective(s), IsInjective(t),
         Range(s) \cap Range(t) = {}
  PROVE  s \o t \in Seq(S) /\ IsInjective(s \o t) /\ Range(s \o t) = Range(s) \cup Range(t)
<1>1. Len(s) \in Nat /\ Len(t) \in Nat /\ DOMAIN s = 1..Len(s) /\ DOMAIN t = 1..Len(t)
  OBVIOUS
<1>2. s \o t \in Seq(S) /\ DOMAIN (s \o t) = 1..(Len(s) + Len(t))
  OBVIOUS
<1>3. \A i \in 1..Len(s) : (s \o t)[i] = s[i]
  OBVIOUS
<1>4. \A i \in 1..Len(t) : (s \o t)[Len(s) + i] = t[i]
  OBVIOUS
<1>5. \A i \in (Len(s) + 1)..(Len(s) + Len(t)) :
         i - Len(s) \in 1..Len(t) /\ (s \o t)[i] = t[i - Len(s)]
  BY <1>1, <1>2
<1>6. \A i \in 1..Len(s), j \in 1..Len(t) : s[i] # t[j]
  BY <1>1 DEF Range
<1>7. IsInjective(s \o t)
  <2> SUFFICES ASSUME NEW i \in 1..(Len(s) + Len(t)), NEW j \in 1..(Len(s) + Len(t)),
                      (s \o t)[i] = (s \o t)[j]
               PROVE  i = j
    BY <1>2 DEF IsInjective
  <2>1. CASE i <= Len(s) /\ j <= Len(s)
    BY <1>1, <1>3, <2>1 DEF IsInjective
  <2>2. CASE i <= Len(s) /\ j > Len(s)
    BY <1>1, <1>3, <1>5, <1>6, <2>2
  <2>3. CASE i > Len(s) /\ j <= Len(s)
    BY <1>1, <1>3, <1>5, <1>6, <2>3
  <2>4. CASE i > Len(s) /\ j > Len(s)
    <3>1. i - Len(s) \in 1..Len(t) /\ j - Len(s) \in 1..Len(t) /\ t[i - Len(s)] = t[j - Len(s)]
      BY <1>1, <1>5, <2>4
    <3>2. i - Len(s) = j - Len(s)
      BY <1>1, <3>1 DEF IsInjective
    <3>3. QED
      BY <1>1, <3>2
  <2>5. QED
    BY <1>1, <2>1, <2>2, <2>3, <2>4
<1>8. Range(s \o t) \subseteq Range(s) \cup Range(t)
  <2> SUFFICES ASSUME NEW i \in 1..(Len(s) + Len(t))
               PROVE  (s \o t)[i] \in Range(s) \cup Range(t)
    BY <1>2 DEF Range
  <2>1. CASE i <= Len(s)
    BY <1>1, <1>3, <2>1 DEF Range
  <2>2. CASE i > Len(s)
    BY <1>1, <1>5, <2>2 DEF Range
  <2>3. QED
    BY <1>1, <2>1, <2>2
<1>9. Range(s) \cup Range(t) \subseteq Range(s \o t)
  <2>1. \A i \in 1..Len(s) : i \in DOMAIN (s \o t)
    BY <1>1, <1>2
  <2>2. \A i \in 1..Len(t) : Len(s) + i \in DOMAIN (s \o t)
    BY <1>1, <1>2
  <2>3. QED
    BY <1>1, <1>3, <1>4, <2>1, <2>2 DEF Range
<1>10. QED
  BY <1>2, <1>7, <1>8, <1>9

-----------------------------------------------------------------------------
(* Sorting *)

\* What is increasing and stays between a + 1 and a + n is a + 1, a + 2, ...
LEMMA IncreasingIs ==
  ASSUME NEW a \in Int, NEW n \in Nat, NEW q \in [1..n -> (a + 1)..(a + n)],
         \A i, j \in 1..n : i < j => q[i] < q[j]
  PROVE  \A i \in 1..n : q[i] = a + i
<1> DEFINE Low == {k \in 0..n : k > 0 => q[k] >= a + k}
           High == {k \in 0..n : k < n => q[n - k] <= a + n - k}
<1>1. 0..n \subseteq Low
  <2>1. 0 \in Low
    OBVIOUS
  <2>2. ASSUME NEW k \in 0..(n - 1), k \in Low PROVE k + 1 \in Low
    <3>1. k + 1 \in 1..n /\ q[k + 1] \in (a + 1)..(a + n)
      OBVIOUS
    <3>2. CASE k = 0
      BY <3>1, <3>2
    <3>3. CASE k > 0
      <4>1. k \in 1..n /\ q[k] \in Int /\ q[k] < q[k + 1] /\ q[k] >= a + k
        BY <2>2, <3>3
      <4>2. QED
        BY <3>1, <4>1
    <3>4. QED
      BY <3>2, <3>3
  <2> HIDE DEF Low
  <2>3. QED
    BY <2>1, <2>2, UpTo
<1>2. 0..n \subseteq High
  <2>1. 0 \in High
    OBVIOUS
  <2>2. ASSUME NEW k \in 0..(n - 1), k \in High PROVE k + 1 \in High
    <3>1. SUFFICES ASSUME k + 1 < n PROVE q[n - (k + 1)] <= a + n - (k + 1)
      OBVIOUS
    <3>2. /\ n - k \in 1..n /\ n - (k + 1) \in 1..n /\ n - (k + 1) < n - k
      BY <3>1
    <3>3. q[n - (k + 1)] < q[n - k] /\ q[n - k] \in Int /\ q[n - (k + 1)] \in Int
      BY <3>2
    <3>4. q[n - k] <= a + n - k
      BY <2>2, <3>1
    <3>5. QED
      BY <3>3, <3>4
  <2> HIDE DEF High
  <2>3. QED
    BY <2>1, <2>2, UpTo
<1> HIDE DEF Low, High
<1>3. ASSUME NEW i \in 1..n PROVE q[i] = a + i
  <2>1. i \in 0..n /\ n - i \in 0..n /\ i > 0 /\ n - i < n /\ n - (n - i) = i
        /\ a + n - (n - i) = a + i
    OBVIOUS
  <2>2. i \in Low /\ n - i \in High
    BY <1>1, <1>2, <2>1
  <2>3. q[i] >= a + i
    BY <2>1, <2>2 DEF Low
  <2>4. q[n - (n - i)] <= a + n - (n - i)
    BY <2>1, <2>2 DEF High
  <2>5. q[i] <= a + i /\ q[i] \in Int
    BY <2>1, <2>4
  <2>6. QED
    BY <2>3, <2>5
<1>4. QED
  BY <1>3

\* Sorting what holds every position of an interval once lists the interval.
LEMMA SortedIs ==
  ASSUME NEW a \in Nat, NEW m \in Nat, a <= m, NEW p \in Seq(Nat), IsInjective(p),
         Range(p) = (a + 1)..m
  PROVE  /\ Len(p) = m - a
         /\ Sorted(p) = [n \in 1..(m - a) |-> a + n]
<1> DEFINE D == 1..Len(p)
           Sorts(f) == /\ IsInjective(f)
                       /\ \A i, j \in D : i < j => p[f[i]] <= p[f[j]]
<1>1. Len(p) \in Nat /\ DOMAIN p = D
  OBVIOUS
<1>2. \A i \in D : p[i] \in (a + 1)..m
  BY <1>1 DEF Range
<1>3. \A x \in (a + 1)..m : \E i \in D : p[i] = x
  BY <1>1 DEF Range
<1>4. Len(p) = m - a
  <2>1. p \in [D -> (a + 1)..m]
    BY <1>1, <1>2
  <2>2. p \in Bijection(D, (a + 1)..m)
    BY <1>1, <1>3, <2>1 DEF Bijection, Injection, Surjection
  <2>3. IsFiniteSet(D) /\ Cardinality(D) = Len(p)
    <3>1. 1 \in Int /\ Len(p) \in Int /\ (1 > Len(p) => Len(p) = 0) /\ Len(p) - 1 + 1 = Len(p)
      BY <1>1
    <3>2. QED
      BY <3>1, FS_Interval
  <2>4. Cardinality((a + 1)..m) = Len(p)
    BY <2>2, <2>3, FS_Bijection DEF ExistsBijection
  <2>5. Cardinality((a + 1)..m) = m - a
    <3>1. a + 1 \in Int /\ m \in Int /\ (a + 1 > m => m - a = 0) /\ m - (a + 1) + 1 = m - a
      OBVIOUS
    <3>2. QED
      BY <3>1, FS_Interval
  <2>6. QED
    BY <2>4, <2>5
<1>5. \E f \in [D -> D] : Sorts(f)
  <2> DEFINE f == [n \in D |-> CHOOSE i \in D : p[i] = a + n]
  <2>1. ASSUME NEW n \in D PROVE f[n] \in D /\ p[f[n]] = a + n
    <3>1. a + n \in (a + 1)..m
      BY <1>1, <1>4
    <3>2. \E i \in D : p[i] = a + n
      BY <1>3, <3>1
    <3>3. QED
      BY <3>2
  <2>2. f \in [D -> D]
    BY <2>1
  <2> HIDE DEF f
  <2>3. \A i, j \in D : f[i] = f[j] => i = j
    <3>1. \A i \in D : i \in Nat /\ p[f[i]] = a + i
      BY <2>1, <1>1
    <3>2. QED
      BY <3>1, SMTT(30)
  <2>4. \A i, j \in D : i < j => p[f[i]] <= p[f[j]]
    BY <1>1, <2>1
  <2>5. DOMAIN f = D
    BY <2>2
  <2>6. IsInjective(f)
    BY <2>3, <2>5 DEF IsInjective
  <2>7. QED
    BY <2>2, <2>4, <2>6
<1>6. PICK f \in [D -> D] : Sorts(f) /\ Sorted(p) = [n \in D |-> p[f[n]]]
  <2> DEFINE f == CHOOSE g \in [D -> D] : Sorts(g)
  <2>1. f \in [D -> D] /\ Sorts(f)
    BY <1>5
  <2>2. Sorted(p) = [n \in D |-> p[f[n]]]
    BY <1>1 DEF Sorted
  <2>3. QED
    BY <2>1, <2>2
<1>7. ASSUME NEW i \in D, NEW j \in D, i < j PROVE p[f[i]] < p[f[j]]
  <2>1. f[i] # f[j]
    BY <1>1, <1>6, <1>7 DEF IsInjective
  <2>2. p[f[i]] # p[f[j]]
    BY <1>1, <1>6, <2>1 DEF IsInjective
  <2>3. p[f[i]] <= p[f[j]]
    BY <1>6, <1>7
  <2>5. p[f[i]] \in Int /\ p[f[j]] \in Int
    <3>1. f[i] \in D /\ f[j] \in D
      BY <1>6
    <3>2. p[f[i]] \in (a + 1)..m /\ p[f[j]] \in (a + 1)..m
      BY <1>2, <3>1
    <3>3. QED
      BY <3>2
  <2>4. QED
    BY <2>2, <2>3, <2>5
<1>8. \A n \in D : p[f[n]] = a + n
  <2> DEFINE q == [n \in D |-> p[f[n]]]
  <2>1. PICK N \in Nat : N = Len(p) /\ D = 1..N /\ (a + 1)..m = (a + 1)..(a + N)
    <3>1. m = a + Len(p) /\ Len(p) \in Nat
      BY <1>1, <1>4
    <3>2. QED
      BY <3>1
  <2>2. \A n \in D : f[n] \in D /\ p[f[n]] \in (a + 1)..m
    BY <1>2, <1>6
  <2>3. q \in [D -> (a + 1)..m]
    BY <2>2
  <2>4. q \in [1..N -> (a + 1)..(a + N)]
    BY <2>1, <2>3
  <2>5. \A i, j \in 1..N : i < j => q[i] < q[j]
    BY <1>7, <2>1
  <2> HIDE DEF q
  <2>6. a \in Int
    OBVIOUS
  <2>7. \A i \in 1..N : q[i] = a + i
    BY <2>4, <2>5, <2>6, IncreasingIs
  <2>8. QED
    BY <2>1, <2>7 DEF q
<1>9. QED
  BY <1>4, <1>6, <1>8

-----------------------------------------------------------------------------
(* Applying events one after the other *)

\* The fold of the community modules is defined on all sets of indices; of them only the
\* intervals from 1 are used, and the value on such an interval is that after its last event.
Iterates(g, n, s, base) ==
    g = [x \in SUBSET (1..n) |-> IF x = {} THEN base ELSE Apply(g[x \ {Max(x)}], s[Max(x)])]

LEMMA FoldFunctionExists ==
  ASSUME NEW n \in Nat, NEW s, NEW base
  PROVE  \E g : Iterates(g, n, s, base)
<1> DEFINE S == {k \in 0..n : \E g : Iterates(g, k, s, base)}
<1>1. 0 \in S
  <2> DEFINE g == [x \in {{}} |-> base]
  <2>1. SUBSET (1..0) = {{}}
    OBVIOUS
  <2>2. Iterates(g, 0, s, base)
    BY <2>1 DEF Iterates
  <2> HIDE DEF g
  <2>3. QED
    BY <2>2
<1>2. ASSUME NEW k \in 0..(n - 1), k \in S PROVE k + 1 \in S
  <2>1. PICK g : Iterates(g, k, s, base)
    BY <1>2
  <2> DEFINE h == [x \in SUBSET (1..(k + 1)) |->
                     IF k + 1 \in x THEN Apply(g[x \ {k + 1}], s[k + 1]) ELSE g[x]]
  <2>2. ASSUME NEW x \in SUBSET (1..(k + 1))
        PROVE  h[x] = IF x = {} THEN base ELSE Apply(h[x \ {Max(x)}], s[Max(x)])
    <3>1. CASE k + 1 \in x
      <4>1. Max(x) = k + 1
        <5>1. k \in Nat /\ \A y \in x : y \in 1..(k + 1)
          OBVIOUS
        <5>2. QED
          BY <3>1, <5>1, LastOfInterval
      <4>2. x \ {k + 1} \in SUBSET (1..(k + 1)) /\ k + 1 \notin x \ {k + 1}
        OBVIOUS
      <4>3. h[x \ {k + 1}] = g[x \ {k + 1}]
        BY <4>2
      <4>4. h[x] = Apply(g[x \ {k + 1}], s[k + 1]) /\ x # {}
        BY <3>1
      <4> HIDE DEF h
      <4>5. QED
        BY <4>1, <4>3, <4>4
    <3>2. CASE k + 1 \notin x
      <4>1. x \in SUBSET (1..k)
        BY <3>2
      <4>2. x \ {Max(x)} \in SUBSET (1..k) /\ x \ {Max(x)} \in SUBSET (1..(k + 1))
            /\ k + 1 \notin x \ {Max(x)}
        BY <3>2, <4>1
      <4>3. h[x] = g[x] /\ h[x \ {Max(x)}] = g[x \ {Max(x)}]
        BY <3>2, <4>2
      <4>4. g[x] = IF x = {} THEN base ELSE Apply(g[x \ {Max(x)}], s[Max(x)])
        BY <2>1, <4>1 DEF Iterates
      <4> HIDE DEF h
      <4>5. QED
        BY <4>3, <4>4
    <3>3. QED
      BY <3>1, <3>2
  <2>3. h = [x \in SUBSET (1..(k + 1)) |-> h[x]]
    OBVIOUS
  <2> HIDE DEF h
  <2>4. Iterates(h, k + 1, s, base)
    BY <2>2, <2>3 DEF Iterates
  <2>5. QED
    BY <2>4
<1> HIDE DEF S
<1>3. n \in S
  BY <1>1, <1>2, UpTo
<1>4. QED
  BY <1>3 DEF S

Applied(active, events) == FoldLeft(Apply, active, events)

\* The values of the fold after each event.
FoldsTo(g, n, active, events) ==
    /\ g[0] = active
    /\ \A k \in 1..n : g[k] = Apply(g[k - 1], events[k])
    /\ Applied(active, events) = g[n]

LEMMA FoldSteps ==
  ASSUME NEW n \in Nat, NEW s, DOMAIN s = 1..n, NEW base
  PROVE  \E g : FoldsTo(g, n, base, s)
<1> DEFINE it == CHOOSE f : Iterates(f, n, s, base)
           g == [k \in 0..n |-> it[1..k]]
<1>1. \E f : Iterates(f, n, s, base)
  BY FoldFunctionExists
<1>2. Iterates(it, n, s, base)
  BY <1>1
<1>3. Applied(base, s) = it[1..n]
  BY DEF Applied, FoldLeft, MapThenFoldSet, Iterates
<1> HIDE DEF it
<1>4. it[{}] = base
  <2>1. {} \in SUBSET (1..n)
    OBVIOUS
  <2>2. QED
    BY <1>2, <2>1 DEF Iterates
<1>5. ASSUME NEW k \in 1..n PROVE it[1..k] = Apply(it[1..(k - 1)], s[k])
  <2>1. 1..k \in SUBSET (1..n) /\ 1..k # {}
    <3>1. 1 \in 1..k /\ \A i \in 1..k : i \in 1..n
      OBVIOUS
    <3>2. QED
      BY <3>1
  <2>2. k - 1 \in Nat /\ (k - 1) + 1 \in 1..k /\ \A x \in 1..k : x \in 1..((k - 1) + 1)
    OBVIOUS
  <2>3. Max(1..k) = (k - 1) + 1
    BY <2>2, LastOfInterval
  <2>4. Max(1..k) = k /\ (1..k) \ {k} = 1..(k - 1)
    BY <2>3
  <2>5. QED
    BY <1>2, <2>1, <2>4 DEF Iterates
<1>6. g[0] = base
  <2>1. 1..0 = {}
    OBVIOUS
  <2>2. QED
    BY <1>4, <2>1
<1>7. \A k \in 1..n : g[k] = Apply(g[k - 1], s[k])
  BY <1>5
<1>8. g[n] = it[1..n]
  OBVIOUS
<1> HIDE DEF g
<1>9. QED
  BY <1>3, <1>6, <1>7, <1>8 DEF FoldsTo

-----------------------------------------------------------------------------
(* The steps *)

FirstBlock == IF InMemory THEN EarliestBlock ELSE FoundOnboardBlock
AfterNothing == IF InMemory THEN "getFromBlock" ELSE "done"

\* The actions one by one, those of both repositories together.
LEMMA NextSteps ==
  ASSUME Next
  PROVE  /\ repository' = repository
         /\ \/ Chain
            \/ GetFromBlock(FirstBlock) /\ UNCHANGED databaseVars
            \/ GetCurrentBlock(AfterNothing) /\ UNCHANGED databaseVars
            \/ Fetch /\ UNCHANGED databaseVars
            \/ InMemory /\ UpdateActiveResolutions /\ UNCHANGED databaseVars
            \/ InMemory /\ Restart /\ UNCHANGED databaseVars
            \/ InDatabase /\ \/ Load \/ LoadFails \/ UpdateActiveBundles \/ SaveBlock
                             \/ \E id \in Ids : InsertBundle(id) \/ DeleteBundle(id)
                             \/ Stored \/ StoreFails \/ RestartAndLoad
<1>1. CASE Chain
  BY <1>1 DEF Next
<1>2. CASE ResolutionsNext
  <2>1. InMemory => FirstBlock = EarliestBlock /\ AfterNothing = "getFromBlock"
    BY DEF FirstBlock, AfterNothing
  <2>2. QED
    BY <1>2, <2>1 DEF Next, ResolutionsNext, OngoingResolutions, Tick
<1>3. CASE BundlesNext
  <2>1. InDatabase => FirstBlock = FoundOnboardBlock /\ AfterNothing = "done"
    BY DEF FirstBlock, AfterNothing, InMemory, InDatabase
  <2>2. QED
    BY <1>3, <2>1 DEF Next, BundlesNext, Scan
<1>4. QED
  BY <1>1, <1>2, <1>3 DEF Next

\* Only the chain writes the chain.
LEMMA ChainOrNot ==
  ASSUME Next
  PROVE  Chain \/ UNCHANGED chainVars
BY NextSteps DEF GetFromBlock, GetCurrentBlock, BeginScan, Fetch, FetchEvents,
   UpdateActiveResolutions, Restart, NewProcess, Load, LoadFails, UpdateActiveBundles, SaveBlock,
   InsertBundle, DeleteBundle, Stored, StoreFails, EndOfScan, RestartAndLoad, chainVars

LEMMA ChainSteps ==
  ASSUME Chain
  PROVE  \/ \E id \in Ids : \/ \E n \in Counts : ChainStarts(id, n)
                            \/ ChainResolves(id)
                            \/ ChainTimesOut(id)
         \/ Mine
BY DEF Chain

\* What the chain has said stays.
LEMMA ChainGrows ==
  ASSUME TypeOK, Next
  PROVE  /\ block' \in Nat /\ block <= block'
         /\ Len(log) \in Nat /\ Len(log') \in Nat /\ Len(log) <= Len(log')
         /\ \A i \in 1..Len(log) : log'[i] = log[i]
         /\ \A i \in (Len(log) + 1)..Len(log') : log'[i].block = block + 1
         /\ \A b \in 0..block : StateAt(b)' = StateAt(b)
         /\ repository' = repository
<1> USE DEF TypeOK, CollectorTypeOK
<1>1. repository' = repository
  BY NextSteps
<1>2. block \in Nat /\ Len(log) \in Nat /\ Len(past) = block
  OBVIOUS
<1>3. CASE UNCHANGED chainVars
  BY <1>1, <1>2, <1>3 DEF chainVars, StateAt, AllClosed
<1>4. CASE Chain
  <2>1. CASE Mine
    <3>1. /\ block' = block + 1 /\ past' = Append(past, open) /\ log' = log
      BY <2>1 DEF Mine
    <3>2. \A b \in 1..block : past'[b] = past[b]
      BY <1>2, <3>1
    <3>3. \A b \in 0..block : StateAt(b)' = StateAt(b)
      BY <3>2 DEF StateAt, AllClosed
    <3>4. QED
      BY <1>1, <1>2, <3>1, <3>3
  <2>2. ASSUME NEW e, log' = Append(log, e), e.block = block + 1, UNCHANGED <<block, past>>
        PROVE  /\ block' \in Nat /\ block <= block'
               /\ Len(log') \in Nat /\ Len(log) <= Len(log')
               /\ \A i \in 1..Len(log) : log'[i] = log[i]
               /\ \A i \in (Len(log) + 1)..Len(log') : log'[i].block = block + 1
               /\ \A b \in 0..block : StateAt(b)' = StateAt(b)
    <3>1. Len(log') = Len(log) + 1 /\ \A i \in 1..Len(log) : log'[i] = log[i]
      BY <2>2
    <3>2. log'[Len(log) + 1] = e
      BY <2>2
    <3>3. \A b \in 0..block : StateAt(b)' = StateAt(b)
      BY <2>2 DEF StateAt, AllClosed
    <3>4. QED
      BY <1>2, <2>2, <3>1, <3>2, <3>3
  <2>3. CASE \E kind, id, n : Emit(kind, id, n)
    <3>1. PICK kind, id, n : Emit(kind, id, n)
      BY <2>3
    <3> DEFINE e == [kind |-> kind, id |-> id, count |-> n, block |-> block + 1]
    <3>2. log' = Append(log, e) /\ e.block = block + 1 /\ UNCHANGED <<block, past>>
      BY <3>1 DEF Emit
    <3> HIDE DEF e
    <3>3. QED
      BY <1>1, <1>2, <2>2, <3>2
  <2>4. QED
    BY <1>4, <2>1, <2>3, ChainSteps DEF ChainStarts, ChainResolves, ChainTimesOut
<1>5. QED
  BY <1>3, <1>4, ChainOrNot

-----------------------------------------------------------------------------
(* The history of the chain *)

LEMMA EffectType ==
  ASSUME NEW opened \in Opened, NEW e \in Event, Legal(opened, e), e.block <= MaxBlock + 1
  PROVE  Effect(opened, e) \in Opened
<1> USE CollectorAssumption
<1>1. e.id \in Ids /\ e.kind \in Kinds /\ e.count \in 1..MaxCount /\ e.block \in 1..(MaxBlock + 1)
  BY DEF Event
<1>2. opened[e.id].count \in 0..MaxCount /\ opened[e.id].since \in 0..(MaxBlock + 1)
      /\ opened[e.id] \in [count : 0..MaxCount, since : 0..(MaxBlock + 1)]
  BY <1>1 DEF Opened
<1>3. CASE e.kind = "started"
  <2>1. [count |-> e.count, since |-> e.block] \in [count : 0..MaxCount, since : 0..(MaxBlock + 1)]
    BY <1>1
  <2>2. QED
    BY <1>1, <1>3, <2>1 DEF Effect, Opened
<1>4. CASE e.kind = "resolved"
  <2>1. opened[e.id].count - 1 \in 0..MaxCount
    BY <1>2, <1>4 DEF Legal
  <2>2. [opened[e.id] EXCEPT !.count = opened[e.id].count - 1]
           \in [count : 0..MaxCount, since : 0..(MaxBlock + 1)]
    BY <1>2, <2>1
  <2>3. QED
    BY <1>1, <1>4, <2>2 DEF Effect, Opened
<1>5. CASE e.kind = "timedOut"
  <2>1. [opened[e.id] EXCEPT !.count = 0] \in [count : 0..MaxCount, since : 0..(MaxBlock + 1)]
    BY <1>2
  <2>2. QED
    BY <1>1, <1>5, <2>1 DEF Effect, Opened
<1>6. QED
  BY <1>1, <1>3, <1>4, <1>5 DEF Kinds

\* A legal event makes the history one longer.
LEMMA EventKeepsChain ==
  ASSUME TypeOK, ChainInv, NEW e \in Event, e.block = block + 1,
         log' = Append(log, e), UNCHANGED <<repository, block, past>>,
         Legal(open, e), open' = Effect(open, e), open' \in Opened,
         InDatabase => e.kind # "resolved" /\ e.count = 1 /\ e.block >= OnboardBlock
  PROVE  ChainInv'
<1> USE DEF TypeOK, CollectorTypeOK
<1>1. /\ Len(log) \in Nat /\ Len(log') = Len(log) + 1
      /\ log'[Len(log) + 1] = e
      /\ \A i \in 1..Len(log) : log'[i] = log[i]
  OBVIOUS
<1>2. InDatabase' <=> InDatabase
  BY DEF InDatabase
<1>3. \A i \in 1..Len(log') : i \in 1..Len(log) \/ i = Len(log) + 1
  BY <1>1
<1>4. \A i \in 1..Len(log') : /\ log'[i].block <= block' + 1
                              /\ InDatabase' => /\ log'[i].kind # "resolved"
                                                /\ log'[i].count = 1
                                                /\ log'[i].block >= OnboardBlock
  BY <1>1, <1>2, <1>3, SMTT(30) DEF ChainInv
<1>5. PICK history : IsHistory(history) /\ IsPast(history)
  BY DEF ChainInv
<1>0. PICK longer : longer = [n \in 0..(Len(log) + 1) |-> IF n <= Len(log) THEN history[n] ELSE open']
  OBVIOUS
<1>6. /\ history[Len(log)] = open
      /\ \A n \in 0..Len(log) : longer[n] = history[n]
      /\ longer[Len(log) + 1] = open'
  BY <1>0, <1>1, <1>5 DEF IsHistory
<1>7. longer \in [0..Len(log') -> Opened]
  BY <1>0, <1>1, <1>5 DEF IsHistory
<1>8. ASSUME NEW n \in 1..Len(log')
      PROVE  Legal(longer[n - 1], log'[n]) /\ longer[n] = Effect(longer[n - 1], log'[n])
  <2>1. CASE n \in 1..Len(log)
    <3>1. n \in 0..Len(log) /\ n - 1 \in 0..Len(log)
      BY <1>1, <2>1
    <3>2. QED
      BY <1>1, <1>5, <1>6, <2>1, <3>1 DEF IsHistory
  <2>2. CASE n = Len(log) + 1
    <3>1. n - 1 = Len(log) /\ n - 1 \in 0..Len(log)
      BY <1>1, <2>2
    <3>2. QED
      BY <1>1, <1>6, <2>2, <3>1
  <2>3. QED
    BY <1>3, <2>1, <2>2
<1>9. ASSUME NEW n \in 0..Len(log'), NEW id \in Ids
      PROVE  /\ longer[n][id].since > 0 =>
                    \E i \in 1..n : log'[i].block = longer[n][id].since
             /\ InDatabase' => longer[n][id].count <= 1
  <2>0. \A i \in 1..Len(log) : i \in 1..(Len(log) + 1) /\ log'[i] = log[i]
    BY <1>1, SMTT(30)
  <2>1. CASE n \in 0..Len(log)
    <3>1. /\ history[n][id].since > 0 => \E i \in 1..n : log[i].block = history[n][id].since
          /\ InDatabase => history[n][id].count <= 1
      BY <1>5, <2>1 DEF IsHistory
    <3>2. \A i \in 1..n : i \in 1..Len(log)
      BY <1>1, <2>1
    <3>3. QED
      BY <1>2, <1>6, <2>0, <2>1, <3>1, <3>2
  <2>2. CASE n = Len(log) + 1
    <3>1. /\ open[id].since > 0 => \E i \in 1..Len(log) : log[i].block = open[id].since
          /\ InDatabase => open[id].count <= 1
      <4>1. Len(log) \in 0..Len(log)
        BY <1>1
      <4>2. QED
        BY <1>5, <1>6, <4>1 DEF IsHistory
    <3>2. CASE id # e.id
      <4>1. open'[id] = open[id]
        BY <3>2 DEF Effect, Opened
      <4>2. QED
        BY <1>2, <1>6, <2>0, <2>2, <3>1, <4>1
    <3>3. CASE id = e.id
      <4>0. id \in DOMAIN open /\ open[id].count \in Nat
        BY DEF Opened
      <4>1. CASE e.kind = "started"
        <5>1. open'[id].since = e.block /\ open'[id].count = e.count
          BY <3>3, <4>0, <4>1 DEF Effect
        <5>2. Len(log) + 1 \in 1..n /\ log'[Len(log) + 1].block = e.block
          BY <1>1, <2>2
        <5>3. longer[n] = open'
          BY <1>6, <2>2
        <5>4. longer[n][id].since = e.block /\ longer[n][id].count = e.count
          BY <3>3, <5>1, <5>3
        <5>5. InDatabase' => longer[n][id].count <= 1
          BY <1>2, <5>4, SMTT(30)
        <5>6. QED
          BY <5>2, <5>4, <5>5
      <4>2. CASE e.kind = "resolved"
        <5>1. open'[id].since = open[id].since
          BY <3>3, <4>0, <4>2 DEF Effect, Opened
        <5>2. QED
          BY <1>2, <1>6, <2>0, <2>2, <3>1, <4>2, <5>1
      <4>3. CASE e.kind = "timedOut"
        <5>1. open'[id].since = open[id].since /\ open'[id].count = 0
          BY <3>3, <4>0, <4>3 DEF Effect, Opened
        <5>2. QED
          BY <1>2, <1>6, <2>0, <2>2, <3>1, <5>1, SMTT(30)
      <4>4. QED
        BY <4>1, <4>2, <4>3 DEF Event, Kinds
    <3>4. QED
      BY <3>2, <3>3
  <2>3. n \in 0..Len(log) \/ n = Len(log) + 1
    BY <1>1
  <2>4. QED
    BY <2>1, <2>2, <2>3
<1>10. IsHistory(longer)'
  <2>1. longer[0] = AllClosed /\ longer[Len(log')] = open'
    BY <1>1, <1>5, <1>6 DEF IsHistory
  <2>2. QED
    BY <1>7, <1>8, <1>9, <2>1 DEF IsHistory, AllClosed
<1>11. IsPast(longer)'
  <2> SUFFICES ASSUME NEW b \in 0..block
               PROVE  \E n \in 0..Len(log') : Cut(b, n)' /\ StateAt(b)' = longer[n]
    BY DEF IsPast
  <2>1. PICK n \in 0..Len(log) : Cut(b, n) /\ StateAt(b) = history[n]
    BY <1>5 DEF IsPast
  <2>2. n \in 0..Len(log') /\ StateAt(b)' = longer[n]
    BY <1>1, <1>6, <2>1, SMTT(30) DEF StateAt, AllClosed
  <2>3. ~(e.block <= b) /\ ~(Len(log) + 1 <= n)
    BY <1>1
  <2>4. Cut(b, n)'
    BY <1>1, <1>3, <2>1, <2>2, <2>3 DEF Cut
  <2>5. QED
    BY <2>2, <2>4
<1>12. QED
  BY <1>4, <1>10, <1>11 DEF ChainInv

LEMMA ChainInvInit == Init => ChainInv
<1> SUFFICES ASSUME Init PROVE ChainInv
  OBVIOUS
<1> USE CollectorAssumption DEF Init, CollectorInit, ChainInit
<1>1. log = <<>> /\ Len(log) = 0 /\ open = AllClosed /\ block = 1 /\ past = <<open>>
  BY DEF AllClosed
<1> DEFINE history == [n \in {0} |-> AllClosed]
<1>2. 0..0 = {0} /\ 1..0 = {} /\ 0..1 = {0, 1}
  OBVIOUS
<1>3. AllClosed \in Opened
  BY DEF AllClosed, Opened, Closed
<1>4. IsHistory(history)
  BY <1>1, <1>2, <1>3 DEF IsHistory, AllClosed, Closed
<1>5. StateAt(0) = AllClosed /\ StateAt(1) = AllClosed
  BY <1>1 DEF StateAt
<1>6. Cut(0, 0) /\ Cut(1, 0)
  BY <1>1, <1>2 DEF Cut
<1>7. IsPast(history)
  BY <1>1, <1>2, <1>5, <1>6 DEF IsPast
<1>8. QED
  BY <1>1, <1>2, <1>4, <1>7 DEF ChainInv

LEMMA ChainInvStep ==
  ASSUME TypeOK, ChainInv, Next
  PROVE  ChainInv' /\ block' \in 1..MaxBlock /\ log' \in Seq(Event) /\ open' \in Opened
         /\ past' \in Seq(Opened) /\ Len(past') = block'
<1> USE CollectorAssumption DEF TypeOK, CollectorTypeOK
<1>1. repository' = repository
  BY NextSteps
<1>2. CASE UNCHANGED chainVars
  <2>1. PICK history : IsHistory(history) /\ IsPast(history)
    BY DEF ChainInv
  <2>2. block' = block /\ log' = log /\ open' = open /\ past' = past
    BY <1>2 DEF chainVars
  <2>3. IsHistory(history)'
    BY <1>1, <2>1, <2>2 DEF IsHistory, AllClosed, InDatabase
  <2>4. IsPast(history)'
    BY <1>1, <2>1, <2>2 DEF IsPast, Cut, StateAt, AllClosed
  <2>5. QED
    BY <1>1, <2>2, <2>3, <2>4 DEF ChainInv, InDatabase
<1>3. CASE Mine
  <2>1. /\ block' = block + 1 /\ past' = Append(past, open) /\ log' = log /\ open' = open
        /\ block < MaxBlock
    BY <1>3 DEF Mine
  <2>2. PICK history : IsHistory(history) /\ IsPast(history)
    BY DEF ChainInv
  <2>3. IsHistory(history)'
    BY <1>1, <2>1, <2>2 DEF IsHistory, AllClosed, InDatabase
  <2>4. ASSUME NEW b \in 0..block'
        PROVE  \E n \in 0..Len(log) : Cut(b, n)' /\ StateAt(b)' = history[n]
    <3>1. CASE b \in 0..block
      <4>1. PICK n \in 0..Len(log) : Cut(b, n) /\ StateAt(b) = history[n]
        BY <2>2, <3>1 DEF IsPast
      <4>2. StateAt(b)' = StateAt(b)
        BY <2>1, <3>1 DEF StateAt, AllClosed
      <4>3. QED
        BY <2>1, <4>1, <4>2 DEF Cut
    <3>2. CASE b = block + 1
      <4>1. PICK n \in 0..Len(log) : n = Len(log)
        OBVIOUS
      <4>2. StateAt(b)' = history[n]
        BY <2>1, <2>2, <3>2, <4>1 DEF StateAt, IsHistory
      <4>3. Cut(b, n)'
        BY <2>1, <3>2, <4>1 DEF Cut, ChainInv
      <4>4. QED
        BY <4>2, <4>3
    <3>3. QED
      BY <2>1, <3>1, <3>2
  <2>5. IsPast(history)'
    BY <2>1, <2>4 DEF IsPast
  <2>6. \A i \in 1..Len(log') : log'[i].block <= block' + 1
    <3>1. \A i \in 1..Len(log) : log[i].block \in Int /\ log[i].block <= block + 1
      <4>1. \A i \in 1..Len(log) : log[i] \in Event
        OBVIOUS
      <4>2. \A e \in Event : e.block \in Int
        BY DEF Event
      <4>3. QED
        BY <4>1, <4>2 DEF ChainInv
    <3>2. QED
      BY <2>1, <3>1
  <2>7. ChainInv'
    BY <1>1, <2>1, <2>3, <2>5, <2>6 DEF ChainInv, InDatabase
  <2>8. QED
    BY <2>1, <2>7
<1>4. ASSUME NEW kind \in Kinds, NEW id \in Ids, NEW n \in 1..MaxCount, Emit(kind, id, n),
             NEW e, e = [kind |-> kind, id |-> id, count |-> n, block |-> block + 1],
             Legal(open, e), open' = Effect(open, e),
             InDatabase => kind # "resolved" /\ n = 1
      PROVE  ChainInv' /\ block' \in 1..MaxBlock /\ log' \in Seq(Event) /\ open' \in Opened
             /\ past' \in Seq(Opened) /\ Len(past') = block'
  <2>1. e \in Event /\ e.block = block + 1 /\ e.count = n /\ e.kind = kind /\ e.id = id
    BY <1>4 DEF Event
  <2>2. /\ log' = Append(log, e) /\ UNCHANGED <<repository, block, past>>
        /\ InDatabase => block + 1 >= OnboardBlock
    BY <1>1, <1>4 DEF Emit
  <2>3. open' \in Opened
    BY <1>4, <2>1, EffectType, SMTT(30)
  <2>4. ChainInv'
    BY <1>4, <2>1, <2>2, <2>3, EventKeepsChain
  <2>5. QED
    BY <2>1, <2>2, <2>3, <2>4
<1>5. ASSUME NEW id \in Ids, NEW n \in Counts, ChainStarts(id, n)
      PROVE  ChainInv' /\ block' \in 1..MaxBlock /\ log' \in Seq(Event) /\ open' \in Opened
             /\ past' \in Seq(Opened) /\ Len(past') = block'
  <2> DEFINE e == [kind |-> "started", id |-> id, count |-> n, block |-> block + 1]
  <2>1. n \in 1..MaxCount /\ (InDatabase => n = 1)
    BY SMTT(30) DEF Counts, InMemory, InDatabase
  <2>2. Legal(open, e) /\ open' = Effect(open, e) /\ Emit("started", id, n)
    BY <1>5 DEF ChainStarts, Legal, Effect
  <2>3. QED
    BY <1>4, <2>1, <2>2 DEF Kinds
<1>6. ASSUME NEW id \in Ids, ChainResolves(id)
      PROVE  ChainInv' /\ block' \in 1..MaxBlock /\ log' \in Seq(Event) /\ open' \in Opened
             /\ past' \in Seq(Opened) /\ Len(past') = block'
  <2> DEFINE e == [kind |-> "resolved", id |-> id, count |-> 1, block |-> block + 1]
  <2>1. 1 \in 1..MaxCount
    OBVIOUS
  <2>2. ~InDatabase
    BY <1>6 DEF ChainResolves, InMemory, InDatabase
  <2>3. Legal(open, e) /\ Emit("resolved", id, 1)
    BY <1>6 DEF ChainResolves, Legal
  <2>4. open' = Effect(open, e)
    BY <1>6 DEF ChainResolves, Effect
  <2>5. QED
    BY <1>4, <2>1, <2>2, <2>3, <2>4 DEF Kinds
<1>7. ASSUME NEW id \in Ids, ChainTimesOut(id)
      PROVE  ChainInv' /\ block' \in 1..MaxBlock /\ log' \in Seq(Event) /\ open' \in Opened
             /\ past' \in Seq(Opened) /\ Len(past') = block'
  <2> DEFINE e == [kind |-> "timedOut", id |-> id, count |-> 1, block |-> block + 1]
  <2>1. 1 \in 1..MaxCount
    OBVIOUS
  <2>2. Legal(open, e) /\ open' = Effect(open, e) /\ Emit("timedOut", id, 1)
    BY <1>7 DEF ChainTimesOut, Legal, Effect
  <2>3. QED
    BY <1>4, <2>1, <2>2 DEF Kinds
<1>8. QED
  BY <1>2, <1>3, <1>5, <1>6, <1>7, ChainOrNot, ChainSteps

-----------------------------------------------------------------------------
(* The requests of a scan *)

LEMMA FetchedIs ==
  ASSUME repository \in {"resolutions", "shelteredBundles"}
  PROVE  /\ Len(Fetched) \in {2, 3}
         /\ \A k \in 1..Len(Fetched) : Fetched[k] \in Kinds
         /\ \A k, l \in 1..Len(Fetched) : Fetched[k] = Fetched[l] => k = l
         /\ \A kind \in Kinds : \/ \E k \in 1..Len(Fetched) : Fetched[k] = kind
                                \/ InDatabase /\ kind = "resolved"
<1>1. CASE InMemory
  <2>1. Fetched = <<"started", "resolved", "timedOut">>
    BY <1>1 DEF Fetched
  <2> HIDE DEF Fetched
  <2>2. Len(Fetched) = 3 /\ Fetched[1] = "started" /\ Fetched[2] = "resolved" /\ Fetched[3] = "timedOut"
    BY <2>1
  <2>3. 1..Len(Fetched) = {1, 2, 3}
    BY <2>2
  <2>4. QED
    BY <2>2, <2>3 DEF Kinds
<1>2. CASE InDatabase
  <2>1. Fetched = <<"started", "timedOut">>
    BY <1>2 DEF Fetched, InMemory, InDatabase
  <2> HIDE DEF Fetched
  <2>2. Len(Fetched) = 2 /\ Fetched[1] = "started" /\ Fetched[2] = "timedOut"
    BY <2>1
  <2>3. 1..Len(Fetched) = {1, 2}
    BY <2>2
  <2>4. QED
    BY <1>2, <2>2, <2>3 DEF Kinds
<1>3. QED
  BY <1>1, <1>2 DEF InMemory, InDatabase

\* The events the next request is answered with.
RequestedEvents ==
    {i \in DOMAIN log : /\ log[i].kind = Fetched[fetching]
                        /\ log[i].block \in startBlock..EndBlock}

LEMMA RequestedIs ==
  ASSUME TypeOK
  PROVE  /\ Requested \in Seq(DOMAIN log) /\ IsInjective(Requested)
         /\ Range(Requested) = RequestedEvents
<1>1. Len(log) \in Nat /\ DOMAIN log = 1..Len(log)
  BY DEF TypeOK, CollectorTypeOK
<1>2. IsFiniteSet(1..Len(log))
  BY <1>1, FS_Interval
<1>3. RequestedEvents \in SUBSET (1..Len(log))
  BY <1>1 DEF RequestedEvents
<1>4. IsFiniteSet(RequestedEvents)
  BY <1>2, <1>3, FS_Subset
<1>5. Requested = SetToSeq(RequestedEvents)
  BY DEF Requested, RequestedEvents
<1>6. /\ Requested \in Seq(RequestedEvents) /\ IsInjective(Requested)
      /\ Range(Requested) = RequestedEvents
  BY <1>4, <1>5, SetToSeqIs
<1>7. Requested \in Seq(DOMAIN log)
  BY <1>1, <1>3, <1>6, SeqMonotonic
<1>8. QED
  BY <1>6, <1>7

LEMMA AnswersAre ==
  ASSUME TypeOK, ScanInv, pc = "fetch"
  PROVE  /\ collected \o Requested \in Seq(DOMAIN log)
         /\ IsInjective(collected \o Requested)
         /\ Range(collected \o Requested) = Answered \cup RequestedEvents
<1>1. collected \in Seq(DOMAIN log) /\ IsInjective(collected) /\ Range(collected) = Answered
  BY DEF ScanInv, TypeOK, CollectorTypeOK
<1>2. Answered \cap RequestedEvents = {}
  <2> SUFFICES ASSUME NEW i \in Answered, i \in RequestedEvents PROVE FALSE
    OBVIOUS
  <2>1. PICK k \in 1..fetching : /\ log[i].kind = Fetched[k]
                                 /\ k = fetching => log[i].block < startBlock
    BY DEF Answered
  <2>2. log[i].kind = Fetched[fetching] /\ log[i].block \in startBlock..EndBlock
    BY DEF RequestedEvents
  <2>3. fetching \in 1..Len(Fetched) /\ Len(Fetched) \in Nat /\ startBlock \in Int
    BY FetchedIs DEF TypeOK, CollectorTypeOK
  <2>4. k = fetching
    <3>1. k \in 1..Len(Fetched) /\ Fetched[k] = Fetched[fetching]
      BY <2>1, <2>2, <2>3
    <3>2. \A l, n \in 1..Len(Fetched) : Fetched[l] = Fetched[n] => l = n
      BY FetchedIs DEF TypeOK, CollectorTypeOK
    <3>3. QED
      BY <2>3, <3>1, <3>2
  <2>5. QED
    BY <2>1, <2>2, <2>3, <2>4
<1>3. QED
  BY <1>1, <1>2, RequestedIs, ConcatRange

LEMMA EventIs ==
  ASSUME TypeOK, NEW i \in 1..Len(log)
  PROVE  /\ log[i] \in Event /\ log[i].kind \in Kinds /\ log[i].id \in Ids
         /\ log[i].count \in 1..MaxCount /\ log[i].block \in 1..(MaxBlock + 1)
<1>1. log[i] \in Event
  BY DEF TypeOK, CollectorTypeOK
<1>2. QED
  BY <1>1 DEF Event

\* When the last answer is there, all events of the range are.
LEMMA AllAnswered ==
  ASSUME TypeOK, ChainInv, ScanInv, pc = "fetch", LastRequest
  PROVE  Answered \cup RequestedEvents
           = {i \in 1..Len(log) : log[i].block \in fromBlock..currentBlock}
<1>1. /\ fetching = Len(Fetched) /\ Len(Fetched) \in Nat /\ startBlock + Step > currentBlock
      /\ startBlock \in fromBlock..currentBlock /\ fromBlock \in Int /\ currentBlock \in Int
      /\ Step \in Nat /\ DOMAIN log = 1..Len(log)
  BY CollectorAssumption, FetchedIs DEF LastRequest, LastOfKind, ScanInv, TypeOK, CollectorTypeOK
<1>2. EndBlock = currentBlock
  BY <1>1 DEF EndBlock
<1>3. ASSUME NEW i \in 1..Len(log), log[i].block \in fromBlock..currentBlock
      PROVE  i \in Answered \cup RequestedEvents
  <2>1. PICK k \in 1..Len(Fetched) : Fetched[k] = log[i].kind
    BY EventIs, FetchedIs DEF ChainInv, TypeOK, CollectorTypeOK
  <2>2. CASE k = fetching /\ ~(log[i].block < startBlock)
    <3>1. log[i].block \in startBlock..EndBlock
      BY <1>1, <1>2, <1>3, <2>2
    <3>2. QED
      BY <1>1, <2>1, <2>2, <3>1 DEF RequestedEvents
  <2>3. CASE k = fetching => log[i].block < startBlock
    BY <1>1, <1>3, <2>1, <2>3 DEF Answered
  <2>4. QED
    BY <2>2, <2>3
<1>4. Answered \subseteq {i \in 1..Len(log) : log[i].block \in fromBlock..currentBlock}
  BY DEF Answered
<1>5. RequestedEvents \subseteq {i \in 1..Len(log) : log[i].block \in fromBlock..currentBlock}
  BY <1>1, <1>2, EventIs DEF RequestedEvents
<1>6. QED
  BY <1>3, <1>4, <1>5

\* The block before a scan.
ScannedBefore == IF fromBlock > 0 THEN fromBlock - 1 ELSE 0

\* What a scan applies is the log between two blocks, in its order.
LEMMA ScanIs ==
  ASSUME TypeOK, ChainInv, ScanInv, pc = "fetch", LastRequest,
         NEW history, IsHistory(history), IsPast(history)
  PROVE  \E a, m \in 0..Len(log) :
            /\ a <= m
            /\ Cut(ScannedBefore, a) /\ StateAt(ScannedBefore) = history[a]
            /\ Cut(currentBlock, m) /\ StateAt(currentBlock) = history[m]
            /\ collected \o Requested \in Seq(Nat)
            /\ IsInjective(collected \o Requested)
            /\ Range(collected \o Requested) = (a + 1)..m
            /\ Len(collected \o Requested) = m - a
            /\ EventsAt(Sorted(collected \o Requested)) = [n \in 1..(m - a) |-> log[a + n]]
<1>1. /\ fromBlock \in Nat /\ currentBlock \in 0..block /\ fromBlock <= currentBlock
      /\ block \in Nat /\ Len(log) \in Nat /\ DOMAIN log = 1..Len(log)
  BY CollectorAssumption DEF ScanInv, TypeOK, CollectorTypeOK
<1>2. ScannedBefore \in 0..block /\ ScannedBefore <= currentBlock
  BY <1>1 DEF ScannedBefore
<1>3. PICK a \in 0..Len(log) : Cut(ScannedBefore, a) /\ StateAt(ScannedBefore) = history[a]
  BY <1>2 DEF IsPast
<1>4. PICK m \in 0..Len(log) : Cut(currentBlock, m) /\ StateAt(currentBlock) = history[m]
  BY <1>1 DEF IsPast
<1>5. \A i \in 1..Len(log) : log[i].block \in Nat /\ log[i].block > 0
  BY EventIs
<1>6. a <= m
  <2> SUFFICES ASSUME a > m PROVE FALSE
    BY <1>1
  <2>1. a \in 1..Len(log) /\ ~(a <= m)
    BY <1>1
  <2>2. log[a].block <= ScannedBefore
    BY <1>3, <2>1 DEF Cut
  <2>3. log[a].block <= currentBlock
    BY <1>1, <1>2, <1>5, <2>1, <2>2
  <2>4. QED
    BY <1>4, <2>1, <2>3 DEF Cut
<1>7. Range(collected \o Requested) = (a + 1)..m
  <2>1. ASSUME NEW i \in 1..Len(log)
        PROVE  log[i].block \in fromBlock..currentBlock <=> i \in (a + 1)..m
    <3>1. log[i].block \in fromBlock..currentBlock
            <=> ~(log[i].block <= ScannedBefore) /\ log[i].block <= currentBlock
      BY <1>1, <1>5 DEF ScannedBefore
    <3>2. log[i].block <= ScannedBefore <=> i <= a
      BY <1>3 DEF Cut
    <3>3. log[i].block <= currentBlock <=> i <= m
      BY <1>4 DEF Cut
    <3>4. QED
      BY <1>1, <3>1, <3>2, <3>3
  <2>2. (a + 1)..m \subseteq 1..Len(log)
    BY <1>1
  <2>3. {i \in 1..Len(log) : log[i].block \in fromBlock..currentBlock} = (a + 1)..m
    BY <2>1, <2>2
  <2>4. QED
    BY <2>3, AnswersAre, AllAnswered
<1>8. collected \o Requested \in Seq(Nat) /\ IsInjective(collected \o Requested)
  <2>1. collected \o Requested \in Seq(DOMAIN log) /\ IsInjective(collected \o Requested)
    BY AnswersAre
  <2>2. DOMAIN log \subseteq Nat
    BY <1>1
  <2>3. QED
    BY <2>1, <2>2, SeqMonotonic
<1>9. PICK events : events = collected \o Requested
  OBVIOUS
<1>10. Len(events) = m - a /\ Sorted(events) = [n \in 1..(m - a) |-> a + n]
  <2>1. a \in Nat /\ m \in Nat
    BY <1>1
  <2>2. QED
    BY <1>6, <1>7, <1>8, <1>9, <2>1, SortedIs
<1>11. EventsAt(Sorted(events)) = [n \in 1..(m - a) |-> log[a + n]]
  <2>1. DOMAIN Sorted(events) = 1..(m - a) /\ \A n \in 1..(m - a) : Sorted(events)[n] = a + n
    BY <1>10
  <2>2. EventsAt(Sorted(events)) = [n \in 1..(m - a) |-> log[Sorted(events)[n]]]
    BY <2>1 DEF EventsAt
  <2>3. QED
    BY <2>1, <2>2
<1>12. QED
  BY <1>3, <1>4, <1>6, <1>7, <1>8, <1>9, <1>10, <1>11

LEMMA ScanInvInit == Init => ScanInv
BY DEF Init, ResolutionsInit, BundlesInit, InMemory, InDatabase, ScanInv, Scanning, Writing

LEMMA FetchKeepsScan ==
  ASSUME TypeOK, ScanInv, Fetch, repository' = repository
  PROVE  ScanInv'
<1>1. /\ pc = "fetch" /\ ~LastRequest /\ collected' = collected \o Requested
      /\ startBlock' = IF LastOfKind THEN fromBlock ELSE startBlock + Step
      /\ fetching' = IF LastOfKind THEN fetching + 1 ELSE fetching
      /\ UNCHANGED <<block, log, open, past, pc, lastSavedBlock, fromBlock, currentBlock>>
  BY DEF Fetch, FetchEvents, chainVars
<1>2. /\ startBlock \in fromBlock..currentBlock /\ fromBlock \in Nat /\ currentBlock \in Nat
      /\ Step \in Nat \ {0} /\ fetching \in 1..Len(Fetched) /\ Len(Fetched) \in Nat
      /\ DOMAIN log = 1..Len(log) /\ Fetched' = Fetched
  BY <1>1, CollectorAssumption, FetchedIs DEF ScanInv, TypeOK, CollectorTypeOK, Fetched, InMemory
<1>3. IsInjective(collected') /\ Range(collected') = Answered \cup RequestedEvents
  BY <1>1, AnswersAre
<1>4. startBlock' \in fromBlock'..currentBlock' /\ Answered' = Answered \cup RequestedEvents
  <2>1. CASE LastOfKind
    <3>1. EndBlock = currentBlock /\ startBlock' = fromBlock /\ fetching' = fetching + 1
      BY <1>1, <1>2, <2>1 DEF LastOfKind, EndBlock
    <3>2. ASSUME NEW i \in 1..Len(log)
          PROVE  i \in Answered' <=> i \in Answered \cup RequestedEvents
      <4>0. log[i].block \in Nat
        BY EventIs
      <4>1. i \in Answered' <=>
              /\ log[i].block \in fromBlock..currentBlock
              /\ \E k \in 1..(fetching + 1) : log[i].kind = Fetched[k]
                                              /\ (k = fetching + 1 => log[i].block < fromBlock)
        BY <1>1, <1>2, <3>1 DEF Answered
      <4>2. i \in Answered' <=>
              /\ log[i].block \in fromBlock..currentBlock
              /\ \E k \in 1..fetching : log[i].kind = Fetched[k]
        <5>1. log[i].block \in fromBlock..currentBlock => ~(log[i].block < fromBlock)
          BY <1>2, <4>0
        <5>2. \A k \in 1..(fetching + 1) : k = fetching + 1 \/ (k \in 1..fetching /\ k # fetching + 1)
          BY <1>2
        <5>3. \A k \in 1..fetching : k \in 1..(fetching + 1) /\ k # fetching + 1
          BY <1>2
        <5>4. QED
          BY <4>1, <5>1, <5>2, <5>3
      <4>3. i \in RequestedEvents <=> log[i].kind = Fetched[fetching]
                                      /\ log[i].block \in startBlock..currentBlock
        BY <1>2, <3>1 DEF RequestedEvents
      <4>4. i \in Answered <=>
              /\ log[i].block \in fromBlock..currentBlock
              /\ \E k \in 1..fetching : log[i].kind = Fetched[k]
                                        /\ (k = fetching => log[i].block < startBlock)
        BY DEF Answered
      <4>5. log[i].block \in fromBlock..currentBlock /\ ~(log[i].block < startBlock)
              <=> log[i].block \in startBlock..currentBlock
        BY <1>2, <4>0
      <4>6. fetching \in 1..fetching
        BY <1>2
      <4>7. QED
        BY <4>2, <4>3, <4>4, <4>5, <4>6
    <3>3. Answered' \subseteq 1..Len(log) /\ Answered \cup RequestedEvents \subseteq 1..Len(log)
      BY <1>1, <1>2 DEF Answered, RequestedEvents
    <3>4. startBlock' \in fromBlock'..currentBlock'
      BY <1>1, <1>2, <3>1
    <3>5. Answered' = Answered \cup RequestedEvents
      BY <3>2, <3>3
    <3>6. QED
      BY <3>4, <3>5
  <2>2. CASE ~LastOfKind
    <3>1. /\ EndBlock = startBlock + Step - 1 /\ startBlock' = startBlock + Step
          /\ fetching' = fetching /\ startBlock + Step <= currentBlock
      BY <1>1, <1>2, <2>2 DEF LastOfKind, EndBlock
    <3>2. ASSUME NEW i \in 1..Len(log)
          PROVE  i \in Answered' <=> i \in Answered \cup RequestedEvents
      <4>0. log[i].block \in Nat
        BY EventIs
      <4>1. i \in Answered' <=>
              /\ log[i].block \in fromBlock..currentBlock
              /\ \E k \in 1..fetching : log[i].kind = Fetched[k]
                                        /\ (k = fetching => log[i].block < startBlock + Step)
        BY <1>1, <1>2, <3>1 DEF Answered
      <4>3. i \in RequestedEvents <=> log[i].kind = Fetched[fetching]
                                      /\ log[i].block \in startBlock..(startBlock + Step - 1)
        BY <1>2, <3>1 DEF RequestedEvents
      <4>4. i \in Answered <=>
              /\ log[i].block \in fromBlock..currentBlock
              /\ \E k \in 1..fetching : log[i].kind = Fetched[k]
                                        /\ (k = fetching => log[i].block < startBlock)
        BY DEF Answered
      <4>5. /\ log[i].block \in startBlock..(startBlock + Step - 1)
                 => log[i].block \in fromBlock..currentBlock
            /\ log[i].block < startBlock + Step
                 <=> (log[i].block < startBlock
                        \/ log[i].block \in startBlock..(startBlock + Step - 1))
            /\ log[i].block \in startBlock..(startBlock + Step - 1)
                 => ~(log[i].block < startBlock)
        BY <1>2, <3>1, <4>0
      <4>6. fetching \in 1..fetching
        BY <1>2
      <4>7. QED
        BY <4>1, <4>3, <4>4, <4>5, <4>6
    <3>3. Answered' \subseteq 1..Len(log) /\ Answered \cup RequestedEvents \subseteq 1..Len(log)
      BY <1>1, <1>2 DEF Answered, RequestedEvents
    <3>4. startBlock' \in fromBlock'..currentBlock'
      BY <1>1, <1>2, <3>1
    <3>5. QED
      BY <3>2, <3>3, <3>4
  <2>3. QED
    BY <2>1, <2>2
<1>5. QED
  BY <1>1, <1>3, <1>4 DEF ScanInv, Scanning, Writing, InMemory, InDatabase

LEMMA ScanInvStep ==
  ASSUME TypeOK, ChainInv, ScanInv, Next
  PROVE  ScanInv'
<1> USE CollectorAssumption, RepositoryAssumption
<1>1. /\ repository' = repository /\ block \in Nat /\ block >= 1 /\ lastSavedBlock \in Nat
      /\ fromBlock \in Nat /\ currentBlock \in Nat /\ currentBlock <= block
      /\ (InMemory' <=> InMemory) /\ (InDatabase' <=> InDatabase)
  BY NextSteps DEF TypeOK, CollectorTypeOK, InMemory, InDatabase
<1>2. CASE Chain
  <2>1. UNCHANGED <<pc, lastSavedBlock, fromBlock, currentBlock, fetching, startBlock, collected>>
    BY <1>2 DEF Chain, scanVars
  <2>2. Answered' = Answered
    <3>1. Fetched' = Fetched
      BY <1>1 DEF Fetched, InMemory
    <3>2. \A i \in 1..Len(log) : i \in 1..Len(log') /\ log'[i] = log[i]
      BY ChainGrows
    <3>3. \A i \in 1..Len(log') : i \in 1..Len(log) \/ ~(log'[i].block \in fromBlock..currentBlock)
      <4>1. \A i \in 1..Len(log') : i \in 1..Len(log) \/ i \in (Len(log) + 1)..Len(log')
        BY ChainGrows
      <4>2. \A i \in (Len(log) + 1)..Len(log') : ~(log'[i].block \in fromBlock..currentBlock)
        BY <1>1, ChainGrows
      <4>3. QED
        BY <4>1, <4>2
    <3>4. QED
      BY <2>1, <3>1, <3>2, <3>3 DEF Answered
  <2>3. block' >= block /\ block' \in Nat
    BY <1>1, ChainGrows
  <2>4. QED
    BY <1>1, <2>1, <2>2, <2>3 DEF ScanInv, Scanning, Writing
<1>3. CASE GetFromBlock(FirstBlock)
  <2>1. /\ pc' = "getCurrentBlock" /\ lastSavedBlock' = lastSavedBlock /\ block' = block
        /\ fromBlock' = IF lastSavedBlock > 0 THEN lastSavedBlock + 1 ELSE FirstBlock
    BY <1>3 DEF GetFromBlock, chainVars
  <2>2. InMemory => FirstBlock = 0 \/ FirstBlock + Duration <= block
    BY <1>1 DEF FirstBlock, EarliestBlock
  <2>3. InDatabase => FirstBlock <= OnboardBlock
    BY <1>1 DEF FirstBlock, FoundOnboardBlock, InMemory, InDatabase
  <2>4. Scanning' /\ ~Writing'
    BY <2>1 DEF Scanning, Writing
  <2>5. CASE lastSavedBlock > 0
    BY <1>1, <2>1, <2>4, <2>5 DEF ScanInv
  <2>6. CASE ~(lastSavedBlock > 0)
    <3>1. fromBlock' = FirstBlock
      BY <2>1, <2>6
    <3>2. InMemory => fromBlock' = 0 \/ fromBlock' + Duration <= block'
      BY <2>1, <2>2, <3>1
    <3>3. InDatabase => fromBlock' <= OnboardBlock
      BY <2>3, <3>1
    <3>4. pc' = "getCurrentBlock" /\ lastSavedBlock' = lastSavedBlock /\ block' = block
      BY <2>1
    <3>5. QED
      BY <1>1, <2>4, <2>6, <3>2, <3>3, <3>4 DEF ScanInv
  <2>7. QED
    BY <2>5, <2>6
<1>4. CASE GetCurrentBlock(AfterNothing)
  <2>1. /\ pc = "getCurrentBlock" /\ pc' = IF fromBlock <= block THEN "fetch" ELSE AfterNothing
        /\ currentBlock' = block /\ fetching' = 1 /\ startBlock' = fromBlock /\ collected' = <<>>
        /\ UNCHANGED <<block, log, lastSavedBlock, fromBlock>>
    BY <1>4 DEF GetCurrentBlock, BeginScan, chainVars
  <2>2. ASSUME fromBlock <= block PROVE ScanInv'
    <3>1. IsInjective(<<>>) /\ Range(<<>>) = {}
      BY DEF IsInjective, Range
    <3>2. Answered' = {}
      <4>1. \A i \in 1..Len(log) : log[i].block \in Nat
        BY EventIs
      <4>2. \A i \in 1..Len(log), k \in 1..1 :
               ~(log[i].block \in fromBlock..block /\ (k = 1 => log[i].block < fromBlock))
        BY <1>1, <4>1
      <4>3. QED
        BY <2>1, <4>2 DEF Answered
    <3>3. startBlock' \in fromBlock'..currentBlock'
      BY <1>1, <2>1, <2>2
    <3>4. QED
      BY <1>1, <2>1, <2>2, <3>1, <3>2, <3>3 DEF ScanInv, Scanning, Writing
  <2>3. ASSUME ~(fromBlock <= block) PROVE ScanInv'
    BY <1>1, <2>1, <2>3 DEF ScanInv, Scanning, Writing, AfterNothing, InMemory, InDatabase
  <2>4. QED
    BY <2>2, <2>3
<1>5. CASE Fetch
  BY <1>1, <1>5, FetchKeepsScan
<1>6. CASE InMemory /\ (UpdateActiveResolutions \/ Restart)
  BY <1>1, <1>6 DEF UpdateActiveResolutions, Restart, NewProcess, ScanInv, Scanning, Writing
<1>7. CASE InDatabase /\ \/ Load \/ LoadFails \/ UpdateActiveBundles \/ SaveBlock
                         \/ \E id \in Ids : InsertBundle(id) \/ DeleteBundle(id)
                         \/ Stored \/ StoreFails \/ RestartAndLoad
  <2>1. ~InMemory'
    BY <1>1, <1>7 DEF InMemory, InDatabase
  <2>2. CASE UpdateActiveBundles
    BY <1>1, <2>1, <2>2 DEF UpdateActiveBundles, ScanInv, Scanning, Writing
  <2>3. CASE Load \/ LoadFails \/ RestartAndLoad
    BY <2>1, <2>3 DEF Load, LoadFails, RestartAndLoad, NewProcess, ScanInv, Scanning, Writing
  <2>4. CASE SaveBlock \/ \E id \in Ids : InsertBundle(id) \/ DeleteBundle(id)
    BY <2>1, <2>4 DEF SaveBlock, InsertBundle, DeleteBundle, ScanInv, Scanning, Writing, scanVars
  <2>5. CASE Stored \/ StoreFails
    BY <2>1, <2>5 DEF Stored, StoreFails, EndOfScan, ScanInv, Scanning, Writing
  <2>6. QED
    BY <1>7, <2>2, <2>3, <2>4, <2>5
<1>8. QED
  BY <1>2, <1>3, <1>4, <1>5, <1>6, <1>7, NextSteps

-----------------------------------------------------------------------------
(* Applying the events of a scan *)

\* The cache does with a legal event what the contract did.
LEMMA ApplyIs ==
  ASSUME NEW active \in [Ids -> 0..MaxCount], NEW opened \in Opened, NEW e \in Event,
         Legal(opened, e)
  PROVE  /\ Apply(active, e) \in [Ids -> 0..MaxCount]
         /\ \A first \in Int : Agrees(active, opened, first)
               => Agrees(Apply(active, e), Effect(opened, e), first)
<1> USE CollectorAssumption
<1>1. e.id \in Ids /\ e.kind \in Kinds /\ e.count \in 1..MaxCount
  BY DEF Event
<1>2. /\ active[e.id] \in 0..MaxCount
      /\ opened[e.id].count \in 0..MaxCount /\ opened[e.id].since \in Int
      /\ opened[e.id] \in [count : 0..MaxCount, since : 0..(MaxBlock + 1)]
  BY <1>1 DEF Opened
<1> DEFINE new == CASE e.kind = "started" -> IF active[e.id] = 0 THEN e.count ELSE active[e.id]
                    [] e.kind = "resolved" -> IF active[e.id] > 0 THEN active[e.id] - 1 ELSE 0
                    [] e.kind = "timedOut" -> 0
<1>3. Apply(active, e) = [active EXCEPT ![e.id] = new]
  BY DEF Apply
<1>4. new \in 0..MaxCount
  <2>1. CASE e.kind = "started"
    BY <1>1, <1>2, <2>1
  <2>2. CASE e.kind = "resolved"
    BY <1>1, <1>2, <2>2
  <2>3. CASE e.kind = "timedOut"
    BY <1>1, <1>2, <2>3
  <2>4. QED
    BY <1>1, <2>1, <2>2, <2>3 DEF Kinds
<1>5. ASSUME NEW first \in Int, Agrees(active, opened, first)
      PROVE  \/ new = Effect(opened, e)[e.id].count
             \/ new = 0 /\ Effect(opened, e)[e.id].since < first
  <2>0. \/ active[e.id] = opened[e.id].count
        \/ active[e.id] = 0 /\ opened[e.id].since < first
    BY <1>1, <1>5 DEF Agrees
  <2>d. e.id \in DOMAIN opened
    BY <1>1 DEF Opened
  <2>1. CASE e.kind = "started"
    <3>1. Effect(opened, e)[e.id].count = e.count
      BY <2>d, <2>1 DEF Effect
    <3>2. active[e.id] = 0
      BY <2>0, <2>1 DEF Legal
    <3>3. QED
      BY <2>1, <3>1, <3>2
  <2>2. CASE e.kind = "resolved"
    <3>1. /\ Effect(opened, e)[e.id].count = opened[e.id].count - 1
          /\ Effect(opened, e)[e.id].since = opened[e.id].since
      BY <1>2, <2>d, <2>2 DEF Effect
    <3>2. opened[e.id].count > 0
      BY <2>2 DEF Legal
    <3>3. new = IF active[e.id] > 0 THEN active[e.id] - 1 ELSE 0
      BY <2>2
    <3> HIDE DEF new
    <3>4. CASE active[e.id] = opened[e.id].count
      BY <1>2, <3>1, <3>2, <3>3, <3>4
    <3>5. CASE active[e.id] = 0 /\ opened[e.id].since < first
      <4>1. new = 0
        BY <3>3, <3>5
      <4>2. Effect(opened, e)[e.id].since < first
        BY <3>1, <3>5
      <4>3. QED
        BY <4>1, <4>2
    <3>6. QED
      BY <2>0, <3>4, <3>5
  <2>3. CASE e.kind = "timedOut"
    <3>1. Effect(opened, e)[e.id].count = 0
      BY <1>2, <2>d, <2>3 DEF Effect
    <3>2. QED
      BY <2>3, <3>1
  <2>4. QED
    BY <1>1, <2>1, <2>2, <2>3 DEF Kinds
<1> HIDE DEF new
<1>6. Apply(active, e) \in [Ids -> 0..MaxCount]
  BY <1>3, <1>4
<1>7. ASSUME NEW first \in Int, Agrees(active, opened, first)
      PROVE  Agrees(Apply(active, e), Effect(opened, e), first)
  <2> SUFFICES ASSUME NEW id \in Ids
               PROVE  \/ Apply(active, e)[id] = Effect(opened, e)[id].count
                      \/ Apply(active, e)[id] = 0 /\ Effect(opened, e)[id].since < first
    BY DEF Agrees
  <2>1. CASE id = e.id
    <3>1. Apply(active, e)[id] = new
      BY <1>1, <1>3, <2>1
    <3>2. QED
      BY <1>5, <1>7, <2>1, <3>1
  <2>2. CASE id # e.id
    <3>1. Apply(active, e)[id] = active[id]
      BY <1>1, <1>3, <2>2
    <3>2. Effect(opened, e)[id] = opened[id]
      BY <2>2 DEF Effect, Opened
    <3>3. QED
      BY <1>7, <3>1, <3>2 DEF Agrees
  <2>3. QED
    BY <2>1, <2>2
<1>8. QED
  BY <1>6, <1>7

\* So it does with all of them, in the order of the log.
LEMMA ApplyAll ==
  ASSUME TypeOK, NEW history, IsHistory(history), NEW a \in 0..Len(log), NEW m \in 0..Len(log),
         a <= m, NEW active \in [Ids -> 0..MaxCount], NEW events,
         events = [n \in 1..(m - a) |-> log[a + n]]
  PROVE  /\ Applied(active, events) \in [Ids -> 0..MaxCount]
         /\ \A first \in Int : Agrees(active, history[a], first)
                => Agrees(Applied(active, events), history[m], first)
<1>1. /\ Len(log) \in Nat /\ a \in Nat /\ m \in Nat /\ m - a \in Nat
  BY DEF TypeOK, CollectorTypeOK
<1>2. PICK g : /\ g[0] = active
               /\ \A k \in 1..(m - a) : g[k] = Apply(g[k - 1], events[k])
               /\ Applied(active, events) = g[m - a]
  <2>1. DOMAIN events = 1..(m - a)
    OBVIOUS
  <2>2. PICK N \in Nat : N = m - a
    BY <1>1
  <2>3. \E g : FoldsTo(g, N, active, events)
    <3>1. DOMAIN events = 1..N
      BY <2>1, <2>2
    <3>2. QED
      BY <3>1, FoldSteps
  <2>4. QED
    BY <2>2, <2>3 DEF FoldsTo
<1> DEFINE S == {k \in 0..(m - a) :
                   /\ g[k] \in [Ids -> 0..MaxCount]
                   /\ \A first \in Int : Agrees(active, history[a], first)
                          => Agrees(g[k], history[a + k], first)}
<1>3. 0 \in S
  <2>1. a + 0 = a /\ 0 \in 0..(m - a)
    BY <1>1
  <2>2. QED
    BY <1>2, <2>1
<1>4. ASSUME NEW k \in 0..((m - a) - 1), k \in S PROVE k + 1 \in S
  <2>1. /\ k + 1 \in 1..(m - a) /\ k + 1 \in 0..(m - a) /\ (k + 1) - 1 = k
        /\ a + (k + 1) \in 1..Len(log) /\ (a + (k + 1)) - 1 = a + k /\ a + k \in 0..Len(log)
    BY <1>1
  <2>2. g[k + 1] = Apply(g[k], log[a + (k + 1)])
    BY <1>2, <2>1
  <2>3. /\ Legal(history[a + k], log[a + (k + 1)])
        /\ history[a + (k + 1)] = Effect(history[a + k], log[a + (k + 1)])
        /\ history[a + k] \in Opened
    BY <2>1 DEF IsHistory
  <2>4. log[a + (k + 1)] \in Event
    BY <2>1, EventIs
  <2>5. g[k] \in [Ids -> 0..MaxCount]
    BY <1>4
  <2>6. /\ g[k + 1] \in [Ids -> 0..MaxCount]
        /\ \A first \in Int : Agrees(g[k], history[a + k], first)
              => Agrees(g[k + 1], history[a + (k + 1)], first)
    BY <2>2, <2>3, <2>4, <2>5, ApplyIs
  <2>7. QED
    BY <1>4, <2>1, <2>6
<1> HIDE DEF S
<1>5. m - a \in S
  <2>1. m - a \in 0..(m - a)
    BY <1>1
  <2>2. QED
    BY <1>1, <1>3, <1>4, <2>1, UpTo
<1>6. a + (m - a) = m
  BY <1>1
<1>7. QED
  BY <1>2, <1>5, <1>6 DEF S

\* What the cache holds after a scan.
LEMMA ScanApplies ==
  ASSUME TypeOK, ChainInv, ScanInv, pc = "fetch", LastRequest
  PROVE  \E result :
            /\ result = ApplyIncomingEvents(cache, collected \o Requested)
            /\ result \in [Ids -> 0..MaxCount]
            /\ \A first \in Int : Agrees(cache, StateAt(ScannedBefore), first)
                   => Agrees(result, StateAt(currentBlock), first)
<1>1. PICK history : IsHistory(history) /\ IsPast(history)
  BY DEF ChainInv
<1>2. PICK a \in 0..Len(log), m \in 0..Len(log) :
            /\ a <= m
            /\ StateAt(ScannedBefore) = history[a]
            /\ StateAt(currentBlock) = history[m]
            /\ EventsAt(Sorted(collected \o Requested)) = [n \in 1..(m - a) |-> log[a + n]]
  BY <1>1, ScanIs, SMTT(30)
<1>3. cache \in [Ids -> 0..MaxCount]
  BY DEF TypeOK, CollectorTypeOK
<1>4. PICK events : events = [n \in 1..(m - a) |-> log[a + n]]
  OBVIOUS
<1>5. PICK active : active = cache
  OBVIOUS
<1>6. ApplyIncomingEvents(cache, collected \o Requested) = Applied(active, events)
  BY <1>2, <1>4, <1>5 DEF ApplyIncomingEvents, Applied
<1>7. active \in [Ids -> 0..MaxCount]
  BY <1>3, <1>5
<1>8. /\ Applied(active, events) \in [Ids -> 0..MaxCount]
      /\ \A first \in Int : Agrees(active, history[a], first)
             => Agrees(Applied(active, events), history[m], first)
  BY <1>1, <1>2, <1>4, <1>7, ApplyAll
<1>9. QED
  BY <1>2, <1>5, <1>6, <1>8

-----------------------------------------------------------------------------
(* Types *)

LEMMA TypeInit == Init => TypeOK
<1> SUFFICES ASSUME Init PROVE TypeOK
  OBVIOUS
<1> USE CollectorAssumption, RepositoryAssumption, ShelteredBundlesAssumption
<1>1. block = 1 /\ log = <<>> /\ open = AllClosed /\ past = <<open>>
  BY DEF Init, CollectorInit, ChainInit, AllClosed
<1>2. AllClosed \in Opened
  BY DEF AllClosed, Opened, Closed
<1>3. log \in Seq(Event) /\ open \in Opened /\ past \in Seq(Opened) /\ Len(past) = 1
  BY <1>1, <1>2
<1>4. repository \in {"resolutions", "shelteredBundles"} /\ pc \in {"load", "getFromBlock"}
  BY DEF Init, ResolutionsInit, BundlesInit, InMemory, InDatabase
<1>5. fetching \in 1..Len(Fetched)
  BY <1>4, FetchedIs DEF Init, CollectorInit
<1>6. collected \in Seq(DOMAIN log)
  BY DEF Init, CollectorInit
<1>7. CollectorTypeOK
  BY <1>1, <1>3, <1>4, <1>5, <1>6 DEF Init, CollectorInit, CollectorTypeOK
<1>8. QED
  BY <1>4, <1>7, <1>1 DEF Init, DatabaseInit, NoBundles, TypeOK

\* The type of what a scan changes, once the chain has its own.
ScanType ==
    /\ lastSavedBlock \in 0..block
    /\ fromBlock \in 0..(MaxBlock + 1)
    /\ currentBlock \in 0..block
    /\ fetching \in 1..Len(Fetched)
    /\ startBlock \in Nat
    /\ collected \in Seq(DOMAIN log)
    /\ cache \in [Ids -> 0..MaxCount]
    /\ pc \in {"load", "getFromBlock", "getCurrentBlock", "fetch", "saveBlock", "store", "done"}
    /\ restarts \in 0..MaxRestarts

DatabaseType ==
    /\ savedBlock \in 0..block
    /\ docs \in [Ids -> Nat]
    /\ toInsert \in [Ids -> Nat] /\ toDelete \in [Ids -> Nat]
    /\ brokenOff \in 0..MaxBrokenOff /\ failures \in 0..MaxFailures

LEMMA CountIs ==
  ASSUME TypeOK, NEW positions \in Seq(DOMAIN log), NEW kind
  PROVE  CountOf(kind, positions) \in [Ids -> Nat]
<1> SUFFICES ASSUME NEW id \in Ids
             PROVE  Cardinality({i \in DOMAIN positions : /\ log[positions[i]].kind = kind
                                                          /\ log[positions[i]].id = id}) \in Nat
  BY DEF CountOf
<1>1. DOMAIN positions = 1..Len(positions) /\ Len(positions) \in Nat
  OBVIOUS
<1>2. IsFiniteSet(DOMAIN positions)
  BY <1>1, FS_Interval
<1>3. IsFiniteSet({i \in DOMAIN positions : /\ log[positions[i]].kind = kind
                                            /\ log[positions[i]].id = id})
  BY <1>2, FS_Subset
<1>4. QED
  BY <1>3, FS_CardinalityType

LEMMA ScanTypeStep ==
  ASSUME TypeOK, ChainInv, ScanInv, Next
  PROVE  ScanType'
<1> USE CollectorAssumption, RepositoryAssumption, ShelteredBundlesAssumption
<1>1. /\ repository' = repository /\ Fetched' = Fetched
      /\ block \in 1..MaxBlock /\ block' \in Nat /\ block <= block'
      /\ ScanType
  BY NextSteps, ChainGrows DEF TypeOK, CollectorTypeOK, ScanType, Fetched, InMemory
<1>2. DOMAIN log \subseteq DOMAIN log'
  <2>1. DOMAIN log = 1..Len(log) /\ DOMAIN log' = 1..Len(log')
    BY ChainInvStep DEF TypeOK, CollectorTypeOK
  <2>2. QED
    BY <2>1, ChainGrows
<1>3. collected \in Seq(DOMAIN log')
  BY <1>1, <1>2, SeqMonotonic DEF ScanType
<1>4. <<>> \in Seq(DOMAIN log') /\ 1 \in 1..Len(Fetched) /\ Len(Fetched) \in Nat
  BY FetchedIs DEF TypeOK, CollectorTypeOK
<1>5. CASE Chain
  BY <1>1, <1>3, <1>5 DEF Chain, scanVars, ScanType
<1>6. CASE GetFromBlock(FirstBlock)
  <2>1. FirstBlock \in 0..MaxBlock
    BY <1>1 DEF FirstBlock, EarliestBlock, FoundOnboardBlock
  <2>2. fromBlock' \in 0..(MaxBlock + 1)
    BY <1>1, <1>6, <2>1 DEF GetFromBlock, ScanType
  <2>3. QED
    BY <1>1, <1>3, <1>6, <2>2 DEF GetFromBlock, chainVars, ScanType
<1>7. CASE GetCurrentBlock(AfterNothing)
  <2>1. pc' \in {"getFromBlock", "fetch", "done"}
    BY <1>7 DEF GetCurrentBlock, BeginScan, AfterNothing
  <2>2. fromBlock \in Nat /\ block \in 0..block
    BY <1>1 DEF ScanType
  <2>3. QED
    BY <1>1, <1>4, <1>7, <2>1, <2>2 DEF GetCurrentBlock, BeginScan, chainVars, ScanType
<1>8. CASE Fetch
  <2>1. collected' \in Seq(DOMAIN log')
    <3>1. collected' = collected \o Requested /\ pc = "fetch"
      BY <1>8 DEF Fetch, FetchEvents
    <3>2. collected' \in Seq(DOMAIN log)
      BY <3>1, AnswersAre
    <3>3. QED
      BY <1>2, <3>2, SeqMonotonic
  <2>2. fetching' \in 1..Len(Fetched) /\ startBlock' \in Nat
    BY <1>1, <1>4, <1>8 DEF Fetch, FetchEvents, LastRequest, ScanType
  <2>3. QED
    BY <1>1, <1>8, <2>1, <2>2 DEF Fetch, FetchEvents, chainVars, ScanType
<1>9. CASE UpdateActiveResolutions \/ UpdateActiveBundles
  <2>1. pc = "fetch" /\ LastRequest /\ cache' = ApplyIncomingEvents(cache, collected \o Requested)
    BY <1>9 DEF UpdateActiveResolutions, UpdateActiveBundles
  <2>2. cache' \in [Ids -> 0..MaxCount]
    BY <2>1, ScanApplies
  <2>3. QED
    BY <1>1, <1>4, <1>9, <2>2 DEF UpdateActiveResolutions, UpdateActiveBundles, chainVars, ScanType
<1>10. CASE Restart \/ RestartAndLoad
  <2>1. /\ pc' \in {"getFromBlock", "load"} /\ restarts' \in 0..MaxRestarts /\ block' = block
        /\ log' = log
        /\ lastSavedBlock' = 0 /\ fromBlock' = 0 /\ currentBlock' = 0 /\ fetching' = 1
        /\ startBlock' = 0 /\ collected' = <<>> /\ cache' = [id \in Ids |-> 0]
    BY <1>1, <1>10 DEF Restart, RestartAndLoad, NewProcess, chainVars, ScanType
  <2>2. cache' \in [Ids -> 0..MaxCount]
    BY <2>1
  <2>3. QED
    BY <1>1, <1>4, <2>1, <2>2 DEF ScanType
<1>11. CASE Load \/ LoadFails
  <2>1. savedBlock \in 0..block
    BY DEF TypeOK
  <2>2. cache' \in [Ids -> 0..MaxCount]
    BY <1>1, <1>11 DEF Load, LoadFails, ScanType
  <2>3. lastSavedBlock' \in 0..block'
    BY <1>1, <1>11, <2>1 DEF Load, LoadFails, chainVars
  <2>4. /\ pc' = "getFromBlock"
        /\ UNCHANGED <<block, log, fromBlock, currentBlock, fetching, startBlock, collected, restarts>>
    BY <1>11 DEF Load, LoadFails, chainVars, scanVars
  <2>5. QED
    BY <1>1, <1>3, <2>2, <2>3, <2>4 DEF ScanType
<1>12. CASE SaveBlock \/ \E id \in Ids : InsertBundle(id) \/ DeleteBundle(id)
  BY <1>1, <1>3, <1>12 DEF SaveBlock, InsertBundle, DeleteBundle, chainVars, scanVars, ScanType
<1>13. CASE Stored \/ StoreFails
  BY <1>1, <1>3, <1>13 DEF Stored, StoreFails, EndOfScan, chainVars, scanVars, ScanType
<1>14. QED
  BY <1>5, <1>6, <1>7, <1>8, <1>9, <1>10, <1>11, <1>12, <1>13, NextSteps

LEMMA DatabaseTypeStep ==
  ASSUME TypeOK, ChainInv, ScanInv, Next
  PROVE  DatabaseType'
<1> USE CollectorAssumption, ShelteredBundlesAssumption
<1>1. /\ block \in 1..MaxBlock /\ block' \in Nat /\ block <= block' /\ currentBlock \in 0..block
      /\ DatabaseType
  BY ChainGrows DEF TypeOK, CollectorTypeOK, DatabaseType
<1>2. CASE UNCHANGED databaseVars
  BY <1>1, <1>2 DEF databaseVars, copyVars, todoVars, DatabaseType
<1>3. NoBundles \in [Ids -> Nat]
  BY DEF NoBundles
<1>4. CASE UpdateActiveBundles
  <2>1. collected \o Requested \in Seq(DOMAIN log)
    BY <1>4, AnswersAre DEF UpdateActiveBundles
  <2>2. toInsert' \in [Ids -> Nat] /\ toDelete' \in [Ids -> Nat]
    BY <1>4, <2>1, CountIs DEF UpdateActiveBundles
  <2>3. QED
    BY <1>1, <1>4, <2>2 DEF UpdateActiveBundles, copyVars, DatabaseType
<1>5. CASE LoadFails \/ SaveBlock
  BY <1>1, <1>5 DEF LoadFails, SaveBlock, copyVars, todoVars, DatabaseType
<1>6. ASSUME NEW id \in Ids, InsertBundle(id) PROVE DatabaseType'
  <2>1. docs[id] + 1 \in Nat /\ toInsert[id] - 1 \in Nat
    BY <1>1, <1>6 DEF InsertBundle, DatabaseType
  <2>2. QED
    BY <1>1, <1>6, <2>1 DEF InsertBundle, DatabaseType
<1>7. ASSUME NEW id \in Ids, DeleteBundle(id) PROVE DatabaseType'
  <2>1. (IF docs[id] > 0 THEN docs[id] - 1 ELSE 0) \in Nat /\ toDelete[id] - 1 \in Nat
    BY <1>1, <1>7 DEF DeleteBundle, DatabaseType
  <2>2. QED
    BY <1>1, <1>7, <2>1 DEF DeleteBundle, DatabaseType
<1>8. CASE Stored \/ StoreFails \/ RestartAndLoad
  <2>1. brokenOff' \in 0..MaxBrokenOff
    BY <1>1, <1>8 DEF Stored, StoreFails, RestartAndLoad, DatabaseType
  <2>2. QED
    BY <1>1, <1>3, <1>8, <2>1
    DEF Stored, StoreFails, EndOfScan, RestartAndLoad, copyVars, DatabaseType
<1>9. QED
  BY <1>2, <1>4, <1>5, <1>6, <1>7, <1>8, NextSteps DEF Chain, Load

LEMMA TypeStep ==
  ASSUME TypeOK, ChainInv, ScanInv, Next
  PROVE  TypeOK'
<1>1. repository' = repository
  BY NextSteps
<1>2. QED
  BY <1>1, ChainInvStep, ScanTypeStep, DatabaseTypeStep
  DEF TypeOK, CollectorTypeOK, ScanType, DatabaseType

-----------------------------------------------------------------------------
(* Counting events *)

\* The positions of a resolution's events of a kind, from a + 1 to k.
EventsOf(kind, id, a, k) == {i \in (a + 1)..k : log[i].kind = kind /\ log[i].id = id}

LEMMA EventsOfFinite ==
  ASSUME NEW kind, NEW id, NEW a \in Nat, NEW k \in Nat
  PROVE  /\ IsFiniteSet(EventsOf(kind, id, a, k))
         /\ Cardinality(EventsOf(kind, id, a, k)) \in Nat
<1>1. IsFiniteSet((a + 1)..k)
  BY FS_Interval
<1>2. IsFiniteSet(EventsOf(kind, id, a, k))
  BY <1>1, FS_Subset DEF EventsOf
<1>3. QED
  BY <1>2, FS_CardinalityType

LEMMA CountNext ==
  ASSUME NEW kind, NEW id, NEW a \in Nat, NEW k \in Nat, a <= k
  PROVE  Cardinality(EventsOf(kind, id, a, k + 1))
           = Cardinality(EventsOf(kind, id, a, k))
             + (IF log[k + 1].kind = kind /\ log[k + 1].id = id THEN 1 ELSE 0)
<1>1. (a + 1)..(k + 1) = ((a + 1)..k) \cup {k + 1} /\ k + 1 \notin (a + 1)..k
  OBVIOUS
<1>2. IsFiniteSet(EventsOf(kind, id, a, k)) /\ Cardinality(EventsOf(kind, id, a, k)) \in Nat
  BY EventsOfFinite
<1>3. CASE log[k + 1].kind = kind /\ log[k + 1].id = id
  <2>1. EventsOf(kind, id, a, k + 1) = EventsOf(kind, id, a, k) \cup {k + 1}
        /\ k + 1 \notin EventsOf(kind, id, a, k)
    BY <1>1, <1>3 DEF EventsOf
  <2>2. QED
    BY <1>2, <1>3, <2>1, FS_AddElement
<1>4. CASE ~(log[k + 1].kind = kind /\ log[k + 1].id = id)
  <2>1. EventsOf(kind, id, a, k + 1) = EventsOf(kind, id, a, k)
    BY <1>1, <1>4 DEF EventsOf
  <2>2. QED
    BY <1>2, <1>4, <2>1
<1>5. QED
  BY <1>3, <1>4

LEMMA CountSum ==
  ASSUME NEW kind, NEW id, NEW a \in Nat, NEW m \in Nat, a <= m
  PROVE  Cardinality(EventsOf(kind, id, 0, m))
           = Cardinality(EventsOf(kind, id, 0, a)) + Cardinality(EventsOf(kind, id, a, m))
<1>1. 0 + 1 = 1 /\ (1..m) = (1..a) \cup ((a + 1)..m) /\ (1..a) \cap ((a + 1)..m) = {}
  OBVIOUS
<1>2. /\ EventsOf(kind, id, 0, m) = EventsOf(kind, id, 0, a) \cup EventsOf(kind, id, a, m)
      /\ EventsOf(kind, id, 0, a) \cap EventsOf(kind, id, a, m) = {}
  BY <1>1 DEF EventsOf
<1>3. Cardinality({}) = 0
  BY FS_EmptySet
<1>4. /\ IsFiniteSet(EventsOf(kind, id, 0, a)) /\ IsFiniteSet(EventsOf(kind, id, a, m))
      /\ Cardinality(EventsOf(kind, id, 0, a)) \in Nat
      /\ Cardinality(EventsOf(kind, id, a, m)) \in Nat
  BY EventsOfFinite
<1>5. QED
  BY <1>2, <1>3, <1>4, FS_Union

\* Positions that are each there once are counted as they are in the log.
LEMMA CountOfInterval ==
  ASSUME NEW kind, NEW id \in Ids, NEW a \in Nat, NEW m \in Nat, NEW p \in Seq(Nat),
         IsInjective(p), Range(p) = (a + 1)..m
  PROVE  CountOf(kind, p)[id] = Cardinality(EventsOf(kind, id, a, m))
<1> DEFINE X == {i \in DOMAIN p : log[p[i]].kind = kind /\ log[p[i]].id = id}
           f == [i \in X |-> p[i]]
           Y == EventsOf(kind, id, a, m)
<1>1. CountOf(kind, p)[id] = Cardinality(X)
  BY DEF CountOf
<1>2. DOMAIN p = 1..Len(p) /\ Len(p) \in Nat
  OBVIOUS
<1>3. IsFiniteSet(X)
  <2>1. IsFiniteSet(DOMAIN p)
    BY <1>2, FS_Interval
  <2>2. X \in SUBSET (DOMAIN p)
    OBVIOUS
  <2>3. QED
    BY <2>1, <2>2, FS_Subset
<1>4. \A i \in DOMAIN p : p[i] \in (a + 1)..m
  BY DEF Range
<1>5. f \in [X -> Y]
  BY <1>4 DEF EventsOf
<1>6. IsInjective(f)
  BY DEF IsInjective
<1>7. \A y \in Y : \E i \in X : f[i] = y
  <2> SUFFICES ASSUME NEW y \in Y PROVE \E i \in X : f[i] = y
    OBVIOUS
  <2>1. y \in (a + 1)..m /\ log[y].kind = kind /\ log[y].id = id
    BY DEF EventsOf
  <2>2. PICK i \in DOMAIN p : p[i] = y
    BY <2>1 DEF Range
  <2>3. i \in X
    BY <2>1, <2>2
  <2>4. QED
    BY <2>2, <2>3
<1> HIDE DEF f, X, Y
<1>8. ExistsBijection(X, Y)
  BY <1>5, <1>6, <1>7 DEF ExistsBijection, Bijection, Injection, Surjection
<1>9. Cardinality(Y) = Cardinality(X)
  BY <1>3, <1>8, FS_Bijection
<1>10. QED
  BY <1>1, <1>9 DEF Y

\* A bundle is sheltered or not; it changes with each of its events.
LEMMA HistoryCounts ==
  ASSUME TypeOK, ChainInv, InDatabase, NEW history, IsHistory(history),
         NEW a \in 0..Len(log), NEW m \in 0..Len(log), a <= m, NEW id \in Ids
  PROVE  history[m][id].count = history[a][id].count
            + Cardinality(EventsOf("started", id, a, m))
            - Cardinality(EventsOf("timedOut", id, a, m))
<1> DEFINE Started(k) == Cardinality(EventsOf("started", id, a, a + k))
           Ended(k) == Cardinality(EventsOf("timedOut", id, a, a + k))
           S == {k \in 0..(m - a) :
                   history[a + k][id].count = history[a][id].count + Started(k) - Ended(k)}
<1>1. Len(log) \in Nat /\ a \in Nat /\ m \in Nat /\ m - a \in Nat
  BY DEF TypeOK, CollectorTypeOK
<1>2. \A k \in Nat : Started(k) \in Nat /\ Ended(k) \in Nat
  BY <1>1, EventsOfFinite
<1>3. \A n \in 0..Len(log) : history[n] \in Opened /\ history[n][id].count \in {0, 1}
  <2>1. ASSUME NEW n \in 0..Len(log) PROVE history[n] \in Opened /\ history[n][id].count \in {0, 1}
    <3>1. history[n] \in Opened /\ history[n][id].count <= 1
      BY <2>1 DEF IsHistory
    <3>2. history[n][id].count \in Nat
      BY <3>1, CollectorAssumption DEF Opened
    <3>3. QED
      BY <3>1, <3>2
  <2>2. QED
    BY <2>1
<1>4. 0 \in S
  <2>1. (a + 1)..(a + 0) = {}
    BY <1>1
  <2>2. EventsOf("started", id, a, a + 0) = {} /\ EventsOf("timedOut", id, a, a + 0) = {}
    BY <2>1 DEF EventsOf
  <2>3. Started(0) = 0 /\ Ended(0) = 0
    BY <2>2, FS_EmptySet
  <2> HIDE DEF Started, Ended
  <2>4. history[a][id].count \in {0, 1} /\ a + 0 = a /\ 0 \in 0..(m - a)
    BY <1>1, <1>3
  <2>5. QED
    BY <2>3, <2>4
<1>5. ASSUME NEW k \in 0..((m - a) - 1), k \in S PROVE k + 1 \in S
  <2> DEFINE e == log[a + (k + 1)]
  <2>1. /\ k \in Nat /\ k + 1 \in 0..(m - a) /\ a + k \in Nat /\ (a + k) + 1 = a + (k + 1)
        /\ a <= a + k
        /\ a + (k + 1) \in 1..Len(log) /\ (a + (k + 1)) - 1 = a + k /\ a + k \in 0..Len(log)
        /\ a + (k + 1) \in 0..Len(log)
    BY <1>1
  <2>2. Legal(history[a + k], e) /\ history[a + (k + 1)] = Effect(history[a + k], e)
    BY <2>1 DEF IsHistory
  <2>3. e.kind \in {"started", "timedOut"} /\ e.count = 1 /\ e.id \in Ids
    <3>1. e.kind \in Kinds /\ e.id \in Ids
      BY <2>1, EventIs
    <3>2. e.kind # "resolved" /\ e.count = 1
      BY <2>1 DEF ChainInv
    <3>3. QED
      BY <3>1, <3>2 DEF Kinds
  <2>4. /\ Started(k + 1) = Started(k) + (IF e.kind = "started" /\ e.id = id THEN 1 ELSE 0)
        /\ Ended(k + 1) = Ended(k) + (IF e.kind = "timedOut" /\ e.id = id THEN 1 ELSE 0)
    BY <1>1, <2>1, CountNext, SMTT(30)
  <2>5. /\ history[a + k] \in Opened
        /\ history[a + k][id].count \in {0, 1} /\ history[a + (k + 1)][id].count \in {0, 1}
        /\ history[a][id].count \in {0, 1}
    BY <1>1, <1>3, <2>1
  <2>6. history[a + k][id].count = history[a][id].count + Started(k) - Ended(k)
    BY <1>5
  <2>7. Started(k) \in Nat /\ Ended(k) \in Nat
    BY <1>2, <2>1
  <2> HIDE DEF Started, Ended, e
  <2>8. history[a + (k + 1)][id].count
          = history[a + k][id].count + (IF e.kind = "started" /\ e.id = id THEN 1 ELSE 0)
            - (IF e.kind = "timedOut" /\ e.id = id THEN 1 ELSE 0)
    <3>1. CASE e.id # id
      <4>1. history[a + (k + 1)][id] = history[a + k][id]
        BY <2>2, <2>5, <3>1 DEF Effect, Opened
      <4>2. QED
        BY <2>5, <3>1, <4>1
    <3>2. CASE e.id = id /\ e.kind = "started"
      <4>1. history[a + (k + 1)][id].count = e.count
        BY <2>2, <2>3, <2>5, <3>2 DEF Effect, Opened
      <4>2. history[a + k][id].count = 0
        BY <2>2, <3>2 DEF Legal
      <4>3. QED
        BY <2>3, <3>2, <4>1, <4>2
    <3>3. CASE e.id = id /\ e.kind = "timedOut"
      <4>1. history[a + (k + 1)][id].count = 0
        BY <2>2, <2>3, <2>5, <3>3 DEF Effect, Opened
      <4>2. history[a + k][id].count > 0
        BY <2>2, <3>3 DEF Legal
      <4>3. QED
        BY <2>5, <3>3, <4>1, <4>2
    <3>4. QED
      BY <2>3, <3>1, <3>2, <3>3
  <2>9. history[a + (k + 1)][id].count = history[a][id].count + Started(k + 1) - Ended(k + 1)
    <3>1. PICK s \in {0, 1} : s = IF e.kind = "started" /\ e.id = id THEN 1 ELSE 0
      OBVIOUS
    <3>2. PICK t \in {0, 1} : t = IF e.kind = "timedOut" /\ e.id = id THEN 1 ELSE 0
      OBVIOUS
    <3>3. /\ Started(k + 1) = Started(k) + s /\ Ended(k + 1) = Ended(k) + t
          /\ history[a + (k + 1)][id].count = history[a + k][id].count + s - t
      BY <2>4, <2>8, <3>1, <3>2
    <3>5. history[a + k][id].count \in Int /\ history[a][id].count \in Int
      BY <2>5
    <3>6. Started(k) \in Int /\ Ended(k) \in Int
      BY <2>7
    <3>7. history[a + k][id].count + s - t
            = history[a][id].count + (Started(k) + s) - (Ended(k) + t)
      <4>1. PICK x \in Int, y \in Int : x = Started(k) /\ y = Ended(k)
        BY <3>6, Zenon
      <4>2. history[a + k][id].count = history[a][id].count + x - y
        BY <2>6, <4>1, Zenon
      <4>3. history[a + k][id].count + s - t = history[a][id].count + (x + s) - (y + t)
        BY <3>5, <4>2
      <4>4. QED
        BY <4>1, <4>3, Zenon
    <3>8. QED
      BY <3>3, <3>7, Zenon
  <2>10. QED
    BY <2>1, <2>9
<1> HIDE DEF S
<1>6. m - a \in S
  <2>1. m - a \in 0..(m - a)
    BY <1>1
  <2>2. QED
    BY <1>1, <1>4, <1>5, <2>1, UpTo
<1>7. a + (m - a) = m
  BY <1>1
<1>8. QED
  BY <1>6, <1>7 DEF S

-----------------------------------------------------------------------------
(* The cache *)

LEMMA StateType ==
  ASSUME TypeOK, ChainInv, NEW b \in 0..block, NEW id \in Ids
  PROVE  /\ StateAt(b)[id].count \in Nat /\ StateAt(b)[id].since \in Nat
         /\ InDatabase => StateAt(b)[id].count \in {0, 1}
<1> USE CollectorAssumption
<1>1. PICK history : IsHistory(history) /\ IsPast(history)
  BY DEF ChainInv
<1>2. PICK n \in 0..Len(log) : StateAt(b) = history[n]
  BY <1>1 DEF IsPast
<1>3. history[n] \in Opened /\ (InDatabase => history[n][id].count <= 1)
  BY <1>1 DEF IsHistory
<1>4. history[n][id].count \in Nat /\ history[n][id].since \in Nat
  BY <1>3 DEF Opened
<1>5. QED
  BY <1>2, <1>3, <1>4

\* Nothing is between the last scan and this one, be it the first.
LEMMA BundlesBefore ==
  ASSUME TypeOK, ChainInv, ScanInv, InDatabase, pc = "fetch"
  PROVE  /\ StateAt(ScannedBefore) = StateAt(lastSavedBlock)
         /\ lastSavedBlock > 0 => ScannedBefore = lastSavedBlock
         /\ lastSavedBlock = 0 => \A i \in 1..Len(log) : ~(log[i].block <= ScannedBefore)
<1>1. /\ fromBlock \in Nat /\ lastSavedBlock \in Nat /\ currentBlock \in 0..block /\ block \in Nat
      /\ fromBlock <= currentBlock /\ Len(log) \in Nat
  BY DEF TypeOK, CollectorTypeOK, ScanInv
<1>2. ASSUME lastSavedBlock > 0 PROVE ScannedBefore = lastSavedBlock
  <2>1. fromBlock = lastSavedBlock + 1
    BY <1>2 DEF ScanInv, Scanning
  <2>2. QED
    BY <1>1, <2>1 DEF ScannedBefore
<1>3. ASSUME lastSavedBlock = 0, NEW i \in 1..Len(log) PROVE ~(log[i].block <= ScannedBefore)
  <2>1. fromBlock <= OnboardBlock /\ OnboardBlock \in Nat
    BY <1>3, CollectorAssumption DEF ScanInv, Scanning
  <2>2. log[i].block >= OnboardBlock /\ log[i].block \in Nat /\ log[i].block > 0
    BY EventIs DEF ChainInv
  <2>3. QED
    BY <1>1, <2>1, <2>2 DEF ScannedBefore
<1>4. ASSUME lastSavedBlock = 0 PROVE StateAt(ScannedBefore) = StateAt(0)
  <2>1. PICK history : IsHistory(history) /\ IsPast(history)
    BY DEF ChainInv
  <2>2. ScannedBefore \in 0..block
    BY <1>1 DEF ScannedBefore
  <2>3. PICK a \in 0..Len(log) : Cut(ScannedBefore, a) /\ StateAt(ScannedBefore) = history[a]
    BY <2>1, <2>2 DEF IsPast
  <2>4. a = 0
    <3>1. SUFFICES ASSUME a # 0 PROVE FALSE
      OBVIOUS
    <3>2. a \in 1..Len(log)
      BY <1>1, <3>1
    <3>3. log[a].block <= ScannedBefore
      BY <2>3, <3>2 DEF Cut
    <3>4. QED
      BY <1>3, <1>4, <3>2, <3>3
  <2>5. history[0] = AllClosed /\ StateAt(0) = AllClosed
    BY <2>1 DEF IsHistory, StateAt
  <2>6. QED
    BY <2>3, <2>4, <2>5
<1>5. QED
  BY <1>1, <1>2, <1>3, <1>4

LEMMA ResolutionsBefore ==
  ASSUME TypeOK, ChainInv, ScanInv, CacheInv, InMemory, pc = "fetch"
  PROVE  Agrees(cache, StateAt(ScannedBefore), currentBlock - Duration)
<1> USE RepositoryAssumption
<1>1. /\ fromBlock \in Nat /\ lastSavedBlock \in 0..block /\ currentBlock \in 0..block /\ block \in Nat
      /\ fromBlock <= currentBlock /\ Len(log) \in Nat
  BY DEF TypeOK, CollectorTypeOK, ScanInv
<1>2. CASE lastSavedBlock > 0
  <2>1. fromBlock = lastSavedBlock + 1
    BY <1>2 DEF ScanInv, Scanning
  <2>2. ScannedBefore = lastSavedBlock /\ lastSavedBlock <= currentBlock
    BY <1>1, <2>1 DEF ScannedBefore
  <2>3. Agrees(cache, StateAt(ScannedBefore), lastSavedBlock - Duration)
    BY <1>2, <2>2 DEF CacheInv
  <2>4. \A id \in Ids : StateAt(ScannedBefore)[id].since \in Nat
    BY <1>1, <2>2, StateType
  <2>5. \A id \in Ids : StateAt(ScannedBefore)[id].since < lastSavedBlock - Duration
                           => StateAt(ScannedBefore)[id].since < currentBlock - Duration
    BY <1>1, <2>2, <2>4
  <2>6. QED
    BY <2>3, <2>5 DEF Agrees
<1>3. CASE lastSavedBlock = 0
  <2>1. /\ fromBlock = 0 \/ fromBlock + Duration <= currentBlock
        /\ \A id \in Ids : cache[id] = 0
    BY <1>3 DEF ScanInv, Scanning, CacheInv
  <2>2. PICK history : IsHistory(history) /\ IsPast(history)
    BY DEF ChainInv
  <2>3. ScannedBefore \in 0..block
    BY <1>1 DEF ScannedBefore
  <2>4. PICK a \in 0..Len(log) : Cut(ScannedBefore, a) /\ StateAt(ScannedBefore) = history[a]
    BY <2>2, <2>3 DEF IsPast
  <2>5. ASSUME NEW id \in Ids
        PROVE  \/ cache[id] = StateAt(ScannedBefore)[id].count
               \/ cache[id] = 0 /\ StateAt(ScannedBefore)[id].since < currentBlock - Duration
    <3>1. CASE fromBlock = 0
      <4>1. StateAt(ScannedBefore)[id].count = 0
        BY <3>1 DEF ScannedBefore, StateAt, AllClosed, Closed
      <4>2. QED
        BY <2>1, <4>1
    <3>2. CASE fromBlock > 0
      <4>1. StateAt(ScannedBefore)[id].since \in Nat
        BY <2>3, StateType
      <4>2. CASE StateAt(ScannedBefore)[id].since > 0
        <5>1. PICK i \in 1..a : log[i].block = StateAt(ScannedBefore)[id].since
          BY <2>2, <2>4, <4>2 DEF IsHistory
        <5>2. log[i].block <= ScannedBefore
          BY <1>1, <2>4 DEF Cut
        <5>3. QED
          BY <1>1, <2>1, <3>2, <4>1, <5>1, <5>2 DEF ScannedBefore
      <4>3. CASE StateAt(ScannedBefore)[id].since = 0
        BY <1>1, <2>1, <3>2, <4>3
      <4>4. QED
        BY <4>1, <4>2, <4>3
    <3>3. QED
      BY <1>1, <3>1, <3>2
  <2>6. QED
    BY <2>5 DEF Agrees
<1>4. QED
  BY <1>1, <1>2, <1>3

LEMMA CacheInvInit == Init => CacheInv
BY DEF Init, CollectorInit, ResolutionsInit, BundlesInit, CacheInv, InMemory, InDatabase

LEMMA CacheInvStep ==
  ASSUME TypeOK, ChainInv, ScanInv, CacheInv, CopyInv, Next
  PROVE  CacheInv'
<1> USE CollectorAssumption, RepositoryAssumption
<1>1. /\ repository' = repository /\ (InMemory' <=> InMemory) /\ (InDatabase' <=> InDatabase)
      /\ ~(InMemory /\ InDatabase)
      /\ lastSavedBlock \in 0..block /\ currentBlock \in 0..block /\ savedBlock \in 0..block
      /\ block \in Nat
  BY NextSteps DEF TypeOK, CollectorTypeOK, InMemory, InDatabase
<1>2. \A b \in 0..block : StateAt(b)' = StateAt(b)
  BY ChainGrows
<1>3. ASSUME UNCHANGED <<lastSavedBlock, cache, failures, brokenOff>>,
             Writing' <=> Writing, currentBlock' = currentBlock \/ ~Writing, pc # "load"
      PROVE  CacheInv'
  <2>1. StateAt(lastSavedBlock)' = StateAt(lastSavedBlock)
    <3>1. PICK b \in 0..block : b = lastSavedBlock
      BY <1>1
    <3>2. StateAt(b)' = StateAt(b)
      BY <1>2
    <3>3. QED
      BY <1>3, <3>1, <3>2 DEF StateAt, AllClosed
  <2>2. Writing => StateAt(currentBlock)' = StateAt(currentBlock)
    <3>1. PICK b \in 0..block : b = currentBlock
      BY <1>1
    <3>2. StateAt(b)' = StateAt(b)
      BY <1>2
    <3>3. QED
      BY <1>3, <3>1, <3>2 DEF StateAt, AllClosed
  <2>3. CASE Writing
    BY <1>1, <1>3, <2>1, <2>2, <2>3 DEF CacheInv, Agrees
  <2>4. CASE ~Writing
    BY <1>1, <1>3, <2>1, <2>4 DEF CacheInv, Agrees
  <2>5. QED
    BY <2>3, <2>4
<1>4. CASE Chain
  <2>1. UNCHANGED <<lastSavedBlock, cache, failures, brokenOff, pc, currentBlock, repository>>
    BY <1>1, <1>4 DEF Chain, scanVars, databaseVars
  <2>2. CASE pc # "load"
    BY <1>3, <2>1, <2>2 DEF Writing
  <2>3. CASE pc = "load"
    <3>1. ~InMemory
      BY <2>3 DEF ScanInv, Scanning
    <3>2. QED
      BY <1>1, <2>1, <2>3, <3>1 DEF CacheInv
  <2>4. QED
    BY <2>2, <2>3
<1>5. CASE (GetFromBlock(FirstBlock) \/ GetCurrentBlock(AfterNothing) \/ Fetch)
           /\ UNCHANGED databaseVars
  <2>1. /\ UNCHANGED <<lastSavedBlock, cache, failures, brokenOff>>
        /\ pc \in {"getFromBlock", "getCurrentBlock", "fetch"}
        /\ pc' \in {"getFromBlock", "getCurrentBlock", "fetch", "done"}
    BY <1>5 DEF GetFromBlock, GetCurrentBlock, BeginScan, Fetch, FetchEvents, AfterNothing, databaseVars
  <2>2. ~Writing /\ ~Writing' /\ pc # "load"
    BY <2>1 DEF Writing
  <2>3. QED
    BY <1>3, <2>1, <2>2
<1>6. CASE InMemory /\ UpdateActiveResolutions
  <2>1. /\ pc = "fetch" /\ LastRequest /\ cache' = ApplyIncomingEvents(cache, collected \o Requested)
        /\ lastSavedBlock' = currentBlock /\ UNCHANGED past
    BY <1>6 DEF UpdateActiveResolutions, chainVars
  <2>2. Agrees(cache, StateAt(ScannedBefore), currentBlock - Duration)
    BY <1>6, <2>1, ResolutionsBefore
  <2>3. currentBlock - Duration \in Int
    BY <1>1
  <2>4. PICK result : /\ result = ApplyIncomingEvents(cache, collected \o Requested)
                      /\ Agrees(result, StateAt(currentBlock), currentBlock - Duration)
    BY <2>1, <2>2, <2>3, ScanApplies
  <2>5. currentBlock > 0
    BY <2>1 DEF ScanInv
  <2>6. StateAt(lastSavedBlock)' = StateAt(currentBlock)
    BY <2>1 DEF StateAt, AllClosed
  <2>7. Agrees(cache', StateAt(lastSavedBlock)', lastSavedBlock' - Duration)
    BY <2>1, <2>4, <2>6
  <2>8. QED
    BY <1>1, <1>6, <2>1, <2>5, <2>7 DEF CacheInv, Agrees
<1>7. CASE InMemory /\ Restart
  BY <1>1, <1>7 DEF Restart, NewProcess, CacheInv
<1>8. CASE InDatabase /\ UpdateActiveBundles
  <2>1. /\ pc = "fetch" /\ LastRequest /\ cache' = ApplyIncomingEvents(cache, collected \o Requested)
        /\ pc' = "saveBlock" /\ UNCHANGED <<past, currentBlock, failures, brokenOff>>
    BY <1>8 DEF UpdateActiveBundles, chainVars
  <2>2. SUFFICES ASSUME failures = 0, brokenOff = 0
                 PROVE  Agrees(cache', StateAt(currentBlock), 0)
    <3>1. Writing'
      BY <2>1 DEF Writing
    <3>2. StateAt(currentBlock)' = StateAt(currentBlock)
      BY <2>1 DEF StateAt, AllClosed
    <3>3. QED
      BY <1>1, <1>8, <2>1, <3>1, <3>2 DEF CacheInv, Agrees
  <2>3. Agrees(cache, StateAt(lastSavedBlock), 0)
    BY <1>8, <2>1, <2>2 DEF CacheInv, Writing
  <2>4. Agrees(cache, StateAt(ScannedBefore), 0)
    BY <1>8, <2>1, <2>3, BundlesBefore
  <2>5. PICK result : /\ result = ApplyIncomingEvents(cache, collected \o Requested)
                      /\ Agrees(result, StateAt(currentBlock), 0)
    BY <2>1, <2>4, ScanApplies
  <2>6. QED
    BY <2>1, <2>5
<1>9. CASE InDatabase /\ Load
  <2>1. /\ pc = "load" /\ lastSavedBlock' = savedBlock /\ pc' = "getFromBlock"
        /\ cache' = [id \in Ids |-> IF savedBlock > 0 /\ docs[id] > 0 THEN 1 ELSE 0]
        /\ UNCHANGED <<past, savedBlock, failures, brokenOff>>
    BY <1>9 DEF Load, chainVars, databaseVars, copyVars
  <2>2. SUFFICES ASSUME failures = 0, brokenOff = 0
                 PROVE  Agrees(cache', StateAt(savedBlock), 0)
    <3>1. ~Writing' /\ StateAt(lastSavedBlock)' = StateAt(savedBlock)
      BY <2>1 DEF Writing, StateAt, AllClosed
    <3>2. QED
      BY <1>1, <1>9, <2>1, <3>1 DEF CacheInv, Agrees
  <2>3. ASSUME NEW id \in Ids PROVE cache'[id] = StateAt(savedBlock)[id].count
    <3>1. docs[id] + toInsert[id] - toDelete[id] = StateAt(savedBlock)[id].count
          /\ toInsert[id] = 0 /\ toDelete[id] = 0 /\ docs[id] \in Nat
      BY <1>9, <2>1, <2>2 DEF CopyInv, Writing, NoBundles, TypeOK
    <3>2. docs[id] = StateAt(savedBlock)[id].count
      BY <3>1
    <3>3. StateAt(savedBlock)[id].count \in {0, 1}
      BY <1>1, <1>9, StateType
    <3>4. savedBlock = 0 => StateAt(savedBlock)[id].count = 0
      BY DEF StateAt, AllClosed, Closed
    <3>5. QED
      BY <1>1, <2>1, <3>2, <3>3, <3>4
  <2>4. QED
    BY <2>3 DEF Agrees
<1>10. CASE InDatabase /\ LoadFails
  <2>1. failures' # 0
    BY <1>10 DEF LoadFails, TypeOK
  <2>2. QED
    BY <1>1, <1>10, <2>1 DEF CacheInv
<1>11. CASE InDatabase /\ (SaveBlock \/ \E id \in Ids : InsertBundle(id) \/ DeleteBundle(id))
  <2>1. /\ UNCHANGED <<lastSavedBlock, cache, failures, brokenOff, currentBlock>>
        /\ Writing /\ Writing' /\ pc # "load"
    BY <1>11 DEF SaveBlock, InsertBundle, DeleteBundle, scanVars, Writing
  <2>2. QED
    BY <1>3, <2>1
<1>12. CASE InDatabase /\ Stored
  <2>1. /\ pc = "store" /\ pc' = "done" /\ lastSavedBlock' = currentBlock
        /\ UNCHANGED <<past, cache, failures, brokenOff>>
    BY <1>12 DEF Stored, EndOfScan, chainVars
  <2>2. StateAt(lastSavedBlock)' = StateAt(currentBlock)
    BY <2>1 DEF StateAt, AllClosed
  <2>3. Writing /\ ~Writing'
    BY <2>1 DEF Writing
  <2>4. QED
    BY <1>1, <1>12, <2>1, <2>2, <2>3 DEF CacheInv, Agrees
<1>13. CASE InDatabase /\ StoreFails
  <2>1. brokenOff' # 0
    BY <1>13 DEF StoreFails, TypeOK
  <2>2. QED
    BY <1>1, <1>13, <2>1 DEF CacheInv
<1>14. CASE InDatabase /\ RestartAndLoad
  <2>1. pc' = "load"
    BY <1>14 DEF RestartAndLoad, NewProcess
  <2>2. QED
    BY <1>1, <1>14, <2>1 DEF CacheInv
<1>15. QED
  BY <1>4, <1>5, <1>6, <1>7, <1>8, <1>9, <1>10, <1>11, <1>12, <1>13, <1>14, NextSteps

-----------------------------------------------------------------------------
(* The copy *)

LEMMA AddedIs ==
  ASSUME TypeOK, NEW b, NEW n \in 0..Len(log), Cut(b, n), NEW id
  PROVE  AddedUpTo(b, id) = EventsOf("started", id, 0, n)
<1>1. n \in Nat /\ Len(log) \in Nat
  BY DEF TypeOK, CollectorTypeOK
<1>2. \A i \in 1..Len(log) : log[i].block <= b <=> i \in 1..n
  BY <1>1 DEF Cut
<1>3. 1..n \subseteq 1..Len(log)
  BY <1>1
<1>4. QED
  BY <1>2, <1>3 DEF AddedUpTo, EventsOf

LEMMA AddedFinite ==
  ASSUME TypeOK, NEW b, NEW id
  PROVE  Cardinality(AddedUpTo(b, id)) \in Nat
<1>1. IsFiniteSet(1..Len(log))
  <2>1. Len(log) \in Int
    BY DEF TypeOK, CollectorTypeOK
  <2>2. QED
    BY <2>1, FS_Interval
<1>2. QED
  BY <1>1, FS_Subset, FS_CardinalityType DEF AddedUpTo

\* What a scan finds of a bundle: what was added less what was removed is what changed.
LEMMA ScanCounts ==
  ASSUME TypeOK, ChainInv, ScanInv, InDatabase, pc = "fetch", LastRequest, NEW id \in Ids
  PROVE  \E s, t \in Nat :
            /\ s = CountOf("started", collected \o Requested)[id]
            /\ t = CountOf("timedOut", collected \o Requested)[id]
            /\ StateAt(currentBlock)[id].count = StateAt(lastSavedBlock)[id].count + s - t
            /\ Cardinality(AddedUpTo(currentBlock, id))
                 = Cardinality(AddedUpTo(lastSavedBlock, id)) + s
<1>1. PICK history : IsHistory(history) /\ IsPast(history)
  BY DEF ChainInv
<1>2. PICK a \in 0..Len(log), m \in 0..Len(log) :
            /\ a <= m
            /\ Cut(ScannedBefore, a) /\ StateAt(ScannedBefore) = history[a]
            /\ Cut(currentBlock, m) /\ StateAt(currentBlock) = history[m]
            /\ collected \o Requested \in Seq(Nat)
            /\ IsInjective(collected \o Requested)
            /\ Range(collected \o Requested) = (a + 1)..m
  BY <1>1, ScanIs
<1>3. a \in Nat /\ m \in Nat /\ Len(log) \in Nat
  BY DEF TypeOK, CollectorTypeOK
<1>4. PICK s \in Nat, t \in Nat : s = Cardinality(EventsOf("started", id, a, m))
                                  /\ t = Cardinality(EventsOf("timedOut", id, a, m))
  BY <1>3, EventsOfFinite
<1>5. /\ s = CountOf("started", collected \o Requested)[id]
      /\ t = CountOf("timedOut", collected \o Requested)[id]
  <2>1. PICK events : events = collected \o Requested
    OBVIOUS
  <2>2. events \in Seq(Nat) /\ IsInjective(events) /\ Range(events) = (a + 1)..m
    BY <1>2, <2>1
  <2>3. s = CountOf("started", events)[id] /\ t = CountOf("timedOut", events)[id]
    <3>1. CountOf("started", events)[id] = Cardinality(EventsOf("started", id, a, m))
      BY <1>3, <2>2, CountOfInterval, ZenonT(60)
    <3>2. CountOf("timedOut", events)[id] = Cardinality(EventsOf("timedOut", id, a, m))
      BY <1>3, <2>2, CountOfInterval, ZenonT(60)
    <3>3. QED
      BY <1>4, <3>1, <3>2
  <2>4. QED
    BY <2>1, <2>3
<1>6. StateAt(currentBlock)[id].count = StateAt(lastSavedBlock)[id].count + s - t
  <2>1. history[m][id].count = history[a][id].count + s - t
    BY <1>1, <1>2, <1>4, HistoryCounts
  <2>2. QED
    BY <1>2, <2>1, BundlesBefore
<1>7. Cardinality(AddedUpTo(currentBlock, id)) = Cardinality(AddedUpTo(lastSavedBlock, id)) + s
  <2>1. /\ AddedUpTo(currentBlock, id) = EventsOf("started", id, 0, m)
        /\ AddedUpTo(ScannedBefore, id) = EventsOf("started", id, 0, a)
    BY <1>2, AddedIs
  <2>2. Cardinality(EventsOf("started", id, 0, m))
          = Cardinality(EventsOf("started", id, 0, a)) + s
    BY <1>2, <1>3, <1>4, CountSum
  <2>3. AddedUpTo(lastSavedBlock, id) = AddedUpTo(ScannedBefore, id)
    <3>1. CASE lastSavedBlock > 0
      BY <3>1, BundlesBefore
    <3>2. CASE lastSavedBlock = 0
      <4>1. \A i \in 1..Len(log) : ~(log[i].block <= ScannedBefore)
        BY <3>2, BundlesBefore
      <4>2. \A i \in 1..Len(log) : ~(log[i].block <= lastSavedBlock)
        BY <3>2, EventIs
      <4>3. QED
        BY <4>1, <4>2 DEF AddedUpTo
    <3>3. QED
      BY <3>1, <3>2 DEF TypeOK, CollectorTypeOK
  <2>4. QED
    BY <2>1, <2>2, <2>3
<1>8. QED
  BY <1>5, <1>6, <1>7

LEMMA CopyInvInit == Init => CopyInv
<1> SUFFICES ASSUME Init, InDatabase PROVE CopyInv
  BY DEF CopyInv
<1>1. /\ pc = "load" /\ savedBlock = 0 /\ brokenOff = 0 /\ failures = 0 /\ lastSavedBlock = 0
      /\ docs = NoBundles /\ toInsert = NoBundles /\ toDelete = NoBundles
      /\ Len(log) = 0
  BY DEF Init, ResolutionsInit, BundlesInit, CollectorInit, ChainInit, DatabaseInit, InMemory, InDatabase
<1>2. \A id \in Ids : StateAt(savedBlock)[id].count = 0
  BY <1>1 DEF StateAt, AllClosed, Closed
<1>3. \A id \in Ids : Cardinality(AddedUpTo(savedBlock, id)) = 0
  <2>1. \A id \in Ids : AddedUpTo(savedBlock, id) = {}
    BY <1>1 DEF AddedUpTo
  <2>2. QED
    BY <2>1, FS_EmptySet
<1>4. ~Writing /\ ~Scanning
  BY <1>1 DEF Writing, Scanning
<1>5. QED
  BY <1>1, <1>2, <1>3, <1>4 DEF CopyInv, NoBundles

\* The copy of one bundle: what it lacks, and what was ever added to it.
CopyOf(id) ==
    /\ brokenOff = 0 =>
          LET due == docs[id] + toInsert[id] - toDelete[id]
              count == StateAt(IF Writing THEN currentBlock ELSE savedBlock)[id].count
          IN  due >= count /\ (failures = 0 => due = count)
    /\ failures = 0 =>
          /\ docs[id] <= Cardinality(AddedUpTo(savedBlock, id))
          /\ Writing => docs[id] + toInsert[id] <= Cardinality(AddedUpTo(currentBlock, id))

\* Where a scan of bundles is, and what is left to write.
CopyControl ==
    /\ Scanning \/ pc = "getFromBlock" => /\ lastSavedBlock \in {0, savedBlock}
                                          /\ failures = 0 => lastSavedBlock = savedBlock
    /\ pc = "store" => savedBlock = currentBlock
    /\ ~Writing => toInsert = NoBundles /\ toDelete = NoBundles

LEMMA CopyParts == CopyInv <=> (InDatabase => CopyControl /\ \A id \in Ids : CopyOf(id))
BY DEF CopyInv, CopyControl, CopyOf

LEMMA CopyControlStep ==
  ASSUME TypeOK, CopyControl, Next, InDatabase
  PROVE  CopyControl'
<1>1. InDatabase /\ ~InMemory
  BY DEF InDatabase, InMemory
<1>2. CASE Chain
  BY <1>2 DEF Chain, scanVars, databaseVars, copyVars, todoVars, CopyControl, Scanning, Writing,
     NoBundles
<1>3. CASE GetFromBlock(FirstBlock) /\ UNCHANGED databaseVars
  BY <1>3 DEF GetFromBlock, databaseVars, copyVars, todoVars, CopyControl, Scanning, Writing, NoBundles
<1>4. CASE GetCurrentBlock(AfterNothing) /\ UNCHANGED databaseVars
  BY <1>1, <1>4 DEF GetCurrentBlock, BeginScan, AfterNothing, databaseVars, copyVars, todoVars,
     CopyControl, Scanning, Writing, NoBundles
<1>5. CASE Fetch /\ UNCHANGED databaseVars
  BY <1>5 DEF Fetch, FetchEvents, databaseVars, copyVars, todoVars, CopyControl, Scanning, Writing,
     NoBundles
<1>6. CASE Load
  BY <1>6 DEF Load, databaseVars, copyVars, todoVars, CopyControl, Scanning, Writing, NoBundles
<1>7. CASE LoadFails
  <2>1. failures' # 0
    BY <1>7 DEF LoadFails, TypeOK
  <2>2. QED
    BY <1>7, <2>1 DEF LoadFails, copyVars, todoVars, CopyControl, Scanning, Writing, NoBundles
<1>8. CASE UpdateActiveBundles
  BY <1>8 DEF UpdateActiveBundles, CopyControl, Scanning, Writing
<1>9. CASE SaveBlock
  BY <1>9 DEF SaveBlock, scanVars, CopyControl, Scanning, Writing
<1>10. CASE \E id \in Ids : InsertBundle(id) \/ DeleteBundle(id)
  BY <1>10 DEF InsertBundle, DeleteBundle, scanVars, CopyControl, Scanning, Writing
<1>11. CASE Stored \/ StoreFails
  BY <1>11 DEF Stored, StoreFails, EndOfScan, CopyControl, Scanning, Writing, NoBundles
<1>12. CASE RestartAndLoad
  BY <1>12 DEF RestartAndLoad, NewProcess, CopyControl, Scanning, Writing, NoBundles
<1>13. QED
  BY <1>1, <1>2, <1>3, <1>4, <1>5, <1>6, <1>7, <1>8, <1>9, <1>10, <1>11, <1>12, NextSteps

LEMMA AddedStays ==
  ASSUME TypeOK, Next, NEW b \in 0..block, NEW id
  PROVE  AddedUpTo(b, id)' = AddedUpTo(b, id)
<1>1. b <= block /\ b \in Int /\ block \in Int
  BY DEF TypeOK, CollectorTypeOK
<1>2. \A i \in 1..Len(log) : i \in 1..Len(log') /\ log'[i] = log[i]
  BY ChainGrows
<1>3. \A i \in 1..Len(log') : i \in 1..Len(log) \/ ~(log'[i].block <= b)
  <2>1. \A i \in 1..Len(log') : i \in 1..Len(log) \/ i \in (Len(log) + 1)..Len(log')
    BY ChainGrows
  <2>2. \A i \in (Len(log) + 1)..Len(log') : ~(log'[i].block <= b)
    BY <1>1, ChainGrows
  <2>3. QED
    BY <2>1, <2>2
<1>4. QED
  BY <1>2, <1>3 DEF AddedUpTo

LEMMA CopyOfStep ==
  ASSUME TypeOK, ChainInv, ScanInv, CopyControl, Next, InDatabase, NEW id \in Ids, CopyOf(id)
  PROVE  CopyOf(id)'
<1> USE CollectorAssumption, ShelteredBundlesAssumption
<1>0. ~InMemory
  BY DEF InDatabase, InMemory
<1>1. /\ docs \in [Ids -> Nat] /\ toInsert \in [Ids -> Nat] /\ toDelete \in [Ids -> Nat]
      /\ docs[id] \in Nat /\ toInsert[id] \in Nat /\ toDelete[id] \in Nat
      /\ brokenOff \in Nat /\ failures \in Nat
      /\ savedBlock \in 0..block /\ currentBlock \in 0..block /\ lastSavedBlock \in 0..block
      /\ block \in Nat
  BY DEF TypeOK, CollectorTypeOK
<1>2. \A b \in 0..block : /\ StateAt(b)[id].count \in {0, 1}
                          /\ Cardinality(AddedUpTo(b, id)) \in Nat
  BY StateType, AddedFinite
\* What the copy is compared with stays as it is, whatever the chain does.
<1>3. ASSUME NEW saved \in 0..block, NEW current \in 0..block,
             savedBlock' = saved, currentBlock' = current
      PROVE  /\ StateAt(savedBlock)' = StateAt(saved) /\ StateAt(currentBlock)' = StateAt(current)
             /\ AddedUpTo(savedBlock, id)' = AddedUpTo(saved, id)
             /\ AddedUpTo(currentBlock, id)' = AddedUpTo(current, id)
  <2>1. /\ StateAt(saved)' = StateAt(saved) /\ StateAt(current)' = StateAt(current)
        /\ AddedUpTo(saved, id)' = AddedUpTo(saved, id)
        /\ AddedUpTo(current, id)' = AddedUpTo(current, id)
    BY ChainGrows, AddedStays
  <2>2. StateAt(savedBlock)' = StateAt(saved)' /\ StateAt(currentBlock)' = StateAt(current)'
    BY <1>3 DEF StateAt, AllClosed
  <2>3. AddedUpTo(savedBlock, id)' = AddedUpTo(saved, id)'
        /\ AddedUpTo(currentBlock, id)' = AddedUpTo(current, id)'
    BY <1>3 DEF AddedUpTo
  <2>4. QED
    BY <2>1, <2>2, <2>3
<1>4. ASSUME UNCHANGED <<savedBlock, docs, toInsert, toDelete, brokenOff, failures>>,
             Writing' <=> Writing, Writing => currentBlock' = currentBlock, currentBlock' \in 0..block
      PROVE  CopyOf(id)'
  <2>1. PICK saved \in 0..block, current \in 0..block :
           saved = savedBlock /\ current = currentBlock'
    BY <1>1, <1>4
  <2>2. /\ StateAt(savedBlock)' = StateAt(saved) /\ StateAt(currentBlock)' = StateAt(current)
        /\ AddedUpTo(savedBlock, id)' = AddedUpTo(saved, id)
        /\ AddedUpTo(currentBlock, id)' = AddedUpTo(current, id)
    BY <1>3, <1>4, <2>1
  <2>3. CASE Writing
    BY <1>4, <2>1, <2>2, <2>3 DEF CopyOf
  <2>4. CASE ~Writing
    BY <1>4, <2>1, <2>2, <2>4 DEF CopyOf
  <2>5. QED
    BY <2>3, <2>4
<1>5. CASE Chain
  BY <1>1, <1>4, <1>5 DEF Chain, scanVars, databaseVars, copyVars, todoVars, Writing
<1>6. CASE (GetFromBlock(FirstBlock) \/ GetCurrentBlock(AfterNothing) \/ Fetch)
           /\ UNCHANGED databaseVars
  <2>1. /\ ~Writing /\ ~Writing' /\ currentBlock' \in {currentBlock, block}
    BY <1>0, <1>6 DEF GetFromBlock, GetCurrentBlock, BeginScan, Fetch, FetchEvents, AfterNothing, Writing
  <2>2. QED
    BY <1>1, <1>4, <1>6, <2>1 DEF databaseVars, copyVars, todoVars
<1>7. CASE Load
  BY <1>1, <1>4, <1>7 DEF Load, scanVars, databaseVars, copyVars, todoVars, Writing
<1>8. CASE LoadFails
  <2>1. /\ UNCHANGED <<savedBlock, docs, toInsert, toDelete, brokenOff, currentBlock>>
        /\ ~Writing /\ ~Writing' /\ failures' # 0
    BY <1>1, <1>8 DEF LoadFails, scanVars, copyVars, todoVars, Writing
  <2>2. PICK saved \in 0..block, current \in 0..block : saved = savedBlock /\ current = currentBlock
    BY <1>1
  <2>3. StateAt(savedBlock)' = StateAt(saved)
    BY <1>3, <2>1, <2>2
  <2>4. QED
    BY <2>1, <2>2, <2>3 DEF CopyOf
<1>9. CASE UpdateActiveBundles
  <2>1. /\ pc = "fetch" /\ LastRequest /\ pc' = "saveBlock"
        /\ UNCHANGED <<savedBlock, docs, brokenOff, failures, currentBlock>>
        /\ toInsert' = CountOf("started", collected \o Requested)
        /\ toDelete' = CountOf("timedOut", collected \o Requested)
    BY <1>9 DEF UpdateActiveBundles, copyVars
  <2>2. PICK saved \in 0..block, current \in 0..block, last \in 0..block :
           saved = savedBlock /\ current = currentBlock /\ last = lastSavedBlock
    BY <1>1
  <2>3. /\ StateAt(savedBlock)' = StateAt(saved) /\ StateAt(currentBlock)' = StateAt(current)
        /\ AddedUpTo(savedBlock, id)' = AddedUpTo(saved, id)
        /\ AddedUpTo(currentBlock, id)' = AddedUpTo(current, id)
    BY <1>3, <2>1, <2>2
  <2>4. PICK s \in Nat, t \in Nat :
            /\ s = toInsert'[id] /\ t = toDelete'[id]
            /\ StateAt(current)[id].count = StateAt(last)[id].count + s - t
            /\ Cardinality(AddedUpTo(current, id)) = Cardinality(AddedUpTo(last, id)) + s
    BY <2>1, <2>2, ScanCounts
  <2>5. /\ ~Writing /\ Writing' /\ toInsert[id] = 0 /\ toDelete[id] = 0
        /\ last \in {0, saved} /\ (failures = 0 => last = saved)
    BY <2>1, <2>2 DEF Writing, CopyControl, Scanning, NoBundles
  <2>6. StateAt(0)[id].count = 0
    BY DEF StateAt, AllClosed, Closed
  <2>7. brokenOff = 0 => /\ docs[id] >= StateAt(saved)[id].count
                         /\ failures = 0 => docs[id] = StateAt(saved)[id].count
    BY <1>1, <1>2, <2>2, <2>5 DEF CopyOf
  <2>8. failures = 0 => docs[id] <= Cardinality(AddedUpTo(saved, id))
    BY <2>2 DEF CopyOf
  <2>9. brokenOff = 0 => docs[id] >= StateAt(last)[id].count
    BY <1>1, <1>2, <2>5, <2>6, <2>7
  <2>10. brokenOff' = 0 =>
            /\ docs'[id] + toInsert'[id] - toDelete'[id] >= StateAt(current)[id].count
            /\ failures' = 0 => docs'[id] + toInsert'[id] - toDelete'[id] = StateAt(current)[id].count
    BY <1>1, <1>2, <2>1, <2>4, <2>5, <2>7, <2>9
  <2>11. failures' = 0 => /\ docs'[id] <= Cardinality(AddedUpTo(saved, id))
                          /\ docs'[id] + toInsert'[id] <= Cardinality(AddedUpTo(current, id))
    BY <1>1, <1>2, <2>1, <2>4, <2>5, <2>8
  <2>12. QED
    BY <2>3, <2>5, <2>10, <2>11 DEF CopyOf
<1>10. CASE SaveBlock
  <2>1. /\ pc = "saveBlock" /\ pc' = "store" /\ savedBlock' = currentBlock
        /\ UNCHANGED <<docs, toInsert, toDelete, brokenOff, failures, currentBlock>>
    BY <1>10 DEF SaveBlock, scanVars, todoVars
  <2>2. PICK current \in 0..block : current = currentBlock
    BY <1>1
  <2>3. /\ StateAt(savedBlock)' = StateAt(current) /\ StateAt(currentBlock)' = StateAt(current)
        /\ AddedUpTo(savedBlock, id)' = AddedUpTo(current, id)
        /\ AddedUpTo(currentBlock, id)' = AddedUpTo(current, id)
    BY <1>3, <2>1, <2>2
  <2>4. Writing /\ Writing'
    BY <2>1 DEF Writing
  <2>5. failures = 0 => docs[id] <= Cardinality(AddedUpTo(current, id))
    BY <1>1, <1>2, <2>2, <2>4 DEF CopyOf
  <2>6. QED
    BY <2>1, <2>2, <2>3, <2>4, <2>5 DEF CopyOf
<1>11. CASE \E other \in Ids : InsertBundle(other) \/ DeleteBundle(other)
  <2>1. /\ pc = "store" /\ pc' = "store"
        /\ UNCHANGED <<savedBlock, brokenOff, failures, currentBlock>>
    BY <1>11 DEF InsertBundle, DeleteBundle, scanVars
  <2>2. PICK current \in 0..block : current = currentBlock
    BY <1>1
  <2>3. Writing /\ Writing' /\ savedBlock = current
    BY <2>1, <2>2 DEF Writing, CopyControl
  <2>4. /\ StateAt(savedBlock)' = StateAt(current) /\ StateAt(currentBlock)' = StateAt(current)
        /\ AddedUpTo(savedBlock, id)' = AddedUpTo(current, id)
        /\ AddedUpTo(currentBlock, id)' = AddedUpTo(current, id)
    BY <1>3, <2>1, <2>2, <2>3
  <2>5. \/ UNCHANGED <<docs[id], toInsert[id], toDelete[id]>>
        \/ /\ toInsert[id] > 0 /\ docs'[id] = docs[id] + 1 /\ toInsert'[id] = toInsert[id] - 1
           /\ toDelete'[id] = toDelete[id]
        \/ /\ toInsert[id] = 0 /\ toDelete[id] > 0 /\ toDelete'[id] = toDelete[id] - 1
           /\ docs'[id] = (IF docs[id] > 0 THEN docs[id] - 1 ELSE 0)
           /\ toInsert'[id] = toInsert[id]
    <3>1. PICK other \in Ids : InsertBundle(other) \/ DeleteBundle(other)
      BY <1>11
    <3>2. CASE InsertBundle(other)
      BY <1>1, <3>2 DEF InsertBundle
    <3>3. CASE DeleteBundle(other)
      BY <1>1, <3>3 DEF DeleteBundle, NoBundles
    <3>4. QED
      BY <3>1, <3>2, <3>3
  <2>6. /\ brokenOff = 0 =>
              /\ docs[id] + toInsert[id] - toDelete[id] >= StateAt(current)[id].count
              /\ failures = 0 => docs[id] + toInsert[id] - toDelete[id] = StateAt(current)[id].count
        /\ failures = 0 => docs[id] + toInsert[id] <= Cardinality(AddedUpTo(current, id))
    BY <2>2, <2>3 DEF CopyOf
  <2>7. /\ brokenOff = 0 =>
              /\ docs'[id] + toInsert'[id] - toDelete'[id] >= StateAt(current)[id].count
              /\ failures = 0 =>
                    docs'[id] + toInsert'[id] - toDelete'[id] = StateAt(current)[id].count
        /\ failures = 0 => /\ docs'[id] + toInsert'[id] <= Cardinality(AddedUpTo(current, id))
                           /\ docs'[id] <= Cardinality(AddedUpTo(current, id))
    <3>1. StateAt(current)[id].count \in Nat /\ Cardinality(AddedUpTo(current, id)) \in Nat
      BY <1>2
    <3>2. CASE UNCHANGED <<docs[id], toInsert[id], toDelete[id]>>
      BY <1>1, <2>6, <3>1, <3>2
    <3>3. CASE /\ toInsert[id] > 0 /\ docs'[id] = docs[id] + 1 /\ toInsert'[id] = toInsert[id] - 1
               /\ toDelete'[id] = toDelete[id]
      BY <1>1, <2>6, <3>1, <3>3
    <3>4. CASE /\ toInsert[id] = 0 /\ toDelete[id] > 0 /\ toDelete'[id] = toDelete[id] - 1
               /\ docs'[id] = (IF docs[id] > 0 THEN docs[id] - 1 ELSE 0)
               /\ toInsert'[id] = toInsert[id]
      <4>1. brokenOff = 0 => docs[id] > 0
        BY <1>1, <2>6, <3>1, <3>4
      <4>2. QED
        BY <1>1, <2>6, <3>1, <3>4, <4>1
    <3>5. QED
      BY <2>5, <3>2, <3>3, <3>4
  <2>8. QED
    BY <2>1, <2>3, <2>4, <2>7 DEF CopyOf
<1>12. CASE Stored
  <2>1. /\ pc = "store" /\ pc' = "done" /\ toInsert' = toInsert /\ toDelete' = toDelete
        /\ UNCHANGED <<savedBlock, docs, brokenOff, failures, currentBlock>>
    BY <1>12 DEF Stored, EndOfScan, scanVars, copyVars
  <2>2. PICK current \in 0..block : current = currentBlock
    BY <1>1
  <2>3. Writing /\ ~Writing' /\ savedBlock = current
    BY <2>1, <2>2 DEF Writing, CopyControl
  <2>4. StateAt(savedBlock)' = StateAt(current) /\ AddedUpTo(savedBlock, id)' = AddedUpTo(current, id)
    BY <1>3, <2>1, <2>2, <2>3
  <2>5. QED
    BY <2>1, <2>2, <2>3, <2>4 DEF CopyOf
<1>13. CASE StoreFails \/ RestartAndLoad
  <2>1. /\ UNCHANGED <<savedBlock, docs, failures>> /\ ~Writing'
        /\ toInsert' = NoBundles /\ toDelete' = NoBundles
        /\ brokenOff' = 0 => brokenOff = 0 /\ ~Writing
        /\ currentBlock' \in {0, currentBlock}
    BY <1>1, <1>13
    DEF StoreFails, EndOfScan, RestartAndLoad, NewProcess, scanVars, copyVars, Writing
  <2>2. PICK saved \in 0..block, current \in 0..block : saved = savedBlock /\ current = currentBlock'
    BY <1>1, <2>1
  <2>3. StateAt(savedBlock)' = StateAt(saved) /\ AddedUpTo(savedBlock, id)' = AddedUpTo(saved, id)
    BY <1>3, <2>1, <2>2
  <2>4. ~Writing => toInsert' = toInsert /\ toDelete' = toDelete
    BY <2>1 DEF CopyControl
  <2>5. QED
    BY <2>1, <2>2, <2>3, <2>4 DEF CopyOf
<1>14. QED
  BY <1>0, <1>5, <1>6, <1>7, <1>8, <1>9, <1>10, <1>11, <1>12, <1>13, NextSteps

-----------------------------------------------------------------------------
(* The invariant holds *)

LEMMA CopyInvStep ==
  ASSUME TypeOK, ChainInv, ScanInv, CopyInv, Next
  PROVE  CopyInv'
<1>1. InDatabase' <=> InDatabase
  BY NextSteps DEF InDatabase
<1>2. InDatabase => CopyControl' /\ \A id \in Ids : CopyOf(id)'
  BY CopyParts, CopyControlStep, CopyOfStep
<1>3. CopyInv' <=> (InDatabase' => CopyControl' /\ \A id \in Ids : CopyOf(id)')
  BY DEF CopyInv, CopyControl, CopyOf
<1>4. QED
  BY <1>1, <1>2, <1>3

LEMMA ChainInvKept ==
  ASSUME ChainInv, UNCHANGED vars
  PROVE  ChainInv'
<1>1. UNCHANGED <<repository, chainVars>>
  BY DEF vars
<1>2. PICK history : IsHistory(history) /\ IsPast(history)
  BY DEF ChainInv
<1>3. IsHistory(history)'
  BY <1>1, <1>2 DEF IsHistory, chainVars, InDatabase
<1>4. IsPast(history)'
  BY <1>1, <1>2 DEF IsPast, chainVars, Cut, StateAt, AllClosed
<1>5. QED
  BY <1>1, <1>3, <1>4 DEF ChainInv, chainVars, InDatabase

LEMMA InvKept ==
  ASSUME Inv, UNCHANGED vars
  PROVE  Inv'
<1> USE DEF Inv, vars, chainVars, scanVars, databaseVars, copyVars, todoVars
<1>1. TypeOK'
  BY DEF TypeOK, CollectorTypeOK, Fetched, InMemory
<1>2. ScanInv'
  BY DEF ScanInv, Scanning, Writing, InMemory, InDatabase, Answered, Fetched
<1>3. CacheInv'
  BY DEF CacheInv, Agrees, InMemory, InDatabase, Writing, StateAt, AllClosed
<1>4. CopyInv'
  BY DEF CopyInv, Scanning, Writing, InDatabase, NoBundles, StateAt, AllClosed, AddedUpTo
<1>5. QED
  BY ChainInvKept, <1>1, <1>2, <1>3, <1>4

\* What follows for the repositories rests on one inductive invariant of the chain, the
\* scan, the cache and the copy.
THEOREM InvAlways == Spec => []Inv
<1>1. Init => Inv
  BY TypeInit, ChainInvInit, ScanInvInit, CacheInvInit, CopyInvInit DEF Inv
<1>2. Inv /\ [Next]_vars => Inv'
  <2>1. Inv /\ Next => Inv'
    BY TypeStep, ChainInvStep, ScanInvStep, CacheInvStep, CopyInvStep DEF Inv
  <2>2. QED
    BY <2>1, InvKept
<1>3. QED
  BY <1>1, <1>2, PTL DEF Spec

-----------------------------------------------------------------------------
(* The properties *)

\* Every variable keeps its type: the scan stays in the mined blocks, its requests are
\* of a kind there is, and the cache counts no resolution below zero or above its start.
THEOREM TypeCorrect == Spec => []TypeOK
<1>1. Inv => TypeOK
  BY DEF Inv
<1>2. QED
  BY <1>1, InvAlways, PTL

\* The challenges or transfers in memory are those that are open on the chain at the last
\* scanned block and may still be resolved, each with its count, after any number of
\* scans in steps while the chain grows, and of restarts.
THEOREM ListAlwaysTheChains == Spec => []ListIsTheChains
<1>1. Inv => ListIsTheChains
  <2> SUFFICES ASSUME Inv, InMemory, lastSavedBlock > 0, NEW id \in Ids
               PROVE  /\ ChainThen(id).count > 0 /\ ChainThen(id).since + Duration >= lastSavedBlock
                             => cache[id] = ChainThen(id).count
                      /\ cache[id] > 0 => cache[id] = ChainThen(id).count
    BY DEF ListIsTheChains
  <2>1. /\ lastSavedBlock \in 0..block /\ block \in Nat /\ Duration \in Nat
        /\ cache[id] \in Nat
    BY CollectorAssumption, RepositoryAssumption DEF Inv, TypeOK, CollectorTypeOK
  <2>2. StateAt(lastSavedBlock)[id].count \in Nat /\ StateAt(lastSavedBlock)[id].since \in Nat
    BY <2>1, StateType DEF Inv
  <2>3. ChainThen(id) = StateAt(lastSavedBlock)[id]
    BY DEF ChainThen, StateAt
  <2>4. \/ cache[id] = StateAt(lastSavedBlock)[id].count
        \/ cache[id] = 0 /\ StateAt(lastSavedBlock)[id].since < lastSavedBlock - Duration
    BY DEF Inv, CacheInv, Agrees
  <2>5. QED
    BY <2>1, <2>2, <2>3, <2>4
<1>2. QED
  BY <1>1, InvAlways, PTL

\* The restorer is given exactly the bundles the chain says the node shelters, though they
\* come from a copy and the events after it, if no write of the copy was broken off and
\* no load of it failed.
THEOREM AlwaysRestoresWhatIsSheltered == Spec => []RestoresWhatIsSheltered
<1>1. Inv => RestoresWhatIsSheltered
  <2> SUFFICES ASSUME Inv, InDatabase, pc = "done", failures = 0, brokenOff = 0, NEW id \in Ids
               PROVE  cache[id] > 0 <=> ShelteredAt(lastSavedBlock, id)
    BY DEF RestoresWhatIsSheltered
  <2>1. lastSavedBlock \in 0..block /\ block \in Nat
    BY DEF Inv, TypeOK, CollectorTypeOK
  <2>2. StateAt(lastSavedBlock)[id].count \in Nat /\ StateAt(lastSavedBlock)[id].since \in Nat
    BY <2>1, StateType DEF Inv
  <2>3. Agrees(cache, StateAt(lastSavedBlock), 0)
    BY DEF Inv, CacheInv, Writing
  <2>4. cache[id] = StateAt(lastSavedBlock)[id].count
    BY <2>2, <2>3 DEF Agrees
  <2>5. ShelteredAt(lastSavedBlock, id) <=> StateAt(lastSavedBlock)[id].count > 0
    BY <2>1 DEF ShelteredAt, StateAt, AllClosed, Closed
  <2>6. QED
    BY <2>4, <2>5
<1>2. QED
  BY <1>1, InvAlways, PTL

\* Between two scans the copy is what the chain said at the block saved with it, and a load
\* that failed only ever makes documents too many, if no write was broken off.
THEOREM CopyAlwaysAgrees == Spec => []CopyAgrees
<1>1. Inv => CopyAgrees
  <2> SUFFICES ASSUME Inv, InDatabase, ~Writing, brokenOff = 0, NEW id \in Ids
               PROVE  /\ failures = 0 =>
                            docs[id] = IF ShelteredAt(savedBlock, id) THEN 1 ELSE 0
                      /\ ShelteredAt(savedBlock, id) => docs[id] > 0
    BY DEF CopyAgrees, CopyIsOfSavedBlock, CopyMissesNothing
  <2>1. savedBlock \in 0..block /\ block \in Nat /\ docs[id] \in Nat
    BY DEF Inv, TypeOK, CollectorTypeOK
  <2>2. StateAt(savedBlock)[id].count \in {0, 1}
    BY <2>1, StateType DEF Inv
  <2>3. toInsert[id] = 0 /\ toDelete[id] = 0
    BY DEF Inv, CopyInv, NoBundles
  <2>4. /\ docs[id] >= StateAt(savedBlock)[id].count
        /\ failures = 0 => docs[id] = StateAt(savedBlock)[id].count
    BY <2>1, <2>2, <2>3 DEF Inv, CopyInv
  <2>5. ShelteredAt(savedBlock, id) <=> StateAt(savedBlock)[id].count > 0
    BY <2>1 DEF ShelteredAt, StateAt, AllClosed, Closed
  <2>6. QED
    BY <2>1, <2>2, <2>4, <2>5
<1>2. QED
  BY <1>1, InvAlways, PTL

\* As the block is saved before the bundles, a crash between the writes makes no addition be
\* written twice: a bundle has no more documents than the chain has additions of it.
THEOREM AlwaysAddedAtMostOnce == Spec => []AddedAtMostOnce
<1>1. Inv => AddedAtMostOnce
  <2> SUFFICES ASSUME Inv, InDatabase, failures = 0, NEW id \in Ids
               PROVE  docs[id] <= Cardinality(Additions(id))
    BY DEF AddedAtMostOnce
  <2>1. Additions(id) = AddedUpTo(savedBlock, id)
    <3>1. DOMAIN log = 1..Len(log)
      BY DEF Inv, TypeOK, CollectorTypeOK
    <3>2. QED
      BY <3>1 DEF Additions, AddedUpTo
  <2>2. QED
    BY <2>1 DEF Inv, CopyInv
<1>2. QED
  BY <1>1, InvAlways, PTL
=============================================================================
