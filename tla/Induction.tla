-------------------------------- MODULE Induction --------------------------------
(****************************************************************************)
(* Induction and recursion over the natural numbers, with sets and          *)
(* functions in the place of predicates and definitions, so that a proof    *)
(* can instantiate them: the set of the numbers for which a formula holds,  *)
(* the function from what is known so far to the next value.                *)
(****************************************************************************)
EXTENDS Integers, WellFoundedInduction, TLAPS

\* A set of natural numbers that is not empty has a least one.
LEMMA LeastNumber ==
    ASSUME NEW S \in SUBSET Nat, S # {}
    PROVE  \E m \in S : \A n \in S : m <= n
<1> DEFINE less == {p \in Nat \X Nat : p[1] < p[2]}
<1>1. OpToRel(<, Nat) = less
    BY DEF OpToRel
<1>2. IsWellFoundedOn(less, Nat)
    BY <1>1, NatLessThanWellFounded, Zenon
<1> HIDE DEF less
<1>3. PICK m \in S : \A n \in S : ~(<<n, m>> \in less)
    BY <1>2, WFMin, Zenon
<1>4. \A n \in S : n < m => <<n, m>> \in less
    BY DEF less
<1>5. \A n \in S : ~(n < m)
    BY <1>3, <1>4
<1>6. m \in Nat /\ \A n \in S : n \in Nat
    OBVIOUS
<1> QED BY <1>5, <1>6

\* A set of numbers up to m that is not empty has a greatest one.
LEMMA GreatestNumber ==
    ASSUME NEW m \in Nat, NEW S \in SUBSET (0 .. m), S # {}
    PROVE  \E k \in S : \A n \in S : n <= k
<1> DEFINE mirror == {m - n : n \in S}
<1>1. mirror \in SUBSET Nat /\ mirror # {}
    <2>1. \A n \in S : n \in 0 .. m /\ m - n \in Nat
        OBVIOUS
    <2>2. PICK n \in S : TRUE
        OBVIOUS
    <2> QED BY <2>1, <2>2
<1>2. PICK k \in mirror : \A n \in mirror : k <= n
    <2> HIDE DEF mirror
    <2> QED BY <1>1, LeastNumber, Zenon
<1>3. PICK i \in S : k = m - i
    BY <1>2
<1>4. ASSUME NEW n \in S PROVE n <= i
    <2>1. k <= m - n
        BY <1>2
    <2> QED BY <1>3, <2>1
<1> QED BY <1>4

\* Induction upwards, from a to b.
LEMMA InductionUp ==
    ASSUME NEW a \in Int, NEW b \in Int, NEW S,
           a <= b => a \in S,
           \A n \in a .. b - 1 : n \in S => n + 1 \in S
    PROVE  a .. b \subseteq S
<1> SUFFICES ASSUME ~(a .. b \subseteq S) PROVE FALSE
    OBVIOUS
<1> DEFINE missing == {n - a : n \in {i \in a .. b : i \notin S}}
<1>1. missing \in SUBSET Nat /\ missing # {}
    OBVIOUS
<1>2. PICK m \in missing : \A n \in missing : m <= n
    BY <1>1, LeastNumber
<1>3. PICK n \in a .. b : n \notin S /\ m = n - a
    BY <1>2
<1>4. n # a /\ n - 1 \in a .. b - 1
    BY <1>3
<1>5. n - 1 \notin S
    BY <1>3, <1>4
<1>6. n - 1 - a \in missing
    BY <1>3, <1>4, <1>5
<1> HIDE DEF missing
<1>7. m <= n - 1 - a
    BY <1>2, <1>6
<1> QED BY <1>3, <1>7

\* Induction downwards, from b to a.
LEMMA InductionDown ==
    ASSUME NEW a \in Int, NEW b \in Int, NEW S,
           a <= b => b \in S,
           \A n \in a + 1 .. b : n \in S => n - 1 \in S
    PROVE  a .. b \subseteq S
<1> DEFINE mirror == {b - n : n \in {i \in a .. b : i \in S}}
<1>1. 0 <= b - a => 0 \in mirror
    OBVIOUS
<1>2. \A n \in 0 .. b - a - 1 : n \in mirror => n + 1 \in mirror
    <2> SUFFICES ASSUME NEW n \in 0 .. b - a - 1, n \in mirror PROVE n + 1 \in mirror
        OBVIOUS
    <2>1. b - n \in S /\ b - n \in a + 1 .. b
        OBVIOUS
    <2>2. b - n - 1 \in S /\ b - n - 1 \in a .. b
        BY <2>1
    <2> QED BY <2>2
<1> HIDE DEF mirror
<1> DEFINE d == b - a
<1>3. d \in Int /\ 0 \in Int /\ (0 <= d => 0 \in mirror)
          /\ \A n \in 0 .. d - 1 : n \in mirror => n + 1 \in mirror
    BY <1>1, <1>2
<1> HIDE DEF d
<1>4. 0 .. d \subseteq mirror
    BY <1>3, InductionUp, Zenon
<1>5. ASSUME NEW n \in a .. b PROVE n \in S
    <2>1. b - n \in mirror
        BY <1>4 DEF d
    <2> QED BY <2>1 DEF mirror
<1> QED BY <1>5

\* A sequence of values, each computed from the one before it.
IsStepUp(m, A, first, step) ==
    m \in Nat /\ first \in A /\ step \in [1 .. m -> [A -> A]]

IsCarried(m, A, first, step, f) ==
    /\ f \in [0 .. m -> A]
    /\ f[0] = first /\ \A n \in 1 .. m : f[n] = step[n][f[n - 1]]

LEMMA Recursion ==
    ASSUME NEW m, NEW A, NEW first, NEW step, IsStepUp(m, A, first, step)
    PROVE  \E f : IsCarried(m, A, first, step, f)
<1> USE DEF IsStepUp
<1> DEFINE Upto(n) == {f \in [0 .. n -> A] :
                          f[0] = first /\ \A i \in 1 .. n : f[i] = step[i][f[i - 1]]}
           defined == {n \in 0 .. m : Upto(n) # {}}
<1>1. 0 \in defined
    <2>1. [n \in {0} |-> first] \in Upto(0)
        OBVIOUS
    <2> QED BY <2>1
<1>2. ASSUME NEW n \in 0 .. m - 1, n \in defined PROVE n + 1 \in defined
    <2>1. PICK f \in Upto(n) : TRUE
        BY <1>2
    <2> DEFINE g == [i \in 0 .. n + 1 |-> IF i = n + 1 THEN step[n + 1][f[n]] ELSE f[i]]
    <2>2. f \in [0 .. n -> A] /\ f[0] = first /\ \A i \in 1 .. n : f[i] = step[i][f[i - 1]]
        BY <2>1
    <2>3. step[n + 1] \in [A -> A] /\ f[n] \in A
        BY <2>2
    <2>4. g \in [0 .. n + 1 -> A]
        BY <2>2, <2>3
    <2>5. ASSUME NEW i \in 1 .. n + 1 PROVE g[i] = step[i][g[i - 1]]
        <3>1. CASE i = n + 1
            BY <3>1
        <3>2. CASE i \in 1 .. n
            BY <2>2, <3>2
        <3> QED BY <3>1, <3>2
    <2>6. g \in Upto(n + 1)
        BY <2>2, <2>4, <2>5
    <2> QED BY <2>6
<1> HIDE DEF defined
<1>3. 0 .. m \subseteq defined
    <2>1. m \in Int /\ 0 \in Int /\ \A n \in 0 .. m - 1 : n \in defined => n + 1 \in defined
        BY <1>2
    <2> QED BY <1>1, <2>1, InductionUp, Zenon
<1>4. Upto(m) # {}
    BY <1>3 DEF defined
<1>5. PICK f \in Upto(m) : TRUE
    BY <1>4
<1> QED BY <1>5 DEF IsCarried

\* Each value of a function on 1 .. m is computed from those of higher numbers.
IsStepDown(m, A, step) ==
    /\ m \in Nat /\ A # {}
    /\ step \in [1 .. m -> [[1 .. m -> A] -> A]]
    /\ \A n \in 1 .. m : \A f, g \in [1 .. m -> A] :
          (\A i \in n + 1 .. m : f[i] = g[i]) => step[n][f] = step[n][g]

IsComputed(m, A, step, f) ==
    f \in [1 .. m -> A] /\ \A n \in 1 .. m : f[n] = step[n][f]

\* Then there is one.
LEMMA RecursionDown ==
    ASSUME NEW m, NEW A, NEW step, IsStepDown(m, A, step)
    PROVE  \E f : IsComputed(m, A, step, f)
<1> USE DEF IsStepDown
<1> DEFINE From(n) == {f \in [1 .. m -> A] : \A i \in n .. m : f[i] = step[i][f]}
           defined == {n \in 1 .. m + 1 : From(n) # {}}
<1>1. m + 1 \in defined
    <2>1. PICK a \in A : TRUE
        OBVIOUS
    <2>2. [i \in 1 .. m |-> a] \in From(m + 1)
        OBVIOUS
    <2> QED BY <2>2
<1>2. ASSUME NEW n \in 1 + 1 .. m + 1, n \in defined PROVE n - 1 \in defined
    <2>1. PICK f \in From(n) : TRUE
        BY <1>2
    <2>2. f \in [1 .. m -> A] /\ \A i \in n .. m : f[i] = step[i][f]
        BY <2>1
    <2>3. n - 1 \in 1 .. m /\ step[n - 1][f] \in A
        BY <2>2
    <2> DEFINE g == [f EXCEPT ![n - 1] = step[n - 1][f]]
    <2>4. g \in [1 .. m -> A] /\ g[n - 1] = step[n - 1][f] /\ \A i \in n .. m : g[i] = f[i]
        BY <2>2, <2>3
    <2> HIDE DEF g
    <2>5. ASSUME NEW i \in n - 1 .. m PROVE g[i] = step[i][g]
        <3>1. i \in 1 .. m /\ \A j \in i + 1 .. m : g[j] = f[j]
            BY <2>4
        <3>2. step[i][g] = step[i][f]
            BY <2>2, <2>4, <3>1
        <3>3. g[i] = step[i][f]
            BY <2>2, <2>4
        <3> QED BY <3>2, <3>3
    <2>6. g \in From(n - 1)
        BY <2>4, <2>5
    <2> QED BY <2>3, <2>6
<1> HIDE DEF defined
<1>3. 1 .. m + 1 \subseteq defined
    <2>1. /\ m + 1 \in Int /\ 1 \in Int
          /\ \A n \in 1 + 1 .. m + 1 : n \in defined => n - 1 \in defined
        BY <1>2
    <2> QED BY <1>1, <2>1, InductionDown, Zenon
<1>4. From(1) # {}
    <2>1. 1 \in defined
        BY <1>3
    <2> QED BY <2>1 DEF defined
<1>5. PICK f \in From(1) : TRUE
    BY <1>4
<1> QED BY <1>5 DEF IsComputed

--------------------------------------------------------------------------------
(* Trees whose rows are numbered from the root, which is 1: what is below a *)
(* row, directly, has higher numbers.                                       *)

IsTree(m, below) ==
    /\ m \in Nat \ {0} /\ below \in [1 .. m -> SUBSET (1 .. m)]
    /\ \A v \in 1 .. m : below[v] \subseteq v + 1 .. m
    /\ \A r \in 2 .. m : \E p \in 1 .. m : r \in below[p]

\* What is handed up from row to row arrives at the root if any row has it, and
\* only then.
LEMMA Arrives ==
    ASSUME NEW m, NEW below, IsTree(m, below),
           NEW own \in SUBSET (1 .. m), NEW G \in SUBSET (1 .. m),
           \A v \in 1 .. m : v \in G <=> (v \in own \/ \E c \in below[v] : c \in G)
    PROVE  1 \in G <=> own # {}
<1>1. m \in Nat /\ G \in SUBSET (0 .. m) /\ G \in SUBSET Nat
    BY DEF IsTree
<1>2. ASSUME G # {}, own = {} PROVE FALSE
    <2>1. PICK k \in G : \A n \in G : n <= k
        BY <1>1, <1>2, GreatestNumber
    <2>2. PICK c \in below[k] : c \in G
        BY <1>2, <2>1
    <2>3. c \in k + 1 .. m
        BY <2>2 DEF IsTree
    <2> QED BY <1>1, <2>1, <2>2, <2>3
<1>3. ASSUME own # {} PROVE 1 \in G
    <2>1. G # {}
        BY <1>3
    <2>2. PICK k \in G : \A n \in G : k <= n
        BY <1>1, <2>1, LeastNumber
    <2>3. CASE k # 1
        <3>1. PICK p \in 1 .. m : k \in below[p]
            BY <2>3 DEF IsTree
        <3>2. p \in G /\ p < k
            BY <1>1, <3>1 DEF IsTree
        <3> QED BY <1>1, <2>2, <3>2
    <2> QED BY <2>2, <2>3
<1> QED BY <1>2, <1>3

\* A walk computes a value for each row from those of the rows below it.
IsWalk(m, below, A, step) ==
    /\ A # {}
    /\ step \in [1 .. m -> [[1 .. m -> A] -> A]]
    /\ \A v \in 1 .. m : \A f, g \in [1 .. m -> A] :
          (\A c \in below[v] : f[c] = g[c]) => step[v][f] = step[v][g]

LEMMA Walks ==
    ASSUME NEW m, NEW below, IsTree(m, below), NEW A, NEW step, IsWalk(m, below, A, step)
    PROVE  \E f : IsComputed(m, A, step, f)
<1>1. IsStepDown(m, A, step)
    <2>1. ASSUME NEW v \in 1 .. m, NEW f \in [1 .. m -> A], NEW g \in [1 .. m -> A],
                 \A c \in v + 1 .. m : f[c] = g[c]
          PROVE  step[v][f] = step[v][g]
        <3>1. \A c \in below[v] : f[c] = g[c]
            BY <2>1 DEF IsTree
        <3> QED BY <3>1 DEF IsWalk
    <2>2. m \in Nat
        BY DEF IsTree
    <2> QED BY <2>1, <2>2 DEF IsStepDown, IsWalk
<1> QED BY <1>1, RecursionDown

\* A walk that looks for rows of a set.
Finds(m, below, own, found) ==
    found = [v \in 1 .. m |-> v \in own \/ \E c \in below[v] : found[c]]

LEMMA Finding ==
    ASSUME NEW m, NEW below, IsTree(m, below), NEW own \in SUBSET (1 .. m)
    PROVE  /\ \E found : Finds(m, below, own, found)
           /\ \A found : Finds(m, below, own, found) => (found[1] <=> own # {})
<1> DEFINE V == 1 .. m
           value(v, f) == v \in own \/ \E c \in below[v] : f[c]
           step == [v \in V |-> [f \in [V -> BOOLEAN] |-> value(v, f)]]
<1>1. IsWalk(m, below, BOOLEAN, step)
    <2>1. step \in [V -> [[V -> BOOLEAN] -> BOOLEAN]]
        OBVIOUS
    <2>2. ASSUME NEW v \in V, NEW f \in [V -> BOOLEAN], NEW g \in [V -> BOOLEAN],
                 \A c \in below[v] : f[c] = g[c]
          PROVE  step[v][f] = step[v][g]
        <3>1. (\E c \in below[v] : f[c]) <=> \E c \in below[v] : g[c]
            BY <2>2
        <3> QED BY <3>1
    <2> HIDE DEF step
    <2> QED BY <2>1, <2>2 DEF IsWalk
<1>2. PICK f : IsComputed(m, BOOLEAN, step, f)
    <2> HIDE DEF step
    <2> QED BY <1>1, Walks
<1>3. f \in [V -> BOOLEAN] /\ \A v \in V : f[v] = step[v][f]
    <2> HIDE DEF step
    <2> QED BY <1>2 DEF IsComputed
<1>4. Finds(m, below, own, f)
    BY <1>3 DEF Finds
<1>5. ASSUME NEW found, Finds(m, below, own, found)
      PROVE  found[1] <=> own # {}
    <2> DEFINE G == {v \in V : found[v]}
    <2>1. \A v \in V : found[v] <=> (v \in own \/ \E c \in below[v] : found[c])
        BY <1>5, Zenon DEF Finds
    <2>2. \A v \in V : v \in G <=> (v \in own \/ \E c \in below[v] : c \in G)
        <3>1. \A v \in V : \A c \in below[v] : c \in V
            BY DEF IsTree
        <3> QED BY <2>1, <3>1
    <2>3. 1 \in G <=> own # {}
        <3> HIDE DEF G
        <3>1. G \in SUBSET V
            BY DEF G
        <3> QED BY <2>2, <3>1, Arrives
    <2>4. 1 \in V
        BY DEF IsTree
    <2> QED BY <2>3, <2>4
<1> QED BY <1>4, <1>5
================================================================================
