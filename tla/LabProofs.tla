------------------------------ MODULE LabProofs ------------------------------
(***************************************************************************)
(* What happens in a job, for all values of the parameters: the proxy that *)
(* lets its browser out, the guard between a model and a decision, the     *)
(* score, the batch judge and the diagnosis, and the measurement of a      *)
(* page.  A section is about one of them: its inductive invariant, that    *)
(* each action keeps it, and the theorem about every behaviour of MCLab.   *)
(* The sessions and the connection to the browser are in SessionProofs.    *)
(*                                                                         *)
(* Some definitions read a sequence step by step, by a recursive function, *)
(* so the proofs about them need an induction.  SetInduction gives it,     *)
(* without an operator for a parameter: a set that holds 0 and every       *)
(* successor is Nat.                                                       *)
(***************************************************************************)
EXTENDS MCLab, FiniteSetTheorems, SequenceTheorems, WellFoundedInduction, TLAPS

-----------------------------------------------------------------------------
(* Induction over the natural numbers, on a set.                           *)

(* A set of naturals with 0 and every successor is all of them: a least    *)
(* number that is missing has a predecessor that is not.                   *)
LEMMA SetInduction ==
  ASSUME NEW S, S \subseteq Nat, 0 \in S, \A n \in S : n + 1 \in S
  PROVE  S = Nat
<1> DEFINE T == Nat \ S
<1>1. SUFFICES ASSUME T # {}
               PROVE  FALSE
  OBVIOUS
<1>2. \A x, y \in Nat : <<y, x>> \in OpToRel(<, Nat) <=> y < x
  BY DEF OpToRel
<1>3. PICK x \in T : \A y \in T : ~(<<y, x>> \in OpToRel(<, Nat))
  BY <1>1, NatLessThanWellFounded, WFMin
<1>4. x \in Nat /\ x # 0 /\ x - 1 \in Nat
  OBVIOUS
<1>5. x - 1 \in T
  BY <1>4
<1>6. x - 1 < x
  BY <1>4
<1>7. <<x - 1, x>> \in OpToRel(<, Nat)
  BY <1>2, <1>4, <1>6
<1> QED
  BY <1>3, <1>5, <1>7

-----------------------------------------------------------------------------
(* Numbers, and sums of them.                                              *)

(* A quotient is the last multiple that fits. *)
LEMMA DivBounds ==
  ASSUME NEW a \in Nat, NEW d \in Nat \ {0}
  PROVE  a \div d \in Nat /\ d * (a \div d) <= a /\ a < d * (a \div d) + d
<1>1. a \div d \in Int /\ a = d * (a \div d) + (a % d)
  BY SMT
<1>2. a % d \in 0..(d - 1)
  BY SMT
<1> QED
  BY <1>1, <1>2, SMT

(* So division keeps the order. *)
LEMMA DivGrows ==
  ASSUME NEW a \in Nat, NEW b \in Nat, a <= b, NEW d \in Nat \ {0}
  PROVE  a \div d \in Nat /\ b \div d \in Nat /\ a \div d <= b \div d
<1> DEFINE p == a \div d
           q == b \div d
<1>1. p \in Nat /\ d * p <= a /\ q \in Nat /\ b < d * q + d
  BY DivBounds
<1> HIDE DEF p, q
<1>2. d * p < d * q + d
  BY <1>1
<1>3. SUFFICES ASSUME p >= q + 1
               PROVE  FALSE
  BY <1>1 DEF p, q
<1>4. d * p >= d * q + d
  BY <1>1, <1>3
<1> QED
  BY <1>1, <1>2, <1>4

(* More of what one divides by makes less.                                 *)
LEMMA DivFalls ==
  ASSUME NEW a \in Nat, NEW d \in Nat \ {0}, NEW e \in Nat \ {0}, d <= e
  PROVE  a \div e \in Nat /\ a \div d \in Nat /\ a \div e <= a \div d
<1> DEFINE p == a \div e
           q == a \div d
<1>1. p \in Nat /\ e * p <= a /\ q \in Nat /\ a < d * q + d
  BY DivBounds
<1> HIDE DEF p, q
<1>2. SUFFICES ASSUME p >= q + 1
               PROVE  FALSE
  BY <1>1 DEF p, q
<1>3. d * p <= e * p
  BY <1>1
<1>4. d * p >= d * q + d
  BY <1>1, <1>2
<1>5. d * p \in Nat /\ e * p \in Nat /\ d * q \in Nat
  BY <1>1
<1> QED
  BY <1>1, <1>3, <1>4, <1>5

(* A set of numbers has a least one.                                       *)
LEMMA LeastFits ==
  ASSUME NEW S, S \subseteq Nat, S # {}
  PROVE  Score!Min(S) \in S /\ \A y \in S : Score!Min(S) <= y
<1>1. \A x, y \in Nat : <<y, x>> \in OpToRel(<, Nat) <=> y < x
  BY DEF OpToRel
<1>2. PICK x \in S : \A y \in S : ~(<<y, x>> \in OpToRel(<, Nat))
  <2>1. \A T : T \subseteq Nat /\ T # {} => \E x \in T : \A y \in T : ~(<<y, x>> \in OpToRel(<, Nat))
    BY NatLessThanWellFounded, WFMin
  <2> QED
    BY <2>1
<1>3. ASSUME NEW y \in S
      PROVE  x <= y
  <2>1. x \in Nat /\ y \in Nat
    OBVIOUS
  <2>2. ~(y < x)
    BY <1>1, <1>2, <2>1
  <2> QED
    BY <2>1, <2>2
<1>4. \E m \in S : \A y \in S : m <= y
  BY <1>3
<1> QED
  BY <1>4 DEF Score!Min

(* Of finitely many numbers in a row, one is the largest.                  *)
LEMMA LargestInRow ==
  ASSUME NEW n \in Nat \ {0}, NEW f, \A i \in 1..n : f[i] \in Nat
  PROVE  \E i \in 1..n : \A j \in 1..n : f[j] <= f[i]
<1> DEFINE Has(k) == \E i \in 1..k : \A j \in 1..k : f[j] <= f[i]
           T == {k \in Nat : k # 0 /\ k <= n => Has(k)}
<1>1. 0 \in T
  OBVIOUS
<1>2. ASSUME NEW k \in T
      PROVE  k + 1 \in T
  <2> SUFFICES ASSUME k + 1 <= n
               PROVE  Has(k + 1)
    OBVIOUS
  <2>1. k \in Nat /\ f[k + 1] \in Nat /\ \A i \in 1..k : f[i] \in Nat
    OBVIOUS
  <2>2. \A j \in 1..(k + 1) : j \in 1..k \/ j = k + 1
    OBVIOUS
  <2>3. k + 1 \in 1..(k + 1) /\ \A j \in 1..k : j \in 1..(k + 1)
    OBVIOUS
  <2>4. CASE k = 0
    <3>1. \A j \in 1..(k + 1) : j = k + 1
      BY <2>2, <2>4
    <3> QED
      BY <2>1, <2>3, <3>1
  <2>5. CASE k # 0
    <3>1. PICK i \in 1..k : \A j \in 1..k : f[j] <= f[i]
      BY <1>2, <2>5
    <3>2. CASE f[k + 1] <= f[i]
      BY <2>2, <2>3, <3>1, <3>2
    <3>3. CASE f[k + 1] > f[i]
      <4>1. \A j \in 1..k : f[j] <= f[k + 1]
        BY <2>1, <3>1, <3>3
      <4> QED
        BY <2>1, <2>2, <2>3, <4>1
    <3> QED
      BY <2>1, <3>1, <3>2, <3>3
  <2> QED
    BY <2>4, <2>5
<1>3. T \subseteq Nat
  OBVIOUS
<1>4. n \in T
  <2> HIDE DEF T
  <2>1. T = Nat
    BY <1>1, <1>2, <1>3, SetInduction
  <2> QED
    BY <2>1
<1> QED
  BY <1>4

(* So a finite set of numbers has a largest one. *)
LEMMA LargestFits ==
  ASSUME NEW S, S \subseteq Nat, S # {}, IsFiniteSet(S)
  PROVE  Score!Max(S) \in S /\ \A y \in S : Score!Max(S) >= y
<1>0. PICK n \in Nat : ExistsSurjection(1..n, S)
  BY FS_NatSurjection
<1>1. PICK f \in [1..n -> S] : \A y \in S : \E i \in 1..n : f[i] = y
  BY <1>0 DEF ExistsSurjection, Surjection
<1>2. n \in Nat \ {0} /\ \A i \in 1..n : f[i] \in S
  <2>1. PICK y \in S : TRUE
    OBVIOUS
  <2>2. PICK i \in 1..n : f[i] = y
    BY <1>1
  <2> QED
    BY <1>1
<1>3. PICK i \in 1..n : \A j \in 1..n : f[j] <= f[i]
  BY <1>2, LargestInRow
<1>4. f[i] \in S /\ \A y \in S : f[i] >= y
  BY <1>1, <1>2, <1>3
<1> QED
  BY <1>4 DEF Score!Max

(* The sum that TotalOf defines is there. *)
LEMMA SumRuns ==
  ASSUME NEW s, Len(s) \in Nat
  PROVE  \E g : /\ g[0] = 0
                /\ \A n \in 1..Len(s) : g[n] = g[n - 1] + s[n]
                /\ Score!TotalOf(s) = g[Len(s)]
<1> DEFINE Runs(g, k) == g = [n \in 0..k |-> IF n = 0 THEN 0 ELSE g[n - 1] + s[n]]
           S == {k \in Nat : \E g : Runs(g, k)}
<1>1. 0 \in S
  <2>1. \A n \in 0..0 : n = 0
    OBVIOUS
  <2>2. Runs([n \in 0..0 |-> 0], 0)
    BY <2>1
  <2> QED
    BY <2>2
<1>2. ASSUME NEW k \in S
      PROVE  k + 1 \in S
  <2>1. PICK g : Runs(g, k)
    BY <1>2
  <2> DEFINE h == [n \in 0..(k + 1) |-> IF n = k + 1 THEN g[k] + s[k + 1] ELSE g[n]]
  <2>2. \A n \in 0..(k + 1) : h[n] = IF n = 0 THEN 0 ELSE h[n - 1] + s[n]
    <3> TAKE n \in 0..(k + 1)
    <3>1. CASE n = k + 1
      BY <3>1
    <3>2. CASE n # k + 1
      <4>1. n \in 0..k /\ h[n] = g[n] /\ (n # 0 => h[n - 1] = g[n - 1])
        BY <3>2
      <4>2. g[n] = IF n = 0 THEN 0 ELSE g[n - 1] + s[n]
        BY <2>1, <4>1
      <4> QED
        BY <4>1, <4>2
    <3> QED
      BY <3>1, <3>2
  <2>3. Runs(h, k + 1)
    BY <2>2
  <2> HIDE DEF h, Runs
  <2>4. k + 1 \in Nat /\ \E f : Runs(f, k + 1)
    BY <2>3
  <2> QED
    BY <2>4
<1>3. S = Nat
  <2> HIDE DEF Runs
  <2>1. S \subseteq Nat
    OBVIOUS
  <2> HIDE DEF S
  <2> QED
    BY <1>1, <1>2, <2>1, SetInduction
<1> DEFINE sum == CHOOSE g : Runs(g, Len(s))
<1>4. Runs(sum, Len(s))
  <2>1. \E g : Runs(g, Len(s))
    BY <1>3
  <2> HIDE DEF Runs
  <2> QED
    BY ONLY <2>1
<1>5. Score!TotalOf(s) = sum[Len(s)]
  BY DEF Score!TotalOf
<1> HIDE DEF sum
<1>6. sum[0] = 0 /\ \A n \in 1..Len(s) : sum[n] = sum[n - 1] + s[n]
  BY <1>4
<1> QED
  BY <1>5, <1>6

(* A sum is a number, and no less than what it adds. *)
LEMMA SumFits ==
  ASSUME NEW s, NEW n \in Nat, Len(s) = n, \A i \in 1..n : s[i] \in Nat
  PROVE  Score!TotalOf(s) \in Nat /\ \A i \in 1..n : s[i] <= Score!TotalOf(s)
<1>1. PICK g : g[0] = 0 /\ (\A k \in 1..n : g[k] = g[k - 1] + s[k]) /\ Score!TotalOf(s) = g[n]
  BY SumRuns
<1> DEFINE T == {k \in Nat : k <= n => g[k] \in Nat /\ \A i \in 1..k : s[i] <= g[k]}
<1>2. 0 \in T
  BY <1>1
<1>3. ASSUME NEW k \in T
      PROVE  k + 1 \in T
  <2> SUFFICES ASSUME k + 1 <= n
               PROVE  g[k + 1] \in Nat /\ \A i \in 1..(k + 1) : s[i] <= g[k + 1]
    OBVIOUS
  <2>1. k \in Nat /\ k + 1 \in 1..n /\ (k + 1) - 1 = k /\ g[k] \in Nat /\ \A i \in 1..k : s[i] <= g[k]
    BY <1>3
  <2>2. g[k + 1] = g[k] + s[k + 1] /\ s[k + 1] \in Nat
    BY <1>1, <2>1
  <2>3. \A i \in 1..(k + 1) : (i \in 1..k /\ s[i] \in Nat) \/ i = k + 1
    BY <2>1
  <2> QED
    BY <2>1, <2>2, <2>3
<1>4. T \subseteq Nat
  OBVIOUS
<1>5. n \in T
  <2> HIDE DEF T
  <2>1. T = Nat
    BY <1>2, <1>3, <1>4, SetInduction
  <2> QED
    BY <2>1
<1> QED
  BY <1>1, <1>5

(* No less in any place is no less in all. *)
LEMMA SumGrows ==
  ASSUME NEW s, NEW t, NEW n \in Nat, Len(s) = n, Len(t) = n,
         \A i \in 1..n : s[i] \in Nat /\ t[i] \in Nat /\ s[i] <= t[i]
  PROVE  Score!TotalOf(s) <= Score!TotalOf(t)
<1>1. PICK g : g[0] = 0 /\ (\A k \in 1..n : g[k] = g[k - 1] + s[k]) /\ Score!TotalOf(s) = g[n]
  BY SumRuns
<1>2. PICK h : h[0] = 0 /\ (\A k \in 1..n : h[k] = h[k - 1] + t[k]) /\ Score!TotalOf(t) = h[n]
  BY SumRuns
<1> DEFINE T == {k \in Nat : k <= n => g[k] \in Nat /\ h[k] \in Nat /\ g[k] <= h[k]}
<1>3. 0 \in T
  BY <1>1, <1>2
<1>4. ASSUME NEW k \in T
      PROVE  k + 1 \in T
  <2> SUFFICES ASSUME k + 1 <= n
               PROVE  g[k + 1] \in Nat /\ h[k + 1] \in Nat /\ g[k + 1] <= h[k + 1]
    OBVIOUS
  <2>1. /\ k \in Nat /\ k + 1 \in 1..n /\ (k + 1) - 1 = k
        /\ g[k] \in Nat /\ h[k] \in Nat /\ g[k] <= h[k]
    BY <1>4
  <2>2. g[k + 1] = g[k] + s[k + 1] /\ h[k + 1] = h[k] + t[k + 1]
    BY <1>1, <1>2, <2>1
  <2> QED
    BY <2>1, <2>2
<1>5. T \subseteq Nat
  OBVIOUS
<1>6. n \in T
  <2> HIDE DEF T
  <2>1. T = Nat
    BY <1>3, <1>4, <1>5, SetInduction
  <2> QED
    BY <2>1
<1> QED
  BY <1>1, <1>2, <1>6

(* One more number adds itself. *)
LEMMA SumAppends ==
  ASSUME NEW s, NEW t, NEW n \in Nat, Len(s) = n, Len(t) = n + 1, \A i \in 1..n : t[i] = s[i]
  PROVE  Score!TotalOf(t) = Score!TotalOf(s) + t[n + 1]
<1>0. Len(t) \in Nat
  OBVIOUS
<1>1. PICK g : g[0] = 0 /\ (\A k \in 1..n : g[k] = g[k - 1] + s[k]) /\ Score!TotalOf(s) = g[n]
  BY SumRuns
<1>2. PICK h : h[0] = 0 /\ (\A k \in 1..(n + 1) : h[k] = h[k - 1] + t[k]) /\ Score!TotalOf(t) = h[n + 1]
  BY <1>0, SumRuns
<1> DEFINE T == {k \in Nat : k <= n => g[k] = h[k]}
<1>3. 0 \in T
  BY <1>1, <1>2
<1>4. ASSUME NEW k \in T
      PROVE  k + 1 \in T
  <2> SUFFICES ASSUME k + 1 <= n
               PROVE  g[k + 1] = h[k + 1]
    OBVIOUS
  <2>1. /\ k \in Nat /\ k + 1 \in 1..n /\ k + 1 \in 1..(n + 1) /\ (k + 1) - 1 = k /\ g[k] = h[k]
    BY <1>4
  <2> QED
    BY <1>1, <1>2, <2>1
<1>5. T \subseteq Nat
  OBVIOUS
<1>6. n \in T
  <2> HIDE DEF T
  <2>1. T = Nat
    BY <1>3, <1>4, <1>5, SetInduction
  <2> QED
    BY <2>1
<1>7. n + 1 \in 1..(n + 1) /\ (n + 1) - 1 = n
  OBVIOUS
<1> QED
  BY <1>1, <1>2, <1>6, <1>7

(* The rest of a run sums to the run without its first sample. *)
LEMMA SumRest ==
  ASSUME NEW s, NEW t, NEW n \in Nat, Len(s) = n + 1, Len(t) = n,
         \A i \in 1..(n + 1) : s[i] \in Nat, \A i \in 1..n : t[i] = s[i + 1]
  PROVE  Score!TotalOf(s) = s[1] + Score!TotalOf(t) /\ Score!TotalOf(t) \in Nat
<1>0. Len(s) \in Nat
  OBVIOUS
<1>1. PICK g : g[0] = 0 /\ (\A k \in 1..(n + 1) : g[k] = g[k - 1] + s[k]) /\ Score!TotalOf(s) = g[n + 1]
  BY <1>0, SumRuns
<1>2. PICK h : h[0] = 0 /\ (\A k \in 1..n : h[k] = h[k - 1] + t[k]) /\ Score!TotalOf(t) = h[n]
  BY SumRuns
<1> DEFINE T == {k \in Nat : k <= n => h[k] \in Nat /\ g[k + 1] = s[1] + h[k]}
<1>3. 0 \in T
  <2>1. 1 \in 1..(n + 1) /\ 1 - 1 = 0 /\ 0 + 1 = 1 /\ s[1] \in Nat
    OBVIOUS
  <2>2. g[1] = g[0] + s[1]
    BY <1>1, <2>1
  <2> QED
    BY <1>1, <1>2, <2>1, <2>2
<1>4. ASSUME NEW k \in T
      PROVE  k + 1 \in T
  <2> SUFFICES ASSUME k + 1 <= n
               PROVE  h[k + 1] \in Nat /\ g[(k + 1) + 1] = s[1] + h[k + 1]
    OBVIOUS
  <2>1. /\ k \in Nat /\ k + 1 \in 1..n /\ (k + 1) + 1 \in 1..(n + 1) /\ (k + 1) - 1 = k
        /\ ((k + 1) + 1) - 1 = k + 1 /\ h[k] \in Nat /\ g[k + 1] = s[1] + h[k]
        /\ s[1] \in Nat /\ s[(k + 1) + 1] \in Nat
    BY <1>4
  <2>2. h[k + 1] = h[k] + t[k + 1] /\ g[(k + 1) + 1] = g[k + 1] + s[(k + 1) + 1] /\ t[k + 1] = s[(k + 1) + 1]
    BY <1>1, <1>2, <2>1
  <2> QED
    BY <2>1, <2>2
<1>5. T \subseteq Nat
  OBVIOUS
<1>6. n \in T
  <2> HIDE DEF T
  <2>1. T = Nat
    BY <1>3, <1>4, <1>5, SetInduction
  <2> QED
    BY <2>1
<1> QED
  BY <1>1, <1>2, <1>6

-----------------------------------------------------------------------------
(* The egress proxy.                                                       *)

Upstreams == [state : {"none", "dialling", "joined", "destroyed"},
              address : Addresses \cup {Egress!NoAddress}]
ClientStates == {"none", "waiting", "open", "ended", "destroyed", "closed"}

EgressTyped ==
    /\ resolver \in [Hosts -> (SUBSET Addresses) \cup {Egress!Failure}]
    /\ client \in [Browsers -> ClientStates]
    /\ ask \in [Browsers -> Hosts \cup {Egress!Malformed}]
    /\ found \in [Browsers -> (SUBSET Addresses) \cup {Egress!Failure, Egress!Unasked}]
    /\ upstream \in [Browsers -> Upstreams]
    /\ admitted \subseteq Browsers
    /\ tunnelCount \in 0..Cardinality(Browsers)
    /\ listening \in BOOLEAN

Counted == {c \in admitted : client[c] # "closed"}

(* Where a request is: whoever was never heard of is not admitted and has  *)
(* no upstream, and a proxy that is closed has nothing alive.              *)
SocketFits(c) ==
    /\ client[c] = "none" => c \notin admitted /\ upstream[c].state = "none"
    /\ Egress!UpstreamLive(c) => found[c] # Egress!Unasked /\ client[c] # "closed"
    /\ ~listening => ~Egress!Live(c) /\ ~Egress!UpstreamLive(c)

EgressInv ==
    /\ EgressTyped
    /\ \A c \in Browsers : SocketFits(c)
    /\ Egress!TunnelsArePinned
    /\ tunnelCount = Cardinality(Counted) /\ tunnelCount <= MaxTunnels

(* As many tunnels are counted as there are browsers, at most. *)
LEMMA CountIsBounded ==
  ASSUME admitted \subseteq Browsers
  PROVE  /\ IsFiniteSet(Counted) /\ Cardinality(Counted) \in Nat
         /\ Cardinality(Counted) <= Cardinality(Browsers) /\ Cardinality(Browsers) \in Nat
<1>1. Counted \subseteq Browsers
  BY DEF Counted
<1> QED
  BY <1>1, EgressAssumption, FS_Subset, FS_CardinalityType

(* The sockets before the first request. *)
LEMMA EgressStart == Egress!Init => EgressInv
<1> SUFFICES ASSUME Egress!Init
             PROVE  EgressInv
  OBVIOUS
<1> USE DEF Egress!Init
<1>1. Counted = {} /\ Cardinality(Counted) = 0
  BY FS_EmptySet DEF Counted
<1>2. EgressTyped
  <2>1. resolver \in [Hosts -> (SUBSET Addresses) \cup {Egress!Failure}]
    OBVIOUS
  <2>2. tunnelCount \in 0..Cardinality(Browsers)
    BY EgressAssumption, FS_CardinalityType
  <2>3. upstream \in [Browsers -> Upstreams]
    BY DEF Upstreams
  <2>4. /\ client \in [Browsers -> ClientStates]
        /\ ask \in [Browsers -> Hosts \cup {Egress!Malformed}]
        /\ found \in [Browsers -> (SUBSET Addresses) \cup {Egress!Failure, Egress!Unasked}]
        /\ admitted \subseteq Browsers /\ tunnelCount = 0 /\ listening \in BOOLEAN
    BY DEF ClientStates
  <2> QED
    BY <2>1, <2>2, <2>3, <2>4, Zenon DEF EgressTyped
<1>3. MaxTunnels \in Nat
  BY EgressAssumption
<1> QED
  BY <1>1, <1>2, <1>3
  DEF EgressInv, SocketFits, Egress!TunnelsArePinned, Egress!UpstreamLive, Egress!Live

(* A step in which nobody is admitted or closed leaves the count alone. *)
LEMMA CountKept ==
  ASSUME EgressInv, UNCHANGED <<admitted, tunnelCount>>,
         \A c \in Browsers : client'[c] = "closed" <=> client[c] = "closed"
  PROVE  tunnelCount' = Cardinality(Counted)' /\ tunnelCount' <= MaxTunnels
<1>1. Counted' = Counted
  BY DEF Counted, EgressInv, EgressTyped
<1> QED
  BY <1>1 DEF EgressInv

(* What a step does to one socket and its upstream keeps what fits the     *)
(* sockets, and the others are untouched.                                  *)
LEMMA OneSocket ==
  ASSUME EgressInv, NEW c \in Browsers,
         UNCHANGED listening,
         \A d \in Browsers \ {c} :
            /\ client'[d] = client[d] /\ ask'[d] = ask[d] /\ found'[d] = found[d]
            /\ upstream'[d] = upstream[d] /\ (d \in admitted' <=> d \in admitted),
         SocketFits(c)',
         Egress!UpstreamLive(c)' =>
            /\ ask'[c] \in Listed /\ upstream'[c].address \in found'[c]
            /\ \A a \in found'[c] : Egress!IsPublicAddress(a)
  PROVE  (\A d \in Browsers : SocketFits(d))' /\ Egress!TunnelsArePinned'
BY DEF EgressInv, SocketFits, Egress!TunnelsArePinned, Egress!UpstreamLive, Egress!Live,
       Egress!IsPublicAddress

(* Every step of the proxy keeps the invariant. *)
LEMMA EgressNext == EgressInv /\ Egress!Next => EgressInv'
<1> SUFFICES ASSUME EgressInv, Egress!Next
             PROVE  EgressInv'
  OBVIOUS
<1> USE DEF EgressInv
<1>1. ASSUME NEW h \in Hosts, Egress!AnswerChanges(h)
      PROVE  EgressInv'
  <2>1. EgressTyped'
    BY <1>1 DEF EgressTyped, Egress!AnswerChanges, Egress!CountKept
  <2>2. tunnelCount' = Cardinality(Counted)' /\ tunnelCount' <= MaxTunnels
    BY <1>1, CountKept DEF Egress!AnswerChanges, Egress!CountKept
  <2> QED
    BY <1>1, <2>1, <2>2
    DEF Egress!AnswerChanges, Egress!CountKept, SocketFits, Egress!TunnelsArePinned,
        Egress!UpstreamLive, Egress!Live, Egress!IsPublicAddress
<1>2. ASSUME NEW c \in Browsers, NEW h \in Hosts \cup {Egress!Malformed}, Egress!Connect(c, h)
      PROVE  EgressInv'
  <2> USE <1>2 DEF Egress!Connect, Egress!ProxyKept, Egress!CountKept
  <2>1. /\ client' = [client EXCEPT ![c] = client'[c]] /\ client'[c] \in {"ended", "waiting"}
        /\ \/ ask' = ask
           \/ ask' = [ask EXCEPT ![c] = h]
        /\ UNCHANGED <<found, upstream, resolver, listening>>
        /\ admitted' \subseteq admitted \cup {c} /\ admitted \subseteq admitted'
    BY DEF EgressTyped, ClientStates, Upstreams
  <2>2. tunnelCount' = Cardinality(Counted)' /\ tunnelCount' <= MaxTunnels
    <3>1. CASE tunnelCount >= MaxTunnels /\ client'[c] = "ended" /\ UNCHANGED <<admitted, tunnelCount>>
      BY <2>1, <3>1, CountKept DEF EgressTyped
    <3>2. CASE /\ tunnelCount < MaxTunnels /\ client'[c] = "waiting"
               /\ admitted' = admitted \cup {c} /\ tunnelCount' = tunnelCount + 1
      <4>1. c \notin Counted /\ Counted' = Counted \cup {c}
        BY <2>1, <3>2 DEF SocketFits, Counted, EgressTyped
      <4>2. Cardinality(Counted') = Cardinality(Counted) + 1
        BY <4>1, CountIsBounded, FS_AddElement DEF EgressTyped
      <4> QED
        BY <3>2, <4>2, CountIsBounded, EgressAssumption DEF EgressTyped
    <3> QED
      BY <3>1, <3>2 DEF EgressTyped
  <2>3. EgressTyped'
    <3>1. tunnelCount' \in 0..Cardinality(Browsers)
      BY <2>1, <2>2, CountIsBounded, FS_Subset, FS_CardinalityType, EgressAssumption
      DEF EgressTyped, Counted
    <3>2. ask' \in [Browsers -> Hosts \cup {Egress!Malformed}]
      BY <2>1 DEF EgressTyped, ClientStates, Upstreams
    <3>3. /\ client' \in [Browsers -> ClientStates]
          /\ admitted' \subseteq Browsers
      BY <2>1 DEF EgressTyped, ClientStates, Upstreams
    <3> QED
      BY <2>1, <3>1, <3>2, <3>3 DEF EgressTyped
  <2> QED
    BY <2>1, <2>2, <2>3, OneSocket
    DEF SocketFits, EgressTyped, Egress!UpstreamLive, Egress!Live
<1>3. ASSUME NEW c \in Browsers, Egress!ClientGoes(c)
      PROVE  EgressInv'
  <2> USE <1>3 DEF Egress!ClientGoes, Egress!ProxyKept, Egress!CountKept
  <2>1. EgressTyped'
    BY DEF EgressTyped, ClientStates, Upstreams
  <2>2. tunnelCount' = Cardinality(Counted)' /\ tunnelCount' <= MaxTunnels
    BY CountKept DEF EgressTyped, Egress!Live
  <2> QED
    BY <2>1, <2>2, OneSocket
    DEF SocketFits, EgressTyped, Egress!UpstreamLive, Egress!Live, Egress!TunnelsArePinned
<1>4. ASSUME NEW c \in Browsers, Egress!ClientCloses(c)
      PROVE  EgressInv'
  <2> USE <1>4 DEF Egress!ClientCloses, Egress!ProxyKept, Egress!CountKept
  <2>1. tunnelCount' = Cardinality(Counted)' /\ tunnelCount' <= MaxTunnels /\ tunnelCount' \in Nat
    <3>1. CASE c \in admitted
      <4>1. c \in Counted /\ Counted' = Counted \ {c}
        BY <3>1 DEF Counted, EgressTyped
      <4>2. Cardinality(Counted') = Cardinality(Counted) - 1 /\ Cardinality(Counted') \in Nat
        BY <4>1, CountIsBounded, FS_RemoveElement, FS_CardinalityType DEF EgressTyped
      <4> QED
        BY <3>1, <4>2, CountIsBounded, EgressAssumption DEF EgressTyped
    <3>2. CASE c \notin admitted
      <4>1. Counted' = Counted
        BY <3>2 DEF Counted, EgressTyped
      <4> QED
        BY <3>2, <4>1, CountIsBounded DEF EgressTyped
    <3> QED
      BY <3>1, <3>2
  <2>2. upstream' = [upstream EXCEPT ![c] = upstream'[c]] /\ ~Egress!UpstreamLive(c)'
        /\ upstream'[c] \in Upstreams
        /\ (upstream[c].state = "none" => upstream'[c].state = "none")
    BY DEF Egress!Destroyed, Egress!UpstreamLive, EgressTyped, Upstreams
  <2>3. EgressTyped'
    <3>1. tunnelCount' \in 0..Cardinality(Browsers)
      <4>1. Counted' \subseteq Counted
        BY DEF Counted, EgressTyped
      <4>2. Cardinality(Counted') <= Cardinality(Counted)
        BY <4>1, CountIsBounded, FS_Subset DEF EgressTyped
      <4> HIDE <1>4 DEF EgressInv
      <4> QED
        BY <2>1, <4>2, CountIsBounded, FS_Subset DEF EgressTyped, EgressInv
    <3>2. upstream' \in [Browsers -> Upstreams]
      BY <2>2 DEF EgressTyped
    <3>3. client' \in [Browsers -> ClientStates]
      BY DEF EgressTyped, ClientStates, Upstreams
    <3> QED
      BY <3>1, <3>2, <3>3 DEF EgressTyped
  <2> QED
    BY <2>1, <2>2, <2>3, OneSocket
    DEF SocketFits, EgressTyped, Egress!UpstreamLive, Egress!Live
<1>5. ASSUME NEW c \in Browsers, Egress!Lookup(c)
      PROVE  EgressInv'
  <2> USE <1>5 DEF Egress!Lookup, Egress!AwaitsAnswer, Egress!ProxyKept, Egress!CountKept
  <2>1. /\ ask[c] \in Hosts /\ resolver[ask[c]] \in (SUBSET Addresses) \cup {Egress!Failure}
        /\ found' = [found EXCEPT ![c] = found'[c]]
        /\ found'[c] \in (SUBSET Addresses) \cup {Egress!Failure}
    <3>1. ask[c] \in Hosts \cup {Egress!Malformed}
      BY DEF EgressTyped
    <3>2. ask[c] \in Hosts
      BY <3>1
    <3>3. resolver[ask[c]] \in (SUBSET Addresses) \cup {Egress!Failure}
      BY <3>2 DEF EgressTyped
    <3>4. PICK answers \in {resolver[ask[c]], Egress!Failure} :
             found' = [found EXCEPT ![c] = answers]
      OBVIOUS
    <3>5. found'[c] = answers /\ found' = [found EXCEPT ![c] = found'[c]]
      BY <3>4 DEF EgressTyped
    <3> QED
      BY <3>2, <3>3, <3>5
  <2>2. EgressTyped'
    BY <2>1 DEF EgressTyped, ClientStates, Upstreams
  <2>3. tunnelCount' = Cardinality(Counted)' /\ tunnelCount' <= MaxTunnels
    BY CountKept
  <2> QED
    BY <2>1, <2>2, <2>3, OneSocket
    DEF SocketFits, EgressTyped, Egress!UpstreamLive, Egress!Live
<1>6. ASSUME NEW c \in Browsers, Egress!Refuse(c)
      PROVE  EgressInv'
  <2> USE <1>6 DEF Egress!Refuse, Egress!Ended, Egress!ProxyKept, Egress!CountKept
  <2>1. client' = [client EXCEPT ![c] = "ended"] /\ Egress!Live(c)
    BY DEF EgressTyped, ClientStates, Upstreams
  <2>2. EgressTyped'
    BY <2>1 DEF EgressTyped, ClientStates, Upstreams
  <2>3. tunnelCount' = Cardinality(Counted)' /\ tunnelCount' <= MaxTunnels
    BY <2>1, CountKept DEF EgressTyped, Egress!Live
  <2> QED
    BY <2>1, <2>2, <2>3, OneSocket
    DEF SocketFits, EgressTyped, Egress!UpstreamLive, Egress!Live, Egress!TunnelsArePinned
<1>7. ASSUME NEW c \in Browsers, Egress!Dial(c)
      PROVE  EgressInv'
  <2> USE <1>7 DEF Egress!Dial, Egress!ProxyKept, Egress!CountKept
  <2>1. PICK a \in found[c] :
           upstream' = [upstream EXCEPT ![c] = [state |-> "dialling", address |-> a]]
    OBVIOUS
  <2>2. found[c] \in SUBSET Addresses
    <3>1. found[c] \in (SUBSET Addresses) \cup {Egress!Failure, Egress!Unasked}
      BY DEF EgressTyped
    <3>2. found[c] # Egress!Unasked /\ found[c] # Egress!Failure
      BY DEF Egress!CheckDestination
    <3> QED
      BY <3>1, <3>2, Zenon
  <2>3. EgressTyped'
    BY <2>1, <2>2 DEF EgressTyped, ClientStates, Upstreams
  <2>4. tunnelCount' = Cardinality(Counted)' /\ tunnelCount' <= MaxTunnels
    BY CountKept
  <2>5. /\ ask'[c] \in Listed /\ upstream'[c].address \in found'[c]
        /\ \A b \in found'[c] : Egress!IsPublicAddress(b)
    BY <2>1 DEF EgressTyped, Egress!CheckDestination, Egress!OriginAllowed
  <2>6. SocketFits(c)'
    BY <2>1 DEF SocketFits, EgressTyped, Egress!UpstreamLive, Egress!Live
  <2> QED
    BY <2>1, <2>3, <2>4, <2>5, <2>6, OneSocket DEF EgressTyped
<1>8. ASSUME NEW c \in Browsers, Egress!UpstreamConnects(c) \/ Egress!UpstreamStops(c)
      PROVE  EgressInv'
  <2>1. /\ Egress!UpstreamLive(c)
        /\ upstream' = [upstream EXCEPT ![c].state = upstream'[c].state]
        /\ upstream'[c].state \in {"joined", "destroyed"}
        /\ client' = [client EXCEPT ![c] = client'[c]]
        /\ \/ client'[c] = client[c]
           \/ Egress!Live(c) /\ client'[c] \in {"open", "ended", "destroyed"}
        /\ UNCHANGED <<ask, found, admitted, tunnelCount, resolver, listening>>
    <3> USE DEF Egress!Destroyed, Egress!Ended, Egress!UpstreamLive, Egress!Live, EgressTyped,
                Upstreams, Egress!ProxyKept, Egress!CountKept
    <3>1. CASE Egress!UpstreamConnects(c)
      BY <3>1 DEF Egress!UpstreamConnects
    <3>2. CASE Egress!UpstreamStops(c)
      BY <3>2 DEF Egress!UpstreamStops
    <3> QED
      BY <1>8, <3>1, <3>2
  <2>2. /\ upstream' \in [Browsers -> Upstreams]
        /\ upstream'[c].address = upstream[c].address
    BY <2>1 DEF EgressTyped, ClientStates, Upstreams
  <2>3. EgressTyped'
    BY <2>1, <2>2 DEF EgressTyped, ClientStates, Egress!Live
  <2>4. tunnelCount' = Cardinality(Counted)' /\ tunnelCount' <= MaxTunnels
    BY <2>1, CountKept DEF EgressTyped, Egress!Live
  <2> QED
    BY <2>1, <2>2, <2>3, <2>4, OneSocket
    DEF SocketFits, EgressTyped, Egress!UpstreamLive, Egress!Live, Egress!TunnelsArePinned
<1>9. ASSUME Egress!CloseProxy
      PROVE  EgressInv'
  <2> USE <1>9 DEF Egress!CloseProxy, Egress!Destroyed, Egress!CountKept
  <2>1. \A c \in Browsers :
           /\ client'[c] = IF Egress!Live(c) THEN "destroyed" ELSE client[c]
           /\ upstream'[c] = IF Egress!UpstreamLive(c)
                             THEN [upstream[c] EXCEPT !.state = "destroyed"] ELSE upstream[c]
    BY DEF EgressTyped, ClientStates, Upstreams
  <2>2. \A c \in Browsers : ~Egress!Live(c)' /\ ~Egress!UpstreamLive(c)'
    BY <2>1 DEF Egress!Live, Egress!UpstreamLive, EgressTyped, Upstreams
  <2>3. EgressTyped'
    <3>1. upstream' \in [Browsers -> Upstreams]
      BY <2>1 DEF EgressTyped, ClientStates, Upstreams
    <3>2. client' \in [Browsers -> ClientStates]
      BY DEF EgressTyped, ClientStates, Upstreams
    <3> QED
      BY <3>1, <3>2 DEF EgressTyped
  <2>4. tunnelCount' = Cardinality(Counted)' /\ tunnelCount' <= MaxTunnels
    BY <2>1, CountKept DEF Egress!Live
  <2>5. \A c \in Browsers : SocketFits(c)'
    BY <2>1, <2>2 DEF SocketFits, Egress!Live, Egress!UpstreamLive
  <2> QED
    BY <2>2, <2>3, <2>4, <2>5 DEF Egress!TunnelsArePinned
<1> QED
  BY <1>1, <1>2, <1>3, <1>4, <1>5, <1>6, <1>7, <1>8, <1>9 DEF Egress!Next

(* The cardinality that EgressProxy means is the one that is meant here.   *)
LEMMA EgressCardinality == \A S : Egress!Cardinality(S) = Cardinality(S)
BY DEF Egress!Cardinality, Cardinality, Egress!IsFiniteSet, IsFiniteSet

(* The invariant says what is promised of the tunnels: who is counted is   *)
(* admitted and not closed, and what lives has a client and a proxy.       *)
LEMMA EgressPromise == EgressInv => Egress!EgressKept
<1> SUFFICES ASSUME EgressInv
             PROVE  Egress!TunnelsArePinned /\ Egress!NoOrphanTunnel
  BY DEF Egress!EgressKept
<1>1. \A c \in Browsers : Egress!UpstreamLive(c) => listening /\ client[c] # "closed"
  BY DEF EgressInv, SocketFits
<1>2. tunnelCount = Egress!Cardinality({c \in admitted : client[c] # "closed"})
  BY EgressCardinality DEF EgressInv, Counted
<1> QED
  BY <1>1, <1>2 DEF EgressInv, Egress!NoOrphanTunnel

(* A step of another subject leaves the proxy alone. *)
LEMMA EgressStutters == EgressInv /\ UNCHANGED egressVars => EgressInv'
BY DEF EgressInv, egressVars, SocketFits, Counted, EgressTyped, Egress!TunnelsArePinned,
       Egress!UpstreamLive, Egress!Live, Egress!IsPublicAddress

(* In every behaviour of the job's parts a tunnel goes to an address that  *)
(* its own lookup answered and judged, and outlives neither its client nor *)
(* the proxy, and the count is exact (egress-proxy.js).                    *)
THEOREM EgressTheorem == LabSpec => []EgressKept
<1> DEFINE Inv == subject = "egress" => EgressInv
<1>1. LabInit => Inv
  BY EgressStart DEF LabInit
<1>2. Inv /\ [LabNext /\ UNCHANGED subject]_<<subject, labVars>> => Inv'
  BY EgressNext, EgressStutters DEF LabNext, labVars
<1>3. Inv => EgressKept
  BY EgressPromise DEF EgressKept
<1> QED
  BY <1>1, <1>2, <1>3, PTL DEF LabSpec

-----------------------------------------------------------------------------
(* The guarded engine.                                                     *)

Kinds    == {"route", "preflight", "judge"}
Tiers    == {"high", "mid", "low", "static-fallback"}
Outcomes == {"pass", "degraded", "inconclusive", "fail"}
FanOuts  == [FanOut -> 0..1]

AnswerRecord == [tier : Tiers \cup {"none"}, path : {"static-safe", "camera-xr", "interactive-2d", "none"},
                 outcome : Outcomes \cup {"none"}, fanOut : FanOuts]

(* An answer to a question has what the question asks for.                 *)
Answers(kind, answer) ==
    /\ kind \in {"route", "preflight"} => answer.tier \in Tiers
    /\ kind = "judge" => answer.outcome \in Outcomes

RequestRecord == [state : {"none", "waiting", "answered"}, kind : Kinds, cap : Capabilities,
                  safe : AnswerRecord, served : AnswerRecord, overridden : BOOLEAN,
                  heard : {"nothing", "failure", "weightless", "answer"}]

(* What the rules answer can be rendered, on the path that the device      *)
(* decides, and nothing is heard before an answer.                         *)
SafeIsSafe(q) ==
    /\ q.state # "answered" => q.heard = "nothing"
    /\ q.state # "none" =>
           /\ Answers(q.kind, q.safe)
           /\ q.kind = "route" => /\ Engines!tierRenderable(q.cap, q.safe.tier)
                                  /\ q.safe.path = Engines!resolvePath(q.cap, q.safe.tier)

ServedFailsClosed(q) ==
    q.state = "answered" =>
        /\ q.kind = "route" => /\ Engines!tierRenderable(q.cap, q.served.tier)
                               /\ q.served.path = Engines!resolvePath(q.cap, q.served.tier)
        /\ q.kind = "preflight" =>
               Engines!Rank(q.kind, q.served.tier) >= Engines!Rank(q.kind, q.safe.tier)
        /\ q.kind = "judge" =>
               /\ Engines!Rank(q.kind, q.served.outcome) >= Engines!Rank(q.kind, q.safe.outcome)
               /\ q.overridden => \A k \in FanOut : q.served.fanOut[k] >= q.safe.fanOut[k]
        /\ q.heard = "failure" => q.overridden
        /\ q.heard = "weightless" /\ Engines!Floor(q.kind) > 25 => q.overridden
        /\ q.overridden => [q.served EXCEPT !.fanOut = Engines!Nothing]
                               = [q.safe EXCEPT !.fanOut = Engines!Nothing]

Routing == {r \in Requests : request[r].state = "waiting" /\ request[r].kind = "route"}

StatsTyped ==
    stats \in [total : Nat, trusted : Nat, lowConfidence : Nat, infeasible : Nat, error : Nat]

DecisionInv ==
    /\ request \in [Requests -> RequestRecord]
    /\ StatsTyped
    /\ \A r \in Requests : SafeIsSafe(request[r]) /\ ServedFailsClosed(request[r])
    /\ mode = "rules" => Routing = {}
    /\ stats.total = stats.trusted + stats.lowConfidence + stats.infeasible + stats.error
                         + Cardinality(Routing)

(* An allowed option has a rank, from 1 for the best to 4. *)
LEMMA RankType ==
  /\ \A t \in Tiers, kind \in {"route", "preflight"} : Engines!Rank(kind, t) \in 1..4
  /\ \A o \in Outcomes : Engines!Rank("judge", o) \in 1..4
<1> USE DEF Engines!Options, Engines!TierOptions, Engines!OutcomeOptions
<1>1. ASSUME NEW t \in Tiers, NEW kind \in {"route", "preflight"}
      PROVE  Engines!Rank(kind, t) \in 1..4
  <2>1. \E i \in 1..4 : Engines!Options(kind)[i] = t
    BY DEF Tiers
  <2> QED
    BY <2>1, Zenon DEF Engines!Rank
<1>2. ASSUME NEW o \in Outcomes
      PROVE  Engines!Rank("judge", o) \in 1..4
  <2>1. \E i \in 1..4 : Engines!Options("judge")[i] = o
    BY DEF Outcomes
  <2> QED
    BY <2>1, Zenon DEF Engines!Rank
<1> QED
  BY <1>1, <1>2

(* The heaviest of four weights is one of them. *)
LEMMA HeaviestType == \A w \in [1..4 -> Nat] : Engines!Heaviest(w) \in 1..4
<1> TAKE w \in [1..4 -> Nat]
<1> DEFINE S == {i \in 1..4 : \A j \in 1..4 : w[i] >= w[j]}
<1>1. w[1] \in Nat /\ w[2] \in Nat /\ w[3] \in Nat /\ w[4] \in Nat
  OBVIOUS
<1>2. \E x \in S : \A y \in S : x <= y
  BY <1>1
<1>3. Engines!Min(S) \in S
  BY <1>2, Zenon DEF Engines!Min
<1> QED
  BY <1>3 DEF Engines!Heaviest

(* What the options of a question are, as a set. *)
LEMMA OptionSets ==
  /\ Engines!ToSet(Engines!TierOptions) = Tiers
  /\ Engines!ToSet(Engines!OutcomeOptions) = Outcomes
  /\ \A i \in 1..4 : Engines!TierOptions[i] \in Tiers /\ Engines!OutcomeOptions[i] \in Outcomes
<1>1. DOMAIN Engines!TierOptions = 1..4 /\ DOMAIN Engines!OutcomeOptions = 1..4
  BY DEF Engines!TierOptions, Engines!OutcomeOptions
<1>2. \A i \in 1..4 : Engines!TierOptions[i] \in Tiers /\ Engines!OutcomeOptions[i] \in Outcomes
  BY DEF Engines!TierOptions, Engines!OutcomeOptions, Tiers, Outcomes
<1>3. \A t \in Tiers : \E i \in 1..4 : Engines!TierOptions[i] = t
  BY DEF Engines!TierOptions, Tiers
<1>4. \A o \in Outcomes : \E i \in 1..4 : Engines!OutcomeOptions[i] = o
  BY DEF Engines!OutcomeOptions, Outcomes
<1> QED
  BY <1>1, <1>2, <1>3, <1>4 DEF Engines!ToSet

(* The paths by priority. *)
LEMMA PathType ==
  \A cap, t : Engines!resolvePath(cap, t) \in {"static-safe", "camera-xr", "interactive-2d"}
BY DEF Engines!resolvePath

(* An empty fan-out is one. *)
LEMMA NothingType == Engines!Nothing \in FanOuts
BY DEF Engines!Nothing, FanOuts

(* What the rules answer is safe. *)
LEMMA RulesAreSafe ==
  ASSUME NEW kind \in Kinds, NEW cap, NEW safe \in Engines!RuleAnswers(kind, cap)
  PROVE  /\ safe \in AnswerRecord /\ Answers(kind, safe)
         /\ kind = "route" => /\ Engines!tierRenderable(cap, safe.tier)
                              /\ safe.path = Engines!resolvePath(cap, safe.tier)
<1> USE DEF Engines!RuleAnswers, Engines!Answer, AnswerRecord, Answers
<1>1. CASE kind = "route"
  <2>1. PICK t \in Engines!RuleTiers(cap) :
           safe = Engines!Answer(t, Engines!resolvePath(cap, t), "none", Engines!Nothing)
    BY <1>1
  <2>2. t \in Tiers /\ Engines!tierRenderable(cap, t)
    BY DEF Engines!RuleTiers, Engines!tierRenderable, Tiers
  <2> QED
    BY <1>1, <2>1, <2>2, PathType, NothingType
<1>2. CASE kind = "preflight"
  <2>1. PICK t \in Tiers : safe = Engines!Answer(t, "none", "none", Engines!Nothing)
    BY <1>2, OptionSets
  <2> QED
    BY <1>2, <2>1, NothingType
<1>3. CASE kind = "judge"
  <2>1. PICK o \in Outcomes, f \in FanOuts : safe = Engines!Answer("none", "none", o, f)
    BY <1>3, OptionSets DEF FanOuts
  <2> QED
    BY <1>3, <2>1
<1> QED
  BY <1>1, <1>2, <1>3 DEF Kinds

(* What is read of a response answers the question, on the path that the   *)
(* device decides.                                                         *)
LEMMA ReadAnswers ==
  ASSUME NEW kind \in Kinds, NEW cap, NEW res \in Engines!Responses(kind)
  PROVE  /\ Engines!Read(kind, cap, res) \in AnswerRecord
         /\ Answers(kind, Engines!Read(kind, cap, res))
         /\ kind = "route" => Engines!Read(kind, cap, res).path
                                  = Engines!resolvePath(cap, Engines!Read(kind, cap, res).tier)
<1> DEFINE value == Engines!readChoice(kind, res)
<1>1. /\ res.choice \in Engines!ToSet(Engines!Options(kind)) \cup {"unlisted"}
      /\ res.weights \in Weights
      /\ res.fanOut \in FanOuts
  <2>1. res.fanOut \in IF kind = "judge" THEN FanOuts ELSE {Engines!Nothing}
    BY DEF Engines!Responses, FanOuts
  <2> QED
    BY <2>1, NothingType DEF Engines!Responses
<1>2. Engines!Heaviest(res.weights) \in 1..4
  BY <1>1, HeaviestType, DecisionAssumption
<1>3. value \in IF kind = "judge" THEN Outcomes ELSE Tiers
  BY <1>1, <1>2, OptionSets, Zenon DEF Engines!readChoice, Engines!Options
<1> HIDE DEF value
<1>4. Engines!Read(kind, cap, res) =
        CASE kind = "route"     -> Engines!Answer(value, Engines!resolvePath(cap, value), "none", Engines!Nothing)
          [] kind = "preflight" -> Engines!Answer(value, "none", "none", Engines!Nothing)
          [] kind = "judge"     -> Engines!Answer("none", "none", value, res.fanOut)
  BY DEF value, Engines!Read
<1> USE DEF Engines!Answer, AnswerRecord, Answers
<1>5. CASE kind = "route"
  BY <1>3, <1>4, <1>5, PathType, NothingType
<1>6. CASE kind = "preflight"
  BY <1>3, <1>4, <1>6, NothingType
<1>7. CASE kind = "judge"
  BY <1>1, <1>3, <1>4, <1>7
<1> QED
  BY <1>5, <1>6, <1>7 DEF Kinds

(* A response without any weight is no surer than one answer in four, and  *)
(* never sure enough for a floor above that.                               *)
LEMMA WeightlessIsUnsure ==
  ASSUME NEW kind \in Kinds, NEW res \in Engines!Responses(kind),
         Engines!Total(res.weights) = 0, Engines!Floor(kind) > 25
  PROVE  Engines!ConfidenceOf(res) < Engines!Floor(kind)
<1>1. res.nouls \in {0, 100}
  BY DEF Engines!Responses
<1>2. Engines!Confidence(res.weights) = 25
  BY DEF Engines!Confidence
<1> DEFINE S == {25, res.nouls}
<1>3. \E x \in S : \A y \in S : x <= y
  BY <1>1
<1>4. Engines!Min(S) \in S /\ \A y \in S : Engines!Min(S) <= y
  BY <1>3, Zenon DEF Engines!Min
<1>7. Engines!ConfidenceOf(res) = Engines!Min(S)
  BY <1>2 DEF Engines!ConfidenceOf
<1>5. Engines!ConfidenceOf(res) \in {0, 25, 100} /\ Engines!ConfidenceOf(res) <= 25
  BY <1>1, <1>4, <1>7
<1>6. Engines!Floor(kind) \in Nat
  BY DecisionAssumption DEF Engines!Floor
<1> QED
  BY <1>5, <1>6

(* No request has been put to the engine. *)
LEMMA DecisionStart == Engines!Init => DecisionInv
<1> SUFFICES ASSUME Engines!Init
             PROVE  DecisionInv
  OBVIOUS
<1>1. Engines!NoAnswer \in AnswerRecord
  BY NothingType DEF Engines!NoAnswer, Engines!Answer, AnswerRecord
<1>2. \A r \in Requests :
        /\ request[r] \in [state : {"none"}, kind : UNION {KindsOf[d] : d \in Requests},
                           cap : Capabilities, safe : {Engines!NoAnswer}, served : {Engines!NoAnswer},
                           overridden : {FALSE}, heard : {"nothing"}]
        /\ request[r].kind \in KindsOf[r]
  BY DEF Engines!Init
<1>3. \A r \in Requests : /\ request[r] \in RequestRecord
                            /\ request[r].state = "none" /\ request[r].heard = "nothing"
  <2> TAKE r \in Requests
  <2>1. request[r].kind \in Kinds
    BY <1>2, DecisionAssumption DEF Kinds
  <2> QED
    BY <1>1, <1>2, <2>1 DEF RequestRecord
<1>4. request \in [Requests -> RequestRecord]
  BY <1>3 DEF Engines!Init
<1>5. Routing = {} /\ Cardinality(Routing) = 0
  BY <1>3, FS_EmptySet DEF Routing
<1>6. StatsTyped /\ stats.total = 0 /\ stats.trusted = 0 /\ stats.lowConfidence = 0
      /\ stats.infeasible = 0 /\ stats.error = 0
  BY DEF Engines!Init, StatsTyped
<1> QED
  BY <1>3, <1>4, <1>5, <1>6 DEF DecisionInv, SafeIsSafe, ServedFailsClosed

(* Requests that wait are finitely many. *)
LEMMA RoutingIsFinite ==
  IsFiniteSet(Routing) /\ Cardinality(Routing) \in Nat
<1>1. Routing \subseteq Requests
  BY DEF Routing
<1> QED
  BY <1>1, DecisionAssumption, FS_Subset, FS_CardinalityType

(* A request is put: one more waits, and is counted when it is routed. *)
LEMMA AskKeeps ==
  ASSUME DecisionInv, NEW r \in Requests, Engines!Ask(r)
  PROVE  DecisionInv'
<1> USE DEF DecisionInv
<1>1. request[r] \in RequestRecord /\ request[r].state = "none" /\ request[r].kind \in Kinds
  BY DEF Engines!Ask, RequestRecord
<1>2. PICK safe \in Engines!RuleAnswers(request[r].kind, request[r].cap) :
         request' = [request EXCEPT ![r].safe = safe,
                        ![r].state = IF mode = "rules" THEN "answered" ELSE "waiting",
                        ![r].served = IF mode = "rules" THEN safe ELSE Engines!NoAnswer]
  BY DEF Engines!Ask
<1>3. /\ safe \in AnswerRecord /\ Answers(request[r].kind, safe)
      /\ request[r].kind = "route" =>
            /\ Engines!tierRenderable(request[r].cap, safe.tier)
            /\ safe.path = Engines!resolvePath(request[r].cap, safe.tier)
  BY <1>1, RulesAreSafe
<1>4. Engines!NoAnswer \in AnswerRecord
  BY NothingType DEF Engines!NoAnswer, Engines!Answer, AnswerRecord
<1> DEFINE q == request'[r]
<1>5. /\ q \in RequestRecord /\ q.safe = safe /\ q.kind = request[r].kind /\ q.cap = request[r].cap
      /\ q.heard = request[r].heard /\ q.overridden = request[r].overridden
      /\ q.state = IF mode = "rules" THEN "answered" ELSE "waiting"
      /\ q.served = IF mode = "rules" THEN safe ELSE Engines!NoAnswer
      /\ \A d \in Requests \ {r} : request'[d] = request[d]
      /\ request' \in [Requests -> RequestRecord]
  BY <1>1, <1>2, <1>3, <1>4 DEF RequestRecord
<1> HIDE DEF q
<1>6. SafeIsSafe(q) /\ ServedFailsClosed(q)
  <2>0. q.heard = "nothing"
    <3>1. SafeIsSafe(request[r])
      OBVIOUS
    <3> QED
      BY <1>1, <1>5, <3>1 DEF SafeIsSafe
  <2>4. /\ Answers(q.kind, q.safe)
        /\ q.kind = "route" => /\ Engines!tierRenderable(q.cap, q.safe.tier)
                               /\ q.safe.path = Engines!resolvePath(q.cap, q.safe.tier)
    BY ONLY <1>3, <1>5
  <2>1. SafeIsSafe(q)
    BY ONLY <2>0, <2>4 DEF SafeIsSafe
  <2>2. CASE q.state = "waiting"
    BY <2>1, <2>2 DEF ServedFailsClosed
  <2>3. CASE q.state = "answered"
    <3>1. q.served = q.safe /\ q.heard = "nothing"
      BY <1>5, <2>0, <2>3
    <3>2. q.kind = "preflight" => Engines!Rank(q.kind, q.safe.tier) \in 1..4
      BY <2>4, RankType DEF Answers
    <3>3. q.kind = "judge" => Engines!Rank(q.kind, q.safe.outcome) \in 1..4
      BY <2>4, RankType DEF Answers
    <3>4. \A k \in FanOut : q.safe.fanOut[k] \in 0..1
      BY <1>5 DEF RequestRecord, AnswerRecord, FanOuts
    <3> QED
      BY ONLY <2>1, <2>4, <3>1, <3>2, <3>3, <3>4 DEF ServedFailsClosed
  <2> QED
    BY <1>5, <2>1, <2>2, <2>3
<1>7. \A d \in Requests : SafeIsSafe(request'[d]) /\ ServedFailsClosed(request'[d])
  BY <1>5, <1>6 DEF q
<1>8. CASE mode # "rules" /\ request[r].kind = "route"
  <2>1. r \notin Routing /\ Routing' = Routing \cup {r}
    BY <1>1, <1>5, <1>8 DEF Routing, q
  <2>2. Cardinality(Routing') = Cardinality(Routing) + 1
    BY <2>1, RoutingIsFinite, FS_AddElement
  <2>3. stats' = [stats EXCEPT !.total = stats.total + 1]
    BY <1>8 DEF Engines!Ask
  <2>4. /\ StatsTyped'
        /\ stats'.total = stats.total + 1 /\ stats'.trusted = stats.trusted
        /\ stats'.lowConfidence = stats.lowConfidence
        /\ stats'.infeasible = stats.infeasible /\ stats'.error = stats.error
    BY <2>3 DEF StatsTyped
  <2>5. /\ stats.total \in Nat /\ stats.trusted \in Nat /\ stats.lowConfidence \in Nat
        /\ stats.infeasible \in Nat /\ stats.error \in Nat
    BY DEF StatsTyped
  <2>6. mode' = mode
    BY DEF Engines!Ask
  <2> QED
    BY <1>5, <1>7, <1>8, <2>2, <2>4, <2>5, <2>6, RoutingIsFinite
<1>9. CASE mode = "rules" \/ request[r].kind # "route"
  <2>1. Routing' = Routing
    BY <1>1, <1>5, <1>9 DEF Routing, q
  <2>2. stats' = stats /\ mode' = mode
    BY <1>9 DEF Engines!Ask
  <2> QED
    BY <1>5, <1>7, <2>1, <2>2 DEF StatsTyped
<1> QED
  BY <1>8, <1>9

(* A request that waited is served, and counted for one reason when it was *)
(* routed.                                                                 *)
LEMMA ServeKeeps ==
  ASSUME DecisionInv, NEW r \in Requests, request[r].state = "waiting",
         NEW answer \in AnswerRecord, NEW overridden \in BOOLEAN,
         NEW heard \in {"failure", "weightless", "answer"},
         NEW what \in {"trusted", "lowConfidence", "infeasible", "error"},
         Engines!Serve(r, answer, overridden, heard), Engines!Counted(r, what), mode' = mode,
         ServedFailsClosed([request[r] EXCEPT !.state = "answered", !.served = answer,
                                              !.overridden = overridden, !.heard = heard])
  PROVE  DecisionInv'
<1> USE DEF DecisionInv
<1> DEFINE q == [request[r] EXCEPT !.state = "answered", !.served = answer,
                                   !.overridden = overridden, !.heard = heard]
<1>1. request' = [request EXCEPT ![r] = q]
  BY DEF Engines!Serve
<1>2. /\ q \in RequestRecord /\ q.state = "answered" /\ q.kind = request[r].kind
      /\ q.safe = request[r].safe /\ q.cap = request[r].cap
  BY DEF RequestRecord
<1>3. ServedFailsClosed(q)
  OBVIOUS
<1> HIDE DEF q
<1>4. /\ request' \in [Requests -> RequestRecord] /\ request'[r] = q
      /\ \A d \in Requests \ {r} : request'[d] = request[d]
  BY <1>1, <1>2
<1>5. SafeIsSafe(q)
  BY <1>2 DEF SafeIsSafe
<1>6. \A d \in Requests : SafeIsSafe(request'[d]) /\ ServedFailsClosed(request'[d])
  BY <1>3, <1>4, <1>5
<1>7. /\ stats.total \in Nat /\ stats.trusted \in Nat /\ stats.lowConfidence \in Nat
      /\ stats.infeasible \in Nat /\ stats.error \in Nat
  BY DEF StatsTyped
<1>8. CASE request[r].kind = "route"
  <2>1. r \in Routing /\ Routing' = Routing \ {r}
    BY <1>2, <1>4, <1>8 DEF Routing
  <2>2. Cardinality(Routing') = Cardinality(Routing) - 1 /\ Cardinality(Routing) \in Nat
    BY <2>1, RoutingIsFinite, FS_RemoveElement
  <2>3. stats' = [stats EXCEPT ![what] = stats[what] + 1]
    BY <1>8 DEF Engines!Counted
  <2>4. StatsTyped'
    BY <2>3 DEF StatsTyped
  <2>5. stats'.total = stats'.trusted + stats'.lowConfidence + stats'.infeasible + stats'.error
                           + Cardinality(Routing')
    <3>1. CASE what = "trusted"
      <4>1. /\ stats'.total = stats.total /\ stats'.trusted = stats.trusted + 1
            /\ stats'.lowConfidence = stats.lowConfidence
            /\ stats'.infeasible = stats.infeasible /\ stats'.error = stats.error
        BY <2>3, <3>1 DEF StatsTyped
      <4> QED
        BY <1>7, <2>2, <4>1
    <3>2. CASE what = "lowConfidence"
      <4>1. /\ stats'.total = stats.total /\ stats'.trusted = stats.trusted
            /\ stats'.lowConfidence = stats.lowConfidence + 1
            /\ stats'.infeasible = stats.infeasible /\ stats'.error = stats.error
        BY <2>3, <3>2 DEF StatsTyped
      <4> QED
        BY <1>7, <2>2, <4>1
    <3>3. CASE what = "infeasible"
      <4>1. /\ stats'.total = stats.total /\ stats'.trusted = stats.trusted
            /\ stats'.lowConfidence = stats.lowConfidence
            /\ stats'.infeasible = stats.infeasible + 1 /\ stats'.error = stats.error
        BY <2>3, <3>3 DEF StatsTyped
      <4> QED
        BY <1>7, <2>2, <4>1
    <3>4. CASE what = "error"
      <4>1. /\ stats'.total = stats.total /\ stats'.trusted = stats.trusted
            /\ stats'.lowConfidence = stats.lowConfidence
            /\ stats'.infeasible = stats.infeasible /\ stats'.error = stats.error + 1
        BY <2>3, <3>4 DEF StatsTyped
      <4> QED
        BY <1>7, <2>2, <4>1
    <3> QED
      BY <3>1, <3>2, <3>3, <3>4
  <2>6. mode' = "rules" => Routing' = {}
    BY <2>1
  <2> QED
    BY <1>4, <1>6, <2>4, <2>5, <2>6
<1>9. CASE request[r].kind # "route"
  <2>1. Routing' = Routing
    BY <1>2, <1>4, <1>9 DEF Routing
  <2>2. stats' = stats
    BY <1>9 DEF Engines!Counted
  <2> QED
    BY <1>4, <1>6, <2>1, <2>2 DEF StatsTyped
<1> QED
  BY <1>8, <1>9

(* The answer of the rules is served in place of the model's, or the       *)
(* worse of both for a verdict; what is served fails closed.               *)
LEMMA SafeFailsClosed ==
  ASSUME DecisionInv, NEW r \in Requests, request[r].state = "waiting",
         NEW fanOut \in FanOuts, NEW heard \in {"failure", "weightless", "answer"},
         \A k \in FanOut : fanOut[k] >= request[r].safe.fanOut[k]
  PROVE  /\ [request[r].safe EXCEPT !.fanOut = fanOut] \in AnswerRecord
         /\ ServedFailsClosed([request[r] EXCEPT !.state = "answered",
                !.served = [request[r].safe EXCEPT !.fanOut = fanOut],
                !.overridden = TRUE, !.heard = heard])
<1> DEFINE answer == [request[r].safe EXCEPT !.fanOut = fanOut]
           q == [request[r] EXCEPT !.state = "answered", !.served = answer,
                                   !.overridden = TRUE, !.heard = heard]
<1>1. request[r] \in RequestRecord /\ request[r].safe \in AnswerRecord
  BY DEF DecisionInv, RequestRecord
<1>2. /\ answer \in AnswerRecord /\ answer.tier = request[r].safe.tier
      /\ answer.path = request[r].safe.path /\ answer.outcome = request[r].safe.outcome
      /\ answer.fanOut = fanOut
      /\ [answer EXCEPT !.fanOut = Engines!Nothing] = [request[r].safe EXCEPT !.fanOut = Engines!Nothing]
  BY <1>1 DEF AnswerRecord
<1> HIDE DEF answer
<1>3. /\ q.kind = request[r].kind /\ q.cap = request[r].cap /\ q.safe = request[r].safe
      /\ q.served = answer /\ q.overridden = TRUE
  BY <1>1 DEF RequestRecord
<1> HIDE DEF q
<1>4. Answers(q.kind, q.safe) /\ SafeIsSafe(request[r])
  BY <1>3 DEF DecisionInv, SafeIsSafe
<1>5. q.kind = "preflight" => Engines!Rank(q.kind, q.safe.tier) \in 1..4
  BY <1>4, RankType DEF Answers
<1>6. q.kind = "judge" => Engines!Rank(q.kind, q.safe.outcome) \in 1..4
  BY <1>4, RankType DEF Answers
<1>7. ServedFailsClosed(q)
  BY <1>2, <1>3, <1>4, <1>5, <1>6 DEF ServedFailsClosed, SafeIsSafe
<1> QED
  BY <1>2, <1>7 DEF answer, q

(* The answer of the rules alone is served. *)
LEMMA RulesServed ==
  ASSUME DecisionInv, NEW r \in Requests, request[r].state = "waiting",
         NEW heard \in {"failure", "weightless", "answer"}
  PROVE  /\ request[r].safe \in AnswerRecord
         /\ ServedFailsClosed([request[r] EXCEPT !.state = "answered", !.served = request[r].safe,
                                                 !.overridden = TRUE, !.heard = heard])
<1> DEFINE safe == request[r].safe
<1>1. safe \in AnswerRecord
  BY DEF DecisionInv, RequestRecord
<1>2. /\ safe.fanOut \in FanOuts /\ [safe EXCEPT !.fanOut = safe.fanOut] = safe
      /\ \A k \in FanOut : safe.fanOut[k] \in 0..1 /\ safe.fanOut[k] >= safe.fanOut[k]
  BY <1>1 DEF AnswerRecord, FanOuts
<1> QED
  BY <1>1, <1>2, SafeFailsClosed

(* The model does not answer: the rules do. *)
LEMMA FailureKeeps ==
  ASSUME DecisionInv, NEW r \in Requests, Engines!PrimaryFails(r)
  PROVE  DecisionInv'
<1>1. /\ request[r].state = "waiting" /\ mode' = mode
      /\ Engines!Serve(r, request[r].safe, TRUE, "failure") /\ Engines!Counted(r, "error")
  BY DEF Engines!PrimaryFails
<1> QED
  BY <1>1, RulesServed, ServeKeeps

(* The worse of two fan-outs is one, and no better than either. *)
LEMMA MergeTightens ==
  ASSUME NEW safe \in AnswerRecord, NEW primary \in AnswerRecord
  PROVE  \E f \in FanOuts : /\ Engines!MergeTightening(safe, primary) = [safe EXCEPT !.fanOut = f]
                            /\ \A k \in FanOut : f[k] >= safe.fanOut[k] /\ f[k] >= primary.fanOut[k]
<1> DEFINE f == [k \in FanOut |-> Engines!Max({safe.fanOut[k], primary.fanOut[k]})]
<1>1. ASSUME NEW k \in FanOut
      PROVE  /\ f[k] \in 0..1
             /\ f[k] >= safe.fanOut[k] /\ f[k] >= primary.fanOut[k]
  <2> DEFINE S == {safe.fanOut[k], primary.fanOut[k]}
  <2>1. S \subseteq 0..1
    BY DEF AnswerRecord, FanOuts
  <2>2. \E x \in S : \A y \in S : x >= y
    BY <2>1
  <2>3. Engines!Max(S) \in S /\ \A y \in S : Engines!Max(S) >= y
    BY <2>2, Zenon DEF Engines!Max
  <2> QED
    BY <2>1, <2>3
<1>2. Engines!MergeTightening(safe, primary) = [safe EXCEPT !.fanOut = f]
  BY DEF Engines!MergeTightening
<1>3. f \in FanOuts
  BY <1>1 DEF FanOuts
<1> HIDE DEF f
<1> QED
  BY <1>1, <1>2, <1>3

(* The model answers: what cannot be rendered, is unsure or is looser than *)
(* the rules gives way to them; anything else is served as it is.          *)
LEMMA AnswerKeeps ==
  ASSUME DecisionInv, NEW r \in Requests, Engines!PrimaryAnswers(r)
  PROVE  DecisionInv'
<1> DEFINE kind == request[r].kind
           safe == request[r].safe
<1>1. /\ request[r].state = "waiting" /\ mode' = mode /\ kind \in Kinds
      /\ safe \in AnswerRecord /\ Answers(kind, safe) /\ request[r] \in RequestRecord
  <2>1. SafeIsSafe(request[r]) /\ request[r] \in RequestRecord
    BY DEF DecisionInv
  <2> QED
    BY <2>1 DEF Engines!PrimaryAnswers, SafeIsSafe, RequestRecord
<1>2. PICK res \in Engines!Responses(kind) :
         LET primary == Engines!Read(kind, request[r].cap, res)
             heard   == IF Engines!Total(res.weights) = 0 THEN "weightless" ELSE "answer"
             unsure  == Engines!ConfidenceOf(res) < Engines!Floor(kind)
         IN  \/ /\ Engines!Infeasible(r, primary)
                /\ Engines!Serve(r, safe, TRUE, heard)
                /\ Engines!Counted(r, "infeasible")
             \/ /\ ~Engines!Infeasible(r, primary)
                /\ unsure \/ Engines!Looser(r, primary)
                /\ Engines!Serve(r, IF kind = "judge" THEN Engines!MergeTightening(safe, primary)
                                    ELSE safe, TRUE, heard)
                /\ Engines!Counted(r, "lowConfidence")
             \/ /\ ~Engines!Infeasible(r, primary) /\ ~unsure /\ ~Engines!Looser(r, primary)
                /\ Engines!Serve(r, primary, FALSE, heard)
                /\ Engines!Counted(r, "trusted")
  BY DEF Engines!PrimaryAnswers
<1> DEFINE primary == Engines!Read(kind, request[r].cap, res)
           heard   == IF Engines!Total(res.weights) = 0 THEN "weightless" ELSE "answer"
           unsure  == Engines!ConfidenceOf(res) < Engines!Floor(kind)
<1>3. /\ primary \in AnswerRecord /\ Answers(kind, primary)
      /\ kind = "route" => primary.path = Engines!resolvePath(request[r].cap, primary.tier)
  BY <1>1, ReadAnswers
<1>4. heard \in {"weightless", "answer"} /\ (heard = "weightless" /\ Engines!Floor(kind) > 25 => unsure)
  BY <1>1, WeightlessIsUnsure
<1>5. \/ /\ Engines!Infeasible(r, primary)
         /\ Engines!Serve(r, safe, TRUE, heard)
         /\ Engines!Counted(r, "infeasible")
      \/ /\ ~Engines!Infeasible(r, primary)
         /\ unsure \/ Engines!Looser(r, primary)
         /\ Engines!Serve(r, IF kind = "judge" THEN Engines!MergeTightening(safe, primary)
                             ELSE safe, TRUE, heard)
         /\ Engines!Counted(r, "lowConfidence")
      \/ /\ ~Engines!Infeasible(r, primary) /\ ~unsure /\ ~Engines!Looser(r, primary)
         /\ Engines!Serve(r, primary, FALSE, heard)
         /\ Engines!Counted(r, "trusted")
  BY <1>2
<1> HIDE DEF primary, heard, unsure
<1>6. CASE Engines!Serve(r, safe, TRUE, heard) /\ Engines!Counted(r, "infeasible")
  BY <1>1, <1>4, <1>6, RulesServed, ServeKeeps
<1>7. CASE /\ Engines!Serve(r, IF kind = "judge" THEN Engines!MergeTightening(safe, primary)
                               ELSE safe, TRUE, heard)
           /\ Engines!Counted(r, "lowConfidence")
  <2>1. CASE kind = "judge"
    <3>1. PICK f \in FanOuts : /\ Engines!MergeTightening(safe, primary) = [safe EXCEPT !.fanOut = f]
                               /\ \A k \in FanOut : f[k] >= safe.fanOut[k]
      BY <1>1, <1>3, MergeTightens
    <3>2. Engines!Serve(r, [safe EXCEPT !.fanOut = f], TRUE, heard)
      BY <1>7, <2>1, <3>1
    <3>3. /\ [safe EXCEPT !.fanOut = f] \in AnswerRecord
          /\ ServedFailsClosed([request[r] EXCEPT !.state = "answered",
                !.served = [safe EXCEPT !.fanOut = f], !.overridden = TRUE, !.heard = heard])
      BY <1>1, <1>4, <3>1, SafeFailsClosed
    <3> QED
      BY <1>1, <1>4, <1>7, <3>2, <3>3, ServeKeeps
  <2>2. CASE kind # "judge"
    <3>1. Engines!Serve(r, safe, TRUE, heard)
      BY <1>7, <2>2
    <3> QED
      BY <1>1, <1>4, <1>7, <3>1, RulesServed, ServeKeeps
  <2> QED
    BY <2>1, <2>2
<1>8. CASE /\ ~Engines!Infeasible(r, primary) /\ ~unsure /\ ~Engines!Looser(r, primary)
           /\ Engines!Serve(r, primary, FALSE, heard) /\ Engines!Counted(r, "trusted")
  <2> DEFINE q == [request[r] EXCEPT !.state = "answered", !.served = primary,
                                     !.overridden = FALSE, !.heard = heard]
  <2>1. /\ q.kind = kind /\ q.cap = request[r].cap /\ q.safe = safe /\ q.served = primary
        /\ q.overridden = FALSE /\ q.heard = heard
    BY <1>1 DEF RequestRecord
  <2> HIDE DEF q
  <2>2. heard # "failure" /\ ~(heard = "weightless" /\ Engines!Floor(kind) > 25)
    BY <1>4, <1>8
  <2>3. kind = "route" => Engines!tierRenderable(request[r].cap, primary.tier)
    BY <1>8 DEF Engines!Infeasible
  <2>4. kind = "preflight" => Engines!Rank(kind, primary.tier) >= Engines!Rank(kind, safe.tier)
    <3>1. SUFFICES ASSUME kind = "preflight"
                   PROVE  Engines!Rank(kind, primary.tier) >= Engines!Rank(kind, safe.tier)
      OBVIOUS
    <3>2. /\ Engines!Rank(kind, primary.tier) \in 1..4 /\ Engines!Rank(kind, safe.tier) \in 1..4
      BY <1>1, <1>3, <3>1, RankType DEF Answers
    <3>3. ~(Engines!Rank(kind, primary.tier) < Engines!Rank(kind, safe.tier))
      BY <1>8, <3>1 DEF Engines!Looser
    <3> QED
      BY <3>2, <3>3
  <2>5. kind = "judge" => Engines!Rank(kind, primary.outcome) >= Engines!Rank(kind, safe.outcome)
    <3>1. SUFFICES ASSUME kind = "judge"
                   PROVE  Engines!Rank(kind, primary.outcome) >= Engines!Rank(kind, safe.outcome)
      OBVIOUS
    <3>2. /\ Engines!Rank(kind, primary.outcome) \in 1..4 /\ Engines!Rank(kind, safe.outcome) \in 1..4
      BY <1>1, <1>3, <3>1, RankType DEF Answers
    <3>3. ~(Engines!Rank(kind, primary.outcome) < Engines!Rank(kind, safe.outcome))
      BY <1>8, <3>1 DEF Engines!Looser
    <3> QED
      BY <3>2, <3>3
  <2>6. ServedFailsClosed(q)
    BY <1>3, <2>1, <2>2, <2>3, <2>4, <2>5 DEF ServedFailsClosed
  <2> QED
    BY <1>1, <1>3, <1>4, <1>8, <2>6, ServeKeeps DEF q
<1> QED
  BY <1>5, <1>6, <1>7, <1>8

(* A step of another subject leaves the engine alone. *)
LEMMA DecisionStutters == DecisionInv /\ UNCHANGED decisionVars => DecisionInv'
BY DEF DecisionInv, decisionVars, StatsTyped, Routing

(* Every step keeps the invariant. *)
LEMMA DecisionNext == DecisionInv /\ Engines!Next => DecisionInv'
BY AskKeeps, FailureKeeps, AnswerKeeps DEF Engines!Next

(* The cardinality that Decision means is the one that is meant here.      *)
LEMMA DecisionCardinality == \A S : Engines!Cardinality(S) = Cardinality(S)
BY DEF Engines!Cardinality, Cardinality, Engines!IsFiniteSet, IsFiniteSet

(* The invariant says what is promised of the decisions.                   *)
LEMMA DecisionPromise == DecisionInv => Engines!DecisionsFailClosed
<1> SUFFICES ASSUME DecisionInv
             PROVE  Engines!DecisionsFailClosed
  OBVIOUS
<1>1. \A r \in Requests : ServedFailsClosed(request[r])
  BY DEF DecisionInv
<1>2. stats.total = stats.trusted + stats.lowConfidence + stats.infeasible + stats.error
          + Engines!Cardinality({r \in Requests : request[r].state = "waiting"
                                                   /\ request[r].kind = "route"})
  BY DecisionCardinality DEF DecisionInv, Routing
<1> QED
  BY <1>1, <1>2 DEF Engines!DecisionsFailClosed, ServedFailsClosed

(* In every behaviour of the job's parts a model's answer never loosens a  *)
(* decision, and every routed tier is counted under one reason             *)
(* (guarded.js, jev.js).                                                   *)
THEOREM DecisionTheorem == LabSpec => []DecisionsFailClosed
<1> DEFINE Inv == subject = "decision" => DecisionInv
<1>1. LabInit => Inv
  BY DecisionStart DEF LabInit
<1>2. Inv /\ [LabNext /\ UNCHANGED subject]_<<subject, labVars>> => Inv'
  BY DecisionNext, DecisionStutters DEF LabNext, labVars
<1>3. Inv => DecisionsFailClosed
  BY DecisionPromise DEF DecisionsFailClosed
<1> QED
  BY <1>1, <1>2, <1>3, PTL DEF LabSpec

-----------------------------------------------------------------------------
(* The comfort window and the score.                                       *)

(* What stands at a place of the sorted samples is one of them. *)
LEMMA RankedFits ==
  ASSUME NEW s \in Seq(Nat), NEW k \in 1..Len(s)
  PROVE  Score!Ranked(s, k) \in Nat
<1> DEFINE n == Len(s)
           Below(x) == {i \in 1..n : s[i] <= x}
           R == {x \in Score!ToSet(s) : Score!Cardinality(Below(x)) >= k}
<1>1. n \in Nat \ {0} /\ \A i \in 1..n : s[i] \in Nat
  OBVIOUS
<1>2. PICK m \in 1..n : \A j \in 1..n : s[j] <= s[m]
  BY <1>1, LargestInRow
<1>3. Below(s[m]) = 1..n
  BY <1>2
<1>4. Score!Cardinality(Below(s[m])) = n
  <2>1. 1 \in Int /\ n \in Int /\ n - 1 + 1 = n
    BY <1>1
  <2>2. Cardinality(1..n) = n
    <3> HIDE DEF n
    <3>1. ~(1 > n) /\ Cardinality(1..n) = IF 1 > n THEN 0 ELSE n - 1 + 1
      BY ONLY <1>1, <2>1, FS_Interval
    <3> QED
      BY <2>1, <3>1
  <2> QED
    BY <1>3, <2>2 DEF Score!Cardinality, Cardinality, Score!IsFiniteSet, IsFiniteSet
<1>5. s[m] \in R
  <2>1. s[m] \in Score!ToSet(s)
    BY <1>2 DEF Score!ToSet
  <2>2. n >= k
    BY <1>1
  <2> QED
    BY <1>4, <2>1, <2>2
<1>6. R \subseteq Nat
  BY DEF Score!ToSet
<1>7. Score!Ranked(s, k) = Score!Min(R)
  BY DEF Score!Ranked
<1> HIDE DEF R
<1> QED
  BY <1>5, <1>6, <1>7, LeastFits

(* The places that percentile interpolates between are there. *)
LEMMA PlacesFit ==
  ASSUME NEW n \in Nat, n >= 1
  PROVE  /\ (((n - 1) * 95) \div 100) \in Nat
         /\ (((n - 1) * 95) % 100) \in 0..99
         /\ (((n - 1) * 95) \div 100) + 1 <= n
         /\ ((n - 1) * 95) % 100 # 0 => (((n - 1) * 95) \div 100) + 2 <= n
  BY SMT

(* The percentile of a run that is not empty is a number. *)
LEMMA P95Fits ==
  ASSUME NEW s \in Seq(Nat), Len(s) >= 1
  PROVE  Score!P95(s) \in Nat
<1> DEFINE lo   == ((Len(s) - 1) * 95) \div 100
           frac == ((Len(s) - 1) * 95) % 100
<1>1. Len(s) \in Nat
  OBVIOUS
<1>2. lo \in Nat /\ frac \in 0..99 /\ lo + 1 <= Len(s) /\ (frac # 0 => lo + 2 <= Len(s))
  BY <1>1, PlacesFit
<1>3. Score!P95(s) = Score!Ranked(s, lo + 1) * (100 - frac)
                     + (IF frac = 0 THEN 0 ELSE Score!Ranked(s, lo + 2) * frac)
  BY DEF Score!P95
<1> HIDE DEF lo, frac
<1>4. Score!Ranked(s, lo + 1) \in Nat /\ (frac # 0 => Score!Ranked(s, lo + 2) \in Nat)
  <2>1. lo + 1 \in 1..Len(s) /\ (frac # 0 => lo + 2 \in 1..Len(s))
    BY <1>1, <1>2
  <2> QED
    BY <2>1, RankedFits
<1>5. \A a \in Nat, b \in 0..100 : a * b \in Nat
  BY SMT
<1>6. 100 - frac \in 0..100 /\ frac \in 0..100
  BY <1>2
<1>7. Score!Ranked(s, lo + 1) * (100 - frac) \in Nat
  BY <1>4, <1>5, <1>6
<1>8. frac # 0 => Score!Ranked(s, lo + 2) * frac \in Nat
  BY <1>4, <1>5, <1>6
<1> QED
  BY <1>3, <1>7, <1>8

(* How long the samples from i to j of f are. *)
Long(f, i, j)  == Score!TotalOf(SubSeq(f, i, j))
Lasts(f, i, j) == Long(f, i, j) >= WindowMs
Tight(f, i, j) == /\ i <= j /\ Lasts(f, i, j) /\ (i = j \/ ~Lasts(f, i + 1, j))
                  /\ j - i + 1 >= MinSamples

(* A run is made of its frames, and lasts a number. *)
LEMMA RunFits ==
  ASSUME NEW f \in Seq(Nat), NEW i \in 1..(Len(f) + 1), NEW j \in (i - 1)..Len(f)
  PROVE  LET r == SubSeq(f, i, j)
         IN  /\ r \in Seq(Nat) /\ Len(r) = j - i + 1 /\ Len(r) \in Nat
             /\ \A k \in 1..(j - i + 1) : r[k] = f[i + k - 1] /\ r[k] \in Nat
             /\ Long(f, i, j) \in Nat
<1> DEFINE r == SubSeq(f, i, j)
           n == j - i + 1
<1>1. r \in Seq(Nat) /\ Len(r) = n /\ n \in Nat /\ \A k \in 1..n : r[k] = f[i + k - 1]
  <2>1. Len(f) \in Nat
    OBVIOUS
  <2> QED
    BY <2>1, SubSeqProperties
<1>2. \A k \in 1..n : r[k] \in Nat
  BY <1>1
<1> HIDE DEF n
<1>3. Long(f, i, j) \in Nat
  <2> HIDE DEF r
  <2>1. Score!TotalOf(r) \in Nat
    BY <1>1, <1>2, SumFits
  <2> QED
    BY <2>1 DEF Long, r
<1> QED
  BY <1>1, <1>2, <1>3 DEF n

(* A run is longer by its first sample than without it. *)
LEMMA RunShrinks ==
  ASSUME NEW f \in Seq(Nat), NEW j \in 1..Len(f), NEW i \in 1..j
  PROVE  Long(f, i + 1, j) <= Long(f, i, j)
<1> DEFINE s == SubSeq(f, i, j)
           t == SubSeq(f, i + 1, j)
           n == j - i
<1>0. Len(f) \in Nat /\ n \in Nat /\ i \in 1..(Len(f) + 1) /\ i + 1 \in 1..(Len(f) + 1)
      /\ j \in (i - 1)..Len(f) /\ j \in ((i + 1) - 1)..Len(f)
  OBVIOUS
<1>1. /\ Len(s) = j - i + 1 /\ \A k \in 1..(j - i + 1) : s[k] = f[i + k - 1] /\ s[k] \in Nat
  BY <1>0, RunFits
<1>2. /\ Len(t) = j - (i + 1) + 1
      /\ \A k \in 1..(j - (i + 1) + 1) : t[k] = f[(i + 1) + k - 1] /\ t[k] \in Nat
  BY <1>0, RunFits
<1>3. n + 1 = j - i + 1 /\ n = j - (i + 1) + 1
  BY <1>0
<1>4. Len(s) = n + 1 /\ Len(t) = n /\ \A k \in 1..(n + 1) : s[k] \in Nat
  BY <1>1, <1>2, <1>3
<1>5. ASSUME NEW k \in 1..n
      PROVE  t[k] = s[k + 1]
  <2>1. k \in 1..(j - (i + 1) + 1) /\ k + 1 \in 1..(j - i + 1) /\ (i + 1) + k - 1 = i + (k + 1) - 1
    BY <1>0, <1>3
  <2> QED
    BY <1>1, <1>2, <2>1
<1> HIDE DEF s, t, n
<1>6. Score!TotalOf(s) = s[1] + Score!TotalOf(t) /\ Score!TotalOf(t) \in Nat
  BY <1>0, <1>4, <1>5, SumRest
<1>7. s[1] \in Nat
  BY <1>0, <1>4
<1> QED
  BY <1>6, <1>7 DEF Long, s, t

(* So the later a run begins, the shorter it is. *)
LEMMA RunOrders ==
  ASSUME NEW f \in Seq(Nat), NEW j \in 1..Len(f), NEW i \in 1..j, NEW k \in i..j
  PROVE  Long(f, k, j) <= Long(f, i, j)
<1> DEFINE T == {m \in Nat : i + m <= j => Long(f, i + m, j) <= Long(f, i, j)}
<1>0. Len(f) \in Nat /\ \A x \in 1..j : Long(f, x, j) \in Nat
  <2>1. Len(f) \in Nat /\ \A x \in 1..j : x \in 1..(Len(f) + 1) /\ j \in (x - 1)..Len(f)
    OBVIOUS
  <2> QED
    BY <2>1, RunFits
<1>1. 0 \in T
  BY <1>0
<1>2. ASSUME NEW m \in T
      PROVE  m + 1 \in T
  <2> SUFFICES ASSUME i + (m + 1) <= j
               PROVE  Long(f, i + (m + 1), j) <= Long(f, i, j)
    OBVIOUS
  <2>1. /\ m \in Nat /\ i + m \in 1..j /\ i + (m + 1) \in 1..j /\ (i + m) + 1 = i + (m + 1)
        /\ Long(f, i + m, j) <= Long(f, i, j)
    BY <1>0, <1>2
  <2>2. Long(f, i + (m + 1), j) <= Long(f, i + m, j)
    BY <2>1, RunShrinks
  <2> QED
    BY <1>0, <2>1, <2>2
<1>3. T \subseteq Nat
  OBVIOUS
<1>4. k - i \in T /\ i + (k - i) = k
  <2>0. k - i \in Nat /\ i + (k - i) = k
    BY <1>0
  <2> HIDE DEF T
  <2>1. T = Nat
    BY <1>1, <1>2, <1>3, SetInduction
  <2> QED
    BY <2>0, <2>1
<1> QED
  BY <1>0, <1>4

(* One more frame makes the runs that end with it longer by it, and no     *)
(* other.                                                                  *)
LEMMA RunExtends ==
  ASSUME NEW f \in Seq(Nat), NEW d \in Nat
  PROVE  LET g == Append(f, d)
             n == Len(f)
         IN  /\ \A i \in 1..(n + 1) : Long(g, i, n + 1) = Long(f, i, n) + d
             /\ \A j \in 1..n : \A i \in 1..(j + 1) : SubSeq(g, i, j) = SubSeq(f, i, j)
<1> DEFINE g == Append(f, d)
           n == Len(f)
<1>1. /\ n \in Nat /\ g \in Seq(Nat) /\ Len(g) = n + 1 /\ g[n + 1] = d
      /\ \A i \in 1..n : g[i] = f[i]
  OBVIOUS
<1> HIDE DEF g, n
<1>2. ASSUME NEW i \in 1..(n + 1)
      PROVE  Long(g, i, n + 1) = Long(f, i, n) + d
  <2> DEFINE s == SubSeq(f, i, n)
             t == SubSeq(g, i, n + 1)
             m == n - i + 1
  <2>0. m \in Nat /\ n \in (i - 1)..n /\ i \in 1..((n + 1) + 1) /\ n + 1 \in (i - 1)..(n + 1)
    BY <1>1
  <2>1. Len(s) = n - i + 1 /\ \A k \in 1..(n - i + 1) : s[k] = f[i + k - 1]
    BY <1>1, <2>0, RunFits DEF n
  <2>2. Len(t) = (n + 1) - i + 1 /\ \A k \in 1..((n + 1) - i + 1) : t[k] = g[i + k - 1]
    BY <1>1, <2>0, RunFits
  <2>3. (n + 1) - i + 1 = m + 1 /\ i + (m + 1) - 1 = n + 1 /\ m + 1 \in 1..((n + 1) - i + 1)
    BY <1>1, <2>0
  <2>4. Len(s) = m /\ Len(t) = m + 1 /\ t[m + 1] = d
    BY <1>1, <2>1, <2>2, <2>3
  <2>5. ASSUME NEW k \in 1..m
        PROVE  t[k] = s[k]
    <3>1. k \in 1..((n + 1) - i + 1) /\ k \in 1..(n - i + 1) /\ i + k - 1 \in 1..n
      BY <1>1, <2>0
    <3> QED
      BY <1>1, <2>1, <2>2, <3>1
  <2> HIDE DEF s, t, m
  <2>6. Score!TotalOf(t) = Score!TotalOf(s) + t[m + 1]
    BY <2>0, <2>4, <2>5, SumAppends
  <2> QED
    BY <2>4, <2>6 DEF Long, s, t
<1>3. ASSUME NEW j \in 1..n, NEW i \in 1..(j + 1)
      PROVE  SubSeq(g, i, j) = SubSeq(f, i, j)
  <2> DEFINE s == SubSeq(f, i, j)
             t == SubSeq(g, i, j)
  <2>0. i \in 1..(n + 1) /\ j \in (i - 1)..n /\ i \in 1..((n + 1) + 1) /\ j \in (i - 1)..(n + 1)
    BY <1>1
  <2>1. s \in Seq(Nat) /\ Len(s) = j - i + 1 /\ \A k \in 1..(j - i + 1) : s[k] = f[i + k - 1]
    BY <1>1, <2>0, RunFits DEF n
  <2>2. t \in Seq(Nat) /\ Len(t) = j - i + 1 /\ \A k \in 1..(j - i + 1) : t[k] = g[i + k - 1]
    BY <1>1, <2>0, RunFits
  <2>3. ASSUME NEW k \in 1..(j - i + 1)
        PROVE  t[k] = s[k]
    <3>1. i + k - 1 \in 1..n
      BY <1>1, <2>0
    <3> QED
      BY <1>1, <2>1, <2>2, <3>1
  <2> HIDE DEF s, t
  <2>4. t = s
    BY <2>1, <2>2, <2>3, SeqEqual
  <2> QED
    BY <2>4 DEF s, t
<1> QED
  BY <1>2, <1>3 DEF g, n

(* A grade, or none for want of evidence, and one that is no worse where   *)
(* there is the same evidence.                                             *)
AtMost(x, y) == /\ x \in Nat \cup {NoOne} /\ y \in Nat \cup {NoOne}
                /\ (x = NoOne) = (y = NoOne)
                /\ x # NoOne => x <= y

(* The curve goes down. *)
LEMMA GradeFalls ==
  ASSUME NEW p \in Nat, NEW q \in Nat, p <= q
  PROVE  /\ Score!gradeRatio(p) \in Nat /\ Score!gradeRatio(q) \in Nat
         /\ Score!gradeRatio(q) <= Score!gradeRatio(p)
<1> DEFINE Curve(r, g) == /\ r <= 0 => g = 10000
                          /\ r > 0 /\ r <= 100 => g = 10000 - 20 * r
                          /\ r > 100 /\ r <= 150 => g = 8000 - (r - 100) * 63
                          /\ r > 150 /\ r <= 200 => g = 4850 - (r - 150) * 38
                          /\ r > 200 /\ r <= 300 => g = 2943 - (r - 200) * 18
                          /\ r > 300 /\ r < 500 => g = 1083 - (r - 300) * 5
                          /\ r >= 500 => g = 0
<1>1. \A r \in Nat : Curve(r, Score!gradeRatio(r))
  BY DEF Score!gradeRatio, Score!Endless
<1> HIDE DEF Curve
<1>2. Curve(p, Score!gradeRatio(p)) /\ Curve(q, Score!gradeRatio(q))
  BY <1>1
<1> DEFINE g == Score!gradeRatio(p)
           h == Score!gradeRatio(q)
<1> HIDE DEF g, h
<1>3. Curve(p, g) /\ Curve(q, h)
  BY <1>2 DEF g, h
<1>4. g \in Nat /\ h \in Nat /\ h <= g
  BY ONLY <1>3, p <= q, p \in Nat, q \in Nat, SMTT(60) DEF Curve
<1> QED
  BY <1>4 DEF g, h

(* A mean grows with its grades. *)
LEMMA MeanGrows ==
  ASSUME NEW n \in Nat, NEW g, NEW h, NEW w, DOMAIN g = 1..n, DOMAIN h = 1..n,
         \A i \in 1..n : w[i] \in Nat \ {0} /\ AtMost(g[i], h[i]),
         NEW k \in 1..n, g[k] # NoOne
  PROVE  /\ Score!MeanOf(g, w) \in Nat /\ Score!MeanOf(h, w) \in Nat
         /\ Score!MeanOf(g, w) <= Score!MeanOf(h, w)
<1> DEFINE G == [i \in 1..n |-> IF Score!Measured(g[i]) THEN w[i] * g[i] ELSE 0]
           H == [i \in 1..n |-> IF Score!Measured(h[i]) THEN w[i] * h[i] ELSE 0]
           M == [i \in 1..n |-> IF Score!Measured(g[i]) THEN w[i] ELSE 0]
           N == [i \in 1..n |-> IF Score!Measured(h[i]) THEN w[i] ELSE 0]
<1>1. M = N
  BY DEF AtMost, Score!Measured
<1>2. ASSUME NEW i \in 1..n
      PROVE  G[i] \in Nat /\ H[i] \in Nat /\ M[i] \in Nat /\ G[i] <= H[i] /\ (g[i] # NoOne => M[i] >= 1)
  <2>1. \A x \in Nat, y \in Nat, z \in Nat : x * y \in Nat /\ (y <= z => x * y <= x * z)
    BY SMT
  <2>2. w[i] \in Nat /\ w[i] >= 1 /\ AtMost(g[i], h[i])
    OBVIOUS
  <2>3. CASE g[i] = NoOne
    BY <2>2, <2>3 DEF AtMost, Score!Measured
  <2>4. CASE g[i] # NoOne
    <3>1. g[i] \in Nat /\ h[i] \in Nat /\ h[i] # NoOne /\ g[i] <= h[i]
      BY <2>2, <2>4 DEF AtMost
    <3>2. G[i] = w[i] * g[i] /\ H[i] = w[i] * h[i] /\ M[i] = w[i]
      BY <2>4, <3>1 DEF Score!Measured
    <3>3. w[i] * g[i] \in Nat /\ w[i] * h[i] \in Nat /\ w[i] * g[i] <= w[i] * h[i]
      BY <2>1, <2>2, <3>1
    <3> HIDE DEF G, H, M
    <3> QED
      BY <2>2, <3>2, <3>3
  <2> QED
    BY <2>3, <2>4
<1>3. Len(G) = n /\ Len(H) = n /\ Len(M) = n
  OBVIOUS
<1>4. Score!MeanOf(g, w) = Score!TotalOf(G) \div Score!TotalOf(M)
      /\ Score!MeanOf(h, w) = Score!TotalOf(H) \div Score!TotalOf(M)
  BY <1>1 DEF Score!MeanOf
<1> HIDE DEF G, H, M, N
<1>5. Score!TotalOf(G) \in Nat /\ Score!TotalOf(H) \in Nat /\ Score!TotalOf(G) <= Score!TotalOf(H)
  <2>1. Score!TotalOf(G) \in Nat
    BY <1>2, <1>3, SumFits
  <2>2. Score!TotalOf(H) \in Nat
    BY <1>2, <1>3, SumFits
  <2>3. Score!TotalOf(G) <= Score!TotalOf(H)
    BY <1>2, <1>3, SumGrows
  <2> QED
    BY <2>1, <2>2, <2>3
<1>6. Score!TotalOf(M) \in Nat \ {0}
  <2>1. Score!TotalOf(M) \in Nat /\ M[k] <= Score!TotalOf(M)
    BY <1>2, <1>3, SumFits
  <2>2. M[k] \in Nat /\ M[k] >= 1
    BY <1>2
  <2> QED
    BY <2>1, <2>2
<1> QED
  BY <1>4, <1>5, <1>6, DivGrows

(* A ratio grows with its value, and falls with its budget. *)
LEMMA RatioFits ==
  ASSUME NEW x \in Nat, NEW y \in Nat, x <= y, NEW d \in Nat \ {0}
  PROVE  /\ Score!gradeRatio(Score!Ratio(x, d)) \in Nat /\ Score!gradeRatio(Score!Ratio(y, d)) \in Nat
         /\ Score!gradeRatio(Score!Ratio(y, d)) <= Score!gradeRatio(Score!Ratio(x, d))
<1>1. x * 100 \in Nat /\ y * 100 \in Nat /\ x * 100 <= y * 100
  OBVIOUS
<1>2. Score!Ratio(x, d) \in Nat /\ Score!Ratio(y, d) \in Nat /\ Score!Ratio(x, d) <= Score!Ratio(y, d)
  BY <1>1, DivGrows DEF Score!Ratio
<1> DEFINE p == Score!Ratio(x, d)
           q == Score!Ratio(y, d)
<1> HIDE DEF p, q
<1>3. p \in Nat /\ q \in Nat /\ p <= q
  BY <1>2 DEF p, q
<1>4. /\ Score!gradeRatio(p) \in Nat /\ Score!gradeRatio(q) \in Nat
      /\ Score!gradeRatio(q) <= Score!gradeRatio(p)
  BY ONLY <1>3, GradeFalls
<1> QED
  BY <1>4 DEF p, q

(* More of what one divides by is a better grade. *)
LEMMA TurnedFits ==
  ASSUME NEW x \in Nat, NEW d \in Nat \ {0}, NEW e \in Nat \ {0}, d <= e
  PROVE  /\ Score!gradeRatio(Score!Ratio(x, d)) \in Nat /\ Score!gradeRatio(Score!Ratio(x, e)) \in Nat
         /\ Score!gradeRatio(Score!Ratio(x, d)) <= Score!gradeRatio(Score!Ratio(x, e))
<1>1. x * 100 \in Nat
  OBVIOUS
<1>2. Score!Ratio(x, d) \in Nat /\ Score!Ratio(x, e) \in Nat /\ Score!Ratio(x, e) <= Score!Ratio(x, d)
  BY <1>1, DivFalls DEF Score!Ratio
<1> DEFINE p == Score!Ratio(x, e)
           q == Score!Ratio(x, d)
<1> HIDE DEF p, q
<1>3. p \in Nat /\ q \in Nat /\ p <= q
  BY <1>2 DEF p, q
<1>4. /\ Score!gradeRatio(p) \in Nat /\ Score!gradeRatio(q) \in Nat
      /\ Score!gradeRatio(q) <= Score!gradeRatio(p)
  BY ONLY <1>3, GradeFalls
<1> QED
  BY <1>4 DEF p, q

(* The least of several grades, of those that were measured.               *)
Worst(p) == IF Score!MeasuredIn(p) = {} THEN NoOne ELSE Score!Min({p[i] : i \in Score!MeasuredIn(p)})

(* The least of several grades grows with them. *)
LEMMA WorstGrows ==
  ASSUME NEW n \in Nat, NEW g, NEW h, DOMAIN g = 1..n, DOMAIN h = 1..n,
         \A i \in 1..n : AtMost(g[i], h[i])
  PROVE  AtMost(Worst(g), Worst(h))
<1> DEFINE In == Score!MeasuredIn(g)
           Of(p) == {p[i] : i \in In}
<1>1. Score!MeasuredIn(h) = In /\ In = {i \in 1..n : g[i] # NoOne}
  BY DEF Score!MeasuredIn, Score!Measured, AtMost
<1>2. ASSUME NEW i \in In
      PROVE  g[i] \in Nat /\ h[i] \in Nat /\ g[i] <= h[i]
  BY <1>1 DEF AtMost
<1>3. CASE In = {}
  BY <1>1, <1>3 DEF AtMost, Worst
<1>4. CASE In # {}
  <2> HIDE DEF In
  <2>1. Of(g) \subseteq Nat /\ Of(g) # {} /\ Of(h) \subseteq Nat /\ Of(h) # {}
    BY <1>2, <1>4
  <2> HIDE DEF Of
  <2>2. Score!Min(Of(g)) \in Of(g) /\ \A y \in Of(g) : Score!Min(Of(g)) <= y
    BY <2>1, LeastFits
  <2>3. Score!Min(Of(h)) \in Of(h)
    BY <2>1, LeastFits
  <2>4. PICK i \in In : Score!Min(Of(h)) = h[i]
    BY <2>3 DEF Of
  <2>5. g[i] \in Of(g)
    BY DEF Of
  <2>6. Score!Min(Of(g)) \in Nat /\ Score!Min(Of(h)) \in Nat /\ Score!Min(Of(g)) <= Score!Min(Of(h))
    BY <1>2, <2>1, <2>2, <2>3, <2>4, <2>5
  <2>7. AtMost(Score!Min(Of(g)), Score!Min(Of(h)))
    BY <2>6, ScoreAssumption DEF AtMost
  <2> QED
    BY <1>1, <1>4, <2>7 DEF Of, In, Worst
<1> QED
  BY <1>3, <1>4

(* What a session may measure. *)
LEMMA SessionFits ==
  ASSUME NEW s \in Sessions
  PROVE  /\ s.reachedEnd \in BOOLEAN /\ s.legal \in BOOLEAN
         /\ s.refused \in BOOLEAN /\ s.enteredError \in BOOLEAN
         /\ s.steps \in Nat \cup {NoOne} /\ s.p95 \in Nat \cup {NoOne} /\ s.dropped \in Nat \cup {NoOne}
         /\ s.firstFrame \in {"painted", "blank", NoOne}
         /\ s.coverages \subseteq Nat /\ s.drifts \subseteq Nat
         /\ IsFiniteSet(s.coverages) /\ IsFiniteSet(s.drifts)
<1>1. s \in [reachedEnd : BOOLEAN, steps : Nat \cup {NoOne}, firstFrame : {"painted", "blank", NoOne},
             coverages : SUBSET Nat, drifts : SUBSET Nat, legal : BOOLEAN, p95 : Nat \cup {NoOne},
             dropped : Nat \cup {NoOne}, refused : BOOLEAN, enteredError : BOOLEAN]
  BY ScoreAssumption
<1>2. IsFiniteSet(s.coverages) /\ IsFiniteSet(s.drifts)
  BY ScoreAssumption
<1> QED
  BY <1>1, <1>2

(* What a budget is. *)
LEMMA BudgetsFit ==
  /\ Budgets.steps \in Nat \ {0} /\ Budgets.coverage \in Nat /\ Budgets.drift \in Nat
  /\ Budgets.p95 \in Nat \ {0} /\ Budgets.tap \in Nat \ {0} /\ Budgets.dropped \in Nat
  /\ Budgets.comfort \in Nat \ {0} /\ Budgets.xr \in BOOLEAN
<1>1. Budgets \in [steps : Nat \ {0}, coverage : Nat, drift : Nat, p95 : Nat \ {0}, tap : Nat \ {0},
                   dropped : Nat, comfort : Nat \ {0}, xr : BOOLEAN]
  BY ScoreAssumption
<1> QED
  BY <1>1

(* The stricter of two budgets divides, too. *)
LEMMA Least2 ==
  ASSUME NEW x \in Nat \ {0}, NEW y \in Nat \ {0}
  PROVE  Score!Min({x, y}) \in Nat \ {0}
<1>1. Score!Min({x, y}) \in {x, y}
  <2>1. {x, y} \subseteq Nat /\ {x, y} # {}
    OBVIOUS
  <2> QED
    BY <2>1, LeastFits
<1> QED
  BY <1>1

(* A measured value, graded against a budget. *)
LEMMA GradedFits ==
  ASSUME NEW x \in Nat \cup {NoOne}, NEW y \in Nat \cup {NoOne}, NEW d \in Nat \ {0},
         Score!Measured(x) = Score!Measured(y), Score!Measured(x) => x <= y
  PROVE  AtMost(IF Score!Measured(y) THEN Score!gradeRatio(Score!Ratio(y, d)) ELSE NoOne,
                IF Score!Measured(x) THEN Score!gradeRatio(Score!Ratio(x, d)) ELSE NoOne)
<1>0. NoOne \notin Nat
  BY ScoreAssumption
<1>1. CASE x = NoOne
  <2>1. y = NoOne
    BY <1>1 DEF Score!Measured
  <2> QED
    BY <1>1, <2>1 DEF Score!Measured, AtMost
<1>2. CASE x # NoOne
  <2>1. y # NoOne /\ x \in Nat /\ y \in Nat /\ x <= y
    BY <1>2 DEF Score!Measured
  <2> DEFINE g == Score!gradeRatio(Score!Ratio(x, d))
             h == Score!gradeRatio(Score!Ratio(y, d))
  <2>2. g \in Nat /\ h \in Nat /\ h <= g
    BY <2>1, RatioFits
  <2> HIDE DEF g, h
  <2>3. AtMost(h, g)
    BY <1>0, <2>2 DEF AtMost
  <2> QED
    BY <1>2, <2>1, <2>3 DEF Score!Measured, g, h
<1> QED
  BY <1>1, <1>2

(* What was not measured is not held against a session.                    *)
Full(v, d) == IF Score!Measured(v) THEN Score!gradeRatio(Score!Ratio(v, d)) ELSE 10000

(* It is a grade, and no worse for what is no worse. *)
LEMMA FullFits ==
  ASSUME NEW x \in Nat \cup {NoOne}, NEW y \in Nat \cup {NoOne}, NEW d \in Nat \ {0},
         Score!Measured(x) = Score!Measured(y), Score!Measured(x) => x <= y
  PROVE  Full(x, d) \in Nat /\ Full(y, d) \in Nat /\ Full(y, d) <= Full(x, d)
<1>1. CASE x = NoOne
  <2>1. ~Score!Measured(y) /\ ~Score!Measured(x)
    BY <1>1 DEF Score!Measured
  <2>2. Full(x, d) = 10000 /\ Full(y, d) = 10000
    BY <2>1 DEF Full
  <2> QED
    BY <2>2
<1>2. CASE x # NoOne
  <2>1. Score!Measured(y) /\ Score!Measured(x) /\ x \in Nat /\ y \in Nat /\ x <= y
    BY <1>2 DEF Score!Measured
  <2>2. Full(x, d) = Score!gradeRatio(Score!Ratio(x, d)) /\ Full(y, d) = Score!gradeRatio(Score!Ratio(y, d))
    BY <2>1 DEF Full
  <2> QED
    BY <2>1, <2>2, RatioFits
<1> QED
  BY <1>1, <1>2

(* A quarter of a grade, above the rest. *)
LEMMA Quarters ==
  ASSUME NEW x \in Nat, NEW y \in Nat, y <= x
  PROVE  /\ 7500 + (y \div 4) \in Nat /\ 7500 + (x \div 4) \in Nat
         /\ 7500 + (y \div 4) <= 7500 + (x \div 4)
<1>1. 4 \in Nat \ {0}
  OBVIOUS
<1>2. x \div 4 \in Nat /\ y \div 4 \in Nat /\ y \div 4 <= x \div 4
  BY <1>1, DivGrows
<1> QED
  BY <1>2

(* Business: to the end, and in how many steps. *)
LEMMA BusinessGrows ==
  ASSUME NEW a \in Sessions, NEW b \in Sessions, Score!NoWorse(a, b)
  PROVE  AtMost(Score!businessScore(b), Score!businessScore(a)) /\ Score!businessScore(b) # NoOne
<1>0. NoOne \notin Nat
  BY ScoreAssumption
<1> DEFINE g == Full(a.steps, Budgets.steps)
           h == Full(b.steps, Budgets.steps)
<1>1. a.steps \in Nat \cup {NoOne} /\ b.steps \in Nat \cup {NoOne} /\ Budgets.steps \in Nat \ {0}
  BY SessionFits, BudgetsFit
<1>2. g \in Nat
  <2>1. Score!Measured(a.steps) => a.steps <= a.steps
    BY <1>1 DEF Score!Measured
  <2> QED
    BY <1>1, <2>1, FullFits
<1>3. b.reachedEnd => a.reachedEnd /\ h \in Nat /\ h <= g
  <2> SUFFICES ASSUME b.reachedEnd
               PROVE  a.reachedEnd /\ h \in Nat /\ h <= g
    OBVIOUS
  <2>1. a.reachedEnd /\ Score!Measured(a.steps) = Score!Measured(b.steps)
        /\ (Score!Measured(a.steps) => a.steps <= b.steps)
    BY DEF Score!NoWorse
  <2> QED
    BY <1>1, <2>1, FullFits
<1>4. /\ Score!businessScore(a) = IF ~a.reachedEnd THEN 0 ELSE 7500 + (g \div 4)
      /\ Score!businessScore(b) = IF ~b.reachedEnd THEN 0 ELSE 7500 + (h \div 4)
  BY DEF Score!businessScore, Full
<1> HIDE DEF g, h
<1>5. /\ Score!businessScore(a) \in Nat /\ Score!businessScore(b) \in Nat
      /\ Score!businessScore(b) <= Score!businessScore(a)
  <2>1. 7500 + (g \div 4) \in Nat
    <3>1. g <= g
      BY <1>2
    <3> QED
      BY <1>2, <3>1, Quarters
  <2>2. b.reachedEnd => 7500 + (h \div 4) \in Nat /\ 7500 + (h \div 4) <= 7500 + (g \div 4)
    BY <1>2, <1>3, Quarters
  <2>3. CASE b.reachedEnd
    BY <1>3, <1>4, <2>1, <2>2, <2>3
  <2>4. CASE ~b.reachedEnd
    BY <1>4, <2>1, <2>4
  <2> QED
    BY <2>3, <2>4
<1> QED
  BY <1>0, <1>5 DEF AtMost

(* The three measurements that visualScore takes the worst of. *)
Painted(s) == IF Score!Measured(s.firstFrame) THEN (IF s.firstFrame = "painted" THEN 10000 ELSE 0) ELSE NoOne
Covered(s) == IF s.coverages = {} THEN NoOne
              ELSE Score!gradeRatio(IF Score!Min(s.coverages) > 0
                                    THEN Score!Ratio(Budgets.coverage, Score!Min(s.coverages))
                                    ELSE Score!Endless)
Drifted(s) == IF s.drifts = {} THEN NoOne
              ELSE Score!gradeRatio(IF Budgets.drift > 0
                                    THEN Score!Ratio(Score!Max(s.drifts), Budgets.drift) ELSE 0)

(* A first frame that is painted is better than a blank one. *)
LEMMA PaintedGrows ==
  ASSUME NEW a \in Sessions, NEW b \in Sessions, Score!NoWorse(a, b)
  PROVE  AtMost(Painted(b), Painted(a))
<1>0. NoOne \notin Nat /\ NoOne # "painted" /\ NoOne # "blank"
  BY ScoreAssumption
<1>1. a.firstFrame \in {"painted", "blank", NoOne} /\ b.firstFrame \in {"painted", "blank", NoOne}
  BY SessionFits
<1>2. Score!Measured(a.firstFrame) = Score!Measured(b.firstFrame)
      /\ (b.firstFrame = "painted" => a.firstFrame = "painted")
  BY DEF Score!NoWorse
<1>3. CASE b.firstFrame = NoOne
  <2>1. ~Score!Measured(a.firstFrame) /\ ~Score!Measured(b.firstFrame)
    BY <1>2, <1>3 DEF Score!Measured
  <2>2. Painted(a) = NoOne /\ Painted(b) = NoOne
    BY <2>1 DEF Painted
  <2> QED
    BY <2>2 DEF AtMost
<1>4. CASE b.firstFrame # NoOne
  <2>1. Score!Measured(a.firstFrame) /\ Score!Measured(b.firstFrame)
    BY <1>2, <1>4 DEF Score!Measured
  <2>2. /\ Painted(a) = IF a.firstFrame = "painted" THEN 10000 ELSE 0
        /\ Painted(b) = IF b.firstFrame = "painted" THEN 10000 ELSE 0
    BY <2>1 DEF Painted
  <2>3. Painted(a) \in Nat /\ Painted(b) \in Nat /\ Painted(b) <= Painted(a)
    BY <1>2, <2>2
  <2> QED
    BY <1>0, <2>3 DEF AtMost
<1> QED
  BY <1>3, <1>4

(* The focal subject covers no less of the frame. *)
LEMMA CoveredGrows ==
  ASSUME NEW a \in Sessions, NEW b \in Sessions, Score!NoWorse(a, b)
  PROVE  AtMost(Covered(b), Covered(a))
<1>0. NoOne \notin Nat
  BY ScoreAssumption
<1> DEFINE x == Score!Min(a.coverages)
           y == Score!Min(b.coverages)
<1>1. /\ (a.coverages = {}) = (b.coverages = {})
      /\ a.coverages = {} \/ x >= y
  BY DEF Score!NoWorse
<1>2. CASE a.coverages = {}
  <2>1. Covered(a) = NoOne /\ Covered(b) = NoOne
    BY <1>1, <1>2 DEF Covered
  <2> QED
    BY <2>1 DEF AtMost
<1>3. CASE a.coverages # {}
  <2>1. x \in Nat /\ y \in Nat
    <3>1. a.coverages \subseteq Nat /\ b.coverages \subseteq Nat /\ b.coverages # {}
      BY <1>1, <1>3, SessionFits
    <3> QED
      BY <1>3, <3>1, LeastFits
  <2> DEFINE p == IF x > 0 THEN Score!Ratio(Budgets.coverage, x) ELSE Score!Endless
             q == IF y > 0 THEN Score!Ratio(Budgets.coverage, y) ELSE Score!Endless
  <2>2. Covered(a) = Score!gradeRatio(p) /\ Covered(b) = Score!gradeRatio(q)
    BY <1>1, <1>3 DEF Covered
  <2>3. x >= y /\ Budgets.coverage \in Nat /\ Budgets.coverage * 100 \in Nat
    BY <1>1, <1>3, BudgetsFit
  <2> HIDE DEF x, y
  <2>4. Score!Endless \in Nat
    BY DEF Score!Endless
  <2>5. Score!gradeRatio(p) \in Nat /\ Score!gradeRatio(q) \in Nat /\ Score!gradeRatio(q) <= Score!gradeRatio(p)
    <3>1. CASE y > 0
      <4>1. x \in Nat \ {0} /\ y \in Nat \ {0} /\ y <= x
        BY <2>1, <2>3, <3>1
      <4>2. p = Score!Ratio(Budgets.coverage, x) /\ q = Score!Ratio(Budgets.coverage, y)
        BY <4>1
      <4> HIDE DEF p, q
      <4> QED
        BY <2>3, <4>1, <4>2, TurnedFits
    <3>2. CASE y = 0 /\ x > 0
      <4>1. x \in Nat \ {0} /\ x <= x
        BY <2>1, <3>2
      <4>2. p = Score!Ratio(Budgets.coverage, x) /\ q = 500
        BY <3>2 DEF Score!Endless
      <4> HIDE DEF p, q
      <4>3. Score!gradeRatio(p) \in Nat
        BY <2>3, <4>1, <4>2, TurnedFits
      <4>4. Score!gradeRatio(q) = 0
        BY <4>2 DEF Score!gradeRatio, Score!Endless
      <4> QED
        BY <4>3, <4>4
    <3>3. CASE y = 0 /\ x = 0
      <4>1. p = Score!Endless /\ q = Score!Endless
        BY <3>3
      <4> HIDE DEF p, q
      <4>2. p \in Nat /\ q \in Nat /\ p <= q
        BY <2>4, <4>1
      <4> QED
        BY <4>1, <4>2, GradeFalls
    <3> QED
      BY <2>1, <3>1, <3>2, <3>3
  <2> HIDE DEF p, q
  <2> QED
    BY <1>0, <2>2, <2>5 DEF AtMost
<1> QED
  BY <1>2, <1>3

(* Nothing drifts further. *)
LEMMA DriftedGrows ==
  ASSUME NEW a \in Sessions, NEW b \in Sessions, Score!NoWorse(a, b)
  PROVE  AtMost(Drifted(b), Drifted(a))
<1>0. NoOne \notin Nat
  BY ScoreAssumption
<1> DEFINE x == Score!Max(a.drifts)
           y == Score!Max(b.drifts)
<1>1. /\ (a.drifts = {}) = (b.drifts = {})
      /\ a.drifts = {} \/ x <= y
  BY DEF Score!NoWorse
<1>2. CASE a.drifts = {}
  <2>1. Drifted(a) = NoOne /\ Drifted(b) = NoOne
    BY <1>1, <1>2 DEF Drifted
  <2> QED
    BY <2>1 DEF AtMost
<1>3. CASE a.drifts # {}
  <2>1. x \in Nat /\ y \in Nat
    <3>1. a.drifts \subseteq Nat /\ b.drifts \subseteq Nat /\ b.drifts # {}
          /\ IsFiniteSet(a.drifts) /\ IsFiniteSet(b.drifts)
      BY <1>1, <1>3, SessionFits
    <3> QED
      BY <1>3, <3>1, LargestFits
  <2> DEFINE p == IF Budgets.drift > 0 THEN Score!Ratio(x, Budgets.drift) ELSE 0
             q == IF Budgets.drift > 0 THEN Score!Ratio(y, Budgets.drift) ELSE 0
  <2>2. Drifted(a) = Score!gradeRatio(p) /\ Drifted(b) = Score!gradeRatio(q)
    BY <1>1, <1>3 DEF Drifted
  <2>3. x <= y /\ Budgets.drift \in Nat
    BY <1>1, <1>3, BudgetsFit
  <2> HIDE DEF x, y
  <2>4. Score!gradeRatio(p) \in Nat /\ Score!gradeRatio(q) \in Nat /\ Score!gradeRatio(q) <= Score!gradeRatio(p)
    <3>1. CASE Budgets.drift > 0
      <4>1. /\ p = Score!Ratio(x, Budgets.drift) /\ q = Score!Ratio(y, Budgets.drift)
            /\ Budgets.drift \in Nat \ {0}
        BY <2>3, <3>1
      <4> HIDE DEF p, q
      <4> QED
        BY <2>1, <2>3, <4>1, RatioFits
    <3>2. CASE ~(Budgets.drift > 0)
      <4>1. p = 0 /\ q = 0
        BY <3>2
      <4> HIDE DEF p, q
      <4>2. p \in Nat /\ q \in Nat /\ p <= q
        BY <4>1
      <4> QED
        BY <4>1, <4>2, GradeFalls
    <3> QED
      BY <3>1, <3>2
  <2> HIDE DEF p, q
  <2> QED
    BY <1>0, <2>2, <2>4 DEF AtMost
<1> QED
  BY <1>2, <1>3

(* Visual: the worst of what was seen. *)
LEMMA VisualGrows ==
  ASSUME NEW a \in Sessions, NEW b \in Sessions, Score!NoWorse(a, b)
  PROVE  AtMost(Score!visualScore(b), Score!visualScore(a))
<1> DEFINE g == <<Painted(b), Covered(b), Drifted(b)>>
           h == <<Painted(a), Covered(a), Drifted(a)>>
<1>1. Score!visualScore(a) = Worst(h) /\ Score!visualScore(b) = Worst(g)
  BY DEF Score!visualScore, Painted, Covered, Drifted, Worst
<1>2. /\ DOMAIN g = 1..3 /\ DOMAIN h = 1..3
      /\ AtMost(g[1], h[1]) /\ AtMost(g[2], h[2]) /\ AtMost(g[3], h[3])
  BY PaintedGrows, CoveredGrows, DriftedGrows
<1> HIDE DEF g, h
<1>3. \A i \in 1..3 : AtMost(g[i], h[i])
  <2>1. \A i \in 1..3 : i = 1 \/ i = 2 \/ i = 3
    OBVIOUS
  <2> QED
    BY <1>2, <2>1
<1> QED
  BY <1>1, <1>2, <1>3, WorstGrows

(* Interaction: its journey, its latency and its dropped frames. *)
Journeyed(s) == IF s.legal THEN 10000 ELSE 0
Answered(s) == IF Score!Measured(s.p95)
               THEN Score!gradeRatio(Score!Ratio(s.p95, Score!Min({Budgets.p95, Budgets.tap}))) ELSE NoOne
Dropped(s) == IF Score!Measured(s.dropped)
              THEN Score!gradeRatio(IF Budgets.dropped > 0 THEN Score!Ratio(s.dropped, Budgets.dropped) ELSE 0)
              ELSE NoOne

(* No more frames are dropped. *)
LEMMA DroppedGrows ==
  ASSUME NEW a \in Sessions, NEW b \in Sessions, Score!NoWorse(a, b)
  PROVE  AtMost(Dropped(b), Dropped(a))
<1>0. NoOne \notin Nat
  BY ScoreAssumption
<1>1. /\ Score!Measured(a.dropped) = Score!Measured(b.dropped)
      /\ Score!Measured(a.dropped) => a.dropped <= b.dropped
  BY DEF Score!NoWorse
<1>2. a.dropped \in Nat \cup {NoOne} /\ b.dropped \in Nat \cup {NoOne} /\ Budgets.dropped \in Nat
  BY SessionFits, BudgetsFit
<1>3. CASE Budgets.dropped > 0
  <2>1. /\ Dropped(a) = IF Score!Measured(a.dropped)
                        THEN Score!gradeRatio(Score!Ratio(a.dropped, Budgets.dropped)) ELSE NoOne
        /\ Dropped(b) = IF Score!Measured(b.dropped)
                        THEN Score!gradeRatio(Score!Ratio(b.dropped, Budgets.dropped)) ELSE NoOne
    BY <1>3 DEF Dropped
  <2>2. Budgets.dropped \in Nat \ {0}
    BY <1>2, <1>3
  <2> QED
    BY <1>1, <1>2, <2>1, <2>2, GradedFits
<1>4. CASE ~(Budgets.dropped > 0)
  <2>1. Score!gradeRatio(0) \in Nat
    <3>1. 0 \in Nat /\ 0 <= 0
      OBVIOUS
    <3> QED
      BY <3>1, GradeFalls
  <2>2. CASE Score!Measured(a.dropped)
    <3>1. Dropped(a) = Score!gradeRatio(0) /\ Dropped(b) = Score!gradeRatio(0)
      BY <1>1, <1>4, <2>2 DEF Dropped
    <3> QED
      BY <1>0, <2>1, <3>1 DEF AtMost
  <2>3. CASE ~Score!Measured(a.dropped)
    <3>1. Dropped(a) = NoOne /\ Dropped(b) = NoOne
      BY <1>1, <2>3 DEF Dropped
    <3> QED
      BY <3>1 DEF AtMost
  <2> QED
    BY <2>2, <2>3
<1> QED
  BY <1>3, <1>4

(* Interaction: the mean of what was measured of it. *)
LEMMA InteractionGrows ==
  ASSUME NEW a \in Sessions, NEW b \in Sessions, Score!NoWorse(a, b)
  PROVE  AtMost(Score!interactionScore(b), Score!interactionScore(a)) /\ Score!interactionScore(b) # NoOne
<1>0. NoOne \notin Nat
  BY ScoreAssumption
<1> DEFINE g == <<Journeyed(b), Answered(b), Dropped(b)>>
           h == <<Journeyed(a), Answered(a), Dropped(a)>>
<1>1. /\ Score!interactionScore(a) = Score!MeanOf(h, Score!Alike)
      /\ Score!interactionScore(b) = Score!MeanOf(g, Score!Alike)
  BY DEF Score!interactionScore, Journeyed, Answered, Dropped
<1>2. AtMost(Journeyed(b), Journeyed(a)) /\ Journeyed(b) # NoOne
  <2>1. b.legal => a.legal
    BY DEF Score!NoWorse
  <2>2. Journeyed(a) \in Nat /\ Journeyed(b) \in Nat /\ Journeyed(b) <= Journeyed(a)
    BY <2>1 DEF Journeyed
  <2> QED
    BY <1>0, <2>2 DEF AtMost
<1>3. AtMost(Answered(b), Answered(a))
  <2>1. Score!Measured(a.p95) = Score!Measured(b.p95) /\ (Score!Measured(a.p95) => a.p95 <= b.p95)
    BY DEF Score!NoWorse
  <2>2. /\ a.p95 \in Nat \cup {NoOne} /\ b.p95 \in Nat \cup {NoOne}
        /\ Score!Min({Budgets.p95, Budgets.tap}) \in Nat \ {0}
    BY SessionFits, BudgetsFit, Least2
  <2> QED
    BY <2>1, <2>2, GradedFits DEF Answered
<1>4. /\ DOMAIN g = 1..3 /\ DOMAIN h = 1..3 /\ g[1] = Journeyed(b)
      /\ AtMost(g[1], h[1]) /\ AtMost(g[2], h[2]) /\ AtMost(g[3], h[3])
  BY <1>2, <1>3, DroppedGrows
<1> HIDE DEF g, h
<1>5. \A i \in 1..3 : Score!Alike[i] \in Nat \ {0} /\ AtMost(g[i], h[i])
  <2>1. \A i \in 1..3 : i = 1 \/ i = 2 \/ i = 3
    OBVIOUS
  <2>2. Score!Alike[1] \in Nat \ {0} /\ Score!Alike[2] \in Nat \ {0} /\ Score!Alike[3] \in Nat \ {0}
    BY DEF Score!Alike
  <2> QED
    BY <1>4, <2>1, <2>2
<1>6. /\ Score!MeanOf(g, Score!Alike) \in Nat /\ Score!MeanOf(h, Score!Alike) \in Nat
      /\ Score!MeanOf(g, Score!Alike) <= Score!MeanOf(h, Score!Alike)
  <2>1. 3 \in Nat /\ 1 \in 1..3 /\ g[1] # NoOne
    BY <1>2, <1>4
  <2> QED
    BY <1>4, <1>5, <2>1, MeanGrows
<1> QED
  BY <1>0, <1>1, <1>6 DEF AtMost

(* The pacing is the same for both sessions: a grade, or none. *)
LEMMA PacingFits ==
  ASSUME NEW worst \in Nat
  PROVE  AtMost(Score!sustainedPacing(worst).grade, Score!sustainedPacing(worst).grade)
<1>1. CASE worst = 0
  <2>1. Score!sustainedPacing(worst).grade = NoOne
    BY <1>1 DEF Score!sustainedPacing, Score!NotApplicable
  <2> QED
    BY <2>1 DEF AtMost
<1>2. CASE worst # 0
  <2>1. Score!sustainedPacing(worst).grade = Score!gradeRatio(worst \div FloorMs)
    BY <1>2 DEF Score!sustainedPacing
  <2>2. FloorMs \in Nat \ {0} /\ worst <= worst
    BY ScoreAssumption
  <2>3. worst \div FloorMs \in Nat /\ (worst \div FloorMs) <= (worst \div FloorMs)
    BY <2>2, DivGrows
  <2>4. Score!gradeRatio(worst \div FloorMs) \in Nat
    BY <2>3, GradeFalls
  <2> QED
    BY <2>1, <2>4 DEF AtMost
<1> QED
  BY <1>1, <1>2

(* The fallback of a refused session, and whether it caps the score. *)
LEMMA FallbackGrows ==
  ASSUME NEW a \in Sessions, NEW b \in Sessions, Score!NoWorse(a, b)
  PROVE  /\ AtMost(Score!xrFallback(b).grade, Score!xrFallback(a).grade)
         /\ Score!xrFallback(a).held = FALSE => Score!xrFallback(b).held = FALSE
<1>0. NoOne \notin Nat /\ NoOne \notin BOOLEAN
  BY ScoreAssumption
<1>1. /\ a.refused \in BOOLEAN /\ b.refused \in BOOLEAN /\ a.reachedEnd \in BOOLEAN /\ b.reachedEnd \in BOOLEAN
      /\ a.enteredError \in BOOLEAN /\ b.enteredError \in BOOLEAN /\ Budgets.xr \in BOOLEAN
  BY SessionFits, BudgetsFit
<1>2. a.refused = b.refused /\ (a.enteredError => b.enteredError) /\ (b.reachedEnd => a.reachedEnd)
  BY DEF Score!NoWorse
<1>3. CASE ~Budgets.xr \/ ~a.refused
  <2>1. Score!xrFallback(a) = Score!NotApplicable /\ Score!xrFallback(b) = Score!NotApplicable
    BY <1>2, <1>3 DEF Score!xrFallback
  <2> QED
    BY <1>0, <2>1 DEF Score!NotApplicable, AtMost
<1>4. CASE Budgets.xr /\ a.refused
  <2> DEFINE p == a.reachedEnd /\ ~a.enteredError
             q == b.reachedEnd /\ ~b.enteredError
  <2>1. p \in BOOLEAN /\ q \in BOOLEAN /\ (q => p)
    BY <1>1, <1>2
  <2>2. /\ Score!xrFallback(a) = [held |-> p, grade |-> IF p THEN 10000 ELSE 0]
        /\ Score!xrFallback(b) = [held |-> q, grade |-> IF q THEN 10000 ELSE 0]
    BY <1>2, <1>4 DEF Score!xrFallback
  <2> HIDE DEF p, q
  <2>3. CASE q
    <3>1. p
      BY <2>1, <2>3
    <3>2. Score!xrFallback(a).held /\ Score!xrFallback(a).grade = 10000 /\ Score!xrFallback(b).grade = 10000
      BY <2>2, <2>3, <3>1
    <3> QED
      BY <3>2 DEF AtMost
  <2>4. CASE ~q
    <3>1. Score!xrFallback(b).held = FALSE /\ Score!xrFallback(b).grade = 0
      BY <2>1, <2>2, <2>4
    <3>2. Score!xrFallback(a).grade \in Nat
      BY <2>1, <2>2
    <3>3. AtMost(0, Score!xrFallback(a).grade)
      BY <1>0, <3>2 DEF AtMost
    <3> QED
      BY <3>1, <3>3
  <2> QED
    BY <2>3, <2>4
<1> QED
  BY <1>3, <1>4

(* No answer is later. *)
LEMMA ResponseGrows ==
  ASSUME NEW a \in Sessions, NEW b \in Sessions, Score!NoWorse(a, b)
  PROVE  AtMost(Score!responsiveness(b).grade, Score!responsiveness(a).grade)
<1>1. Score!Measured(a.p95) = Score!Measured(b.p95) /\ (Score!Measured(a.p95) => a.p95 <= b.p95)
  BY DEF Score!NoWorse
<1>2. a.p95 \in Nat \cup {NoOne} /\ b.p95 \in Nat \cup {NoOne} /\ Budgets.comfort \in Nat \ {0}
  BY SessionFits, BudgetsFit
<1> DEFINE Of(s) == IF Score!Measured(s.p95)
                    THEN Score!gradeRatio(Score!Ratio(s.p95, Budgets.comfort)) ELSE NoOne
<1>3. AtMost(Of(b), Of(a))
  BY <1>1, <1>2, GradedFits
<1>4. Score!responsiveness(a).grade = Of(a)
  BY DEF Score!responsiveness, Score!NotApplicable
<1>5. Score!responsiveness(b).grade = Of(b)
  BY DEF Score!responsiveness, Score!NotApplicable
<1> HIDE DEF Of
<1> QED
  BY <1>3, <1>4, <1>5

(* The mean of several grades, or none when none was measured. *)
Middle(p) == IF Score!MeasuredIn(p) = {} THEN NoOne ELSE Score!MeanOf(p, Score!Alike)

(* Comfort: the mean of what applies. *)
LEMMA ComfortGrows ==
  ASSUME NEW a \in Sessions, NEW b \in Sessions, Score!NoWorse(a, b), NEW worst \in Nat
  PROVE  AtMost(Score!comfortScore(Score!evaluateComfort(b, worst)),
                Score!comfortScore(Score!evaluateComfort(a, worst)))
<1>0. NoOne \notin Nat
  BY ScoreAssumption
<1> DEFINE g == [i \in 1..3 |-> Score!evaluateComfort(b, worst)[i].grade]
           h == [i \in 1..3 |-> Score!evaluateComfort(a, worst)[i].grade]
<1>1. /\ Score!comfortScore(Score!evaluateComfort(a, worst)) = Middle(h)
      /\ Score!comfortScore(Score!evaluateComfort(b, worst)) = Middle(g)
  BY DEF Score!comfortScore, Middle
<1>2. /\ Score!evaluateComfort(a, worst)[1] = Score!sustainedPacing(worst)
      /\ Score!evaluateComfort(a, worst)[2] = Score!xrFallback(a)
      /\ Score!evaluateComfort(a, worst)[3] = Score!responsiveness(a)
      /\ Score!evaluateComfort(b, worst)[1] = Score!sustainedPacing(worst)
      /\ Score!evaluateComfort(b, worst)[2] = Score!xrFallback(b)
      /\ Score!evaluateComfort(b, worst)[3] = Score!responsiveness(b)
  BY DEF Score!evaluateComfort
<1>3. /\ g[1] = Score!sustainedPacing(worst).grade /\ h[1] = Score!sustainedPacing(worst).grade
      /\ g[2] = Score!xrFallback(b).grade /\ h[2] = Score!xrFallback(a).grade
      /\ g[3] = Score!responsiveness(b).grade /\ h[3] = Score!responsiveness(a).grade
  BY <1>2
<1>4. AtMost(g[1], h[1]) /\ AtMost(g[2], h[2]) /\ AtMost(g[3], h[3])
  <2> HIDE DEF g, h
  <2> QED
    BY <1>3, PacingFits, FallbackGrows, ResponseGrows
<1>5. DOMAIN g = 1..3 /\ DOMAIN h = 1..3
  OBVIOUS
<1> HIDE DEF g, h
<1>6. \A i \in 1..3 : Score!Alike[i] \in Nat \ {0} /\ AtMost(g[i], h[i])
  <2>1. \A i \in 1..3 : i = 1 \/ i = 2 \/ i = 3
    OBVIOUS
  <2>2. Score!Alike[1] \in Nat \ {0} /\ Score!Alike[2] \in Nat \ {0} /\ Score!Alike[3] \in Nat \ {0}
    BY DEF Score!Alike
  <2> QED
    BY <1>4, <2>1, <2>2
<1>7. Score!MeasuredIn(g) = Score!MeasuredIn(h) /\ Score!MeasuredIn(g) = {i \in 1..3 : g[i] # NoOne}
  BY <1>5, <1>6 DEF Score!MeasuredIn, Score!Measured, AtMost
<1>8. CASE Score!MeasuredIn(g) = {}
  <2>1. Middle(g) = NoOne /\ Middle(h) = NoOne
    BY <1>7, <1>8 DEF Middle
  <2> QED
    BY <1>1, <2>1 DEF AtMost
<1>9. CASE Score!MeasuredIn(g) # {}
  <2>1. PICK k \in 1..3 : g[k] # NoOne
    BY <1>7, <1>9
  <2>2. /\ Score!MeanOf(g, Score!Alike) \in Nat /\ Score!MeanOf(h, Score!Alike) \in Nat
        /\ Score!MeanOf(g, Score!Alike) <= Score!MeanOf(h, Score!Alike)
    <3>1. 3 \in Nat
      OBVIOUS
    <3> QED
      BY <1>5, <1>6, <2>1, <3>1, MeanGrows
  <2>3. Middle(g) = Score!MeanOf(g, Score!Alike) /\ Middle(h) = Score!MeanOf(h, Score!Alike)
    BY <1>7, <1>9 DEF Middle
  <2> QED
    BY <1>0, <1>1, <2>2, <2>3 DEF AtMost
<1> QED
  BY <1>8, <1>9

(* A session that is no worse is capped by no more. *)
LEMMA CapsFit ==
  ASSUME NEW a \in Sessions, NEW b \in Sessions, Score!NoWorse(a, b), NEW worst \in Nat
  PROVE  /\ Score!collectCaps(a, Score!evaluateComfort(a, worst))
              \subseteq Score!collectCaps(b, Score!evaluateComfort(b, worst))
         /\ Score!collectCaps(b, Score!evaluateComfort(b, worst)) \subseteq Nat
<1>1. /\ b.reachedEnd => a.reachedEnd
      /\ Score!Measured(a.firstFrame) = Score!Measured(b.firstFrame)
      /\ b.firstFrame = "painted" => a.firstFrame = "painted"
      /\ b.legal => a.legal
  BY DEF Score!NoWorse
<1>2. b.firstFrame \in {"painted", "blank", NoOne}
  BY SessionFits
<1>3. a.firstFrame = "blank" => b.firstFrame = "blank"
  BY <1>1, <1>2, ScoreAssumption DEF Score!Measured
<1>4. /\ Score!evaluateComfort(a, worst)[2] = Score!xrFallback(a)
      /\ Score!evaluateComfort(b, worst)[2] = Score!xrFallback(b)
  BY DEF Score!evaluateComfort
<1>5. Score!xrFallback(a).held = FALSE => Score!xrFallback(b).held = FALSE
  BY FallbackGrows
<1>6. Score!collectCaps(a, Score!evaluateComfort(a, worst))
        \subseteq Score!collectCaps(b, Score!evaluateComfort(b, worst))
  BY <1>1, <1>3, <1>4, <1>5 DEF Score!collectCaps
<1>7. Score!collectCaps(b, Score!evaluateComfort(b, worst)) \subseteq Nat
  BY DEF Score!collectCaps
<1> QED
  BY <1>6, <1>7

(* A session that is no worse in any measurement never scores less. *)
LEMMA ScoreGrows ==
  ASSUME NEW a \in Sessions, NEW b \in Sessions, Score!NoWorse(a, b), NEW worst \in Nat
  PROVE  /\ Score!scoreTrace(a, worst) \in Nat /\ Score!scoreTrace(b, worst) \in Nat
         /\ Score!scoreTrace(b, worst) <= Score!scoreTrace(a, worst)
<1> DEFINE g == <<Score!businessScore(b), Score!visualScore(b), Score!interactionScore(b),
                  Score!comfortScore(Score!evaluateComfort(b, worst))>>
           h == <<Score!businessScore(a), Score!visualScore(a), Score!interactionScore(a),
                  Score!comfortScore(Score!evaluateComfort(a, worst))>>
           caps(s) == Score!collectCaps(s, Score!evaluateComfort(s, worst))
           x == Score!MeanOf(h, Score!SCORE_WEIGHTS) \div 100
           y == Score!MeanOf(g, Score!SCORE_WEIGHTS) \div 100
           A == {x} \cup caps(a)
           B == {y} \cup caps(b)
<1>1. Score!scoreTrace(a, worst) = Score!Min(A) /\ Score!scoreTrace(b, worst) = Score!Min(B)
  BY DEF Score!scoreTrace
<1>2. /\ DOMAIN g = 1..4 /\ DOMAIN h = 1..4 /\ g[1] # NoOne
      /\ AtMost(g[1], h[1]) /\ AtMost(g[2], h[2]) /\ AtMost(g[3], h[3]) /\ AtMost(g[4], h[4])
  BY BusinessGrows, VisualGrows, InteractionGrows, ComfortGrows
<1>3. x \in Nat /\ y \in Nat /\ y <= x
  <2> HIDE DEF g, h
  <2>1. \A i \in 1..4 : Score!SCORE_WEIGHTS[i] \in Nat \ {0} /\ AtMost(g[i], h[i])
    <3>1. \A i \in 1..4 : i = 1 \/ i = 2 \/ i = 3 \/ i = 4
      OBVIOUS
    <3>2. /\ Score!SCORE_WEIGHTS[1] \in Nat \ {0} /\ Score!SCORE_WEIGHTS[2] \in Nat \ {0}
          /\ Score!SCORE_WEIGHTS[3] \in Nat \ {0} /\ Score!SCORE_WEIGHTS[4] \in Nat \ {0}
      BY DEF Score!SCORE_WEIGHTS
    <3> QED
      BY <1>2, <3>1, <3>2
  <2>2. /\ Score!MeanOf(g, Score!SCORE_WEIGHTS) \in Nat /\ Score!MeanOf(h, Score!SCORE_WEIGHTS) \in Nat
        /\ Score!MeanOf(g, Score!SCORE_WEIGHTS) <= Score!MeanOf(h, Score!SCORE_WEIGHTS)
    <3>1. 4 \in Nat /\ 1 \in 1..4
      OBVIOUS
    <3> QED
      BY <1>2, <2>1, <3>1, MeanGrows
  <2>3. 100 \in Nat \ {0}
    OBVIOUS
  <2> QED
    BY <2>2, <2>3, DivGrows
<1>4. caps(a) \subseteq caps(b) /\ caps(b) \subseteq Nat
  BY CapsFit
<1> HIDE DEF x, y, caps
<1>5. A \subseteq Nat /\ A # {} /\ B \subseteq Nat /\ B # {}
  BY <1>3, <1>4
<1>6. Score!Min(A) \in A
  BY <1>5, LeastFits
<1>7. Score!Min(B) \in B /\ \A z \in B : Score!Min(B) <= z
  BY <1>5, LeastFits
<1>8. Score!Min(A) \in Nat /\ Score!Min(B) \in Nat /\ Score!Min(B) <= Score!Min(A)
  <2>1. Score!Min(A) \in Nat /\ Score!Min(B) \in Nat
    BY <1>5, <1>6, <1>7
  <2>2. CASE Score!Min(A) \in caps(a)
    BY <1>4, <1>7, <2>1, <2>2
  <2>3. CASE Score!Min(A) = x
    <3>1. y \in B
      OBVIOUS
    <3>2. Score!Min(B) <= y
      BY <1>7, <3>1
    <3> QED
      BY <1>3, <2>1, <2>3, <3>2
  <2> QED
    BY <1>6, <2>1, <2>2, <2>3
<1> QED
  BY <1>1, <1>8

RunP95(f, i, j) == Score!P95(SubSeq(f, i, j))

(* The window begins at the last frame from which the rest still lasts:    *)
(* without the frames before it the rest was long enough each time.        *)
WindowFits ==
    /\ window \in [start : Nat, worst : Nat]
    /\ window.start \in 1..(Len(frames) + 1)
    /\ \A i \in 1..(window.start - 1) : i < Len(frames) /\ Lasts(frames, i + 1, Len(frames))

(* It has seen the worst of all tight windows. *)
WorstFits ==
    /\ \A j \in 1..Len(frames) : \A i \in 1..j : Tight(frames, i, j) => RunP95(frames, i, j) <= window.worst
    /\ \/ window.worst = 0
       \/ \E j \in 1..Len(frames) : \E i \in 1..j : Tight(frames, i, j) /\ RunP95(frames, i, j) = window.worst

ScoreInv ==
    /\ session \in Sessions /\ frames \in Seq(Nat)
    /\ WindowFits /\ WorstFits
    /\ graded # NoOne => graded.score = Score!scoreTrace(session, window.worst)

(* A number that is in a set and no less than any of it is its largest.    *)
LEMMA LargestIs ==
  ASSUME NEW S, S \subseteq Nat, NEW m \in S, \A y \in S : y <= m
  PROVE  Score!Max(S) = m
<1>1. \E x \in S : \A y \in S : x >= y
  OBVIOUS
<1>2. Score!Max(S) \in S /\ \A y \in S : Score!Max(S) >= y
  BY <1>1 DEF Score!Max
<1>3. Score!Max(S) \in Nat /\ m \in Nat /\ Score!Max(S) >= m /\ Score!Max(S) <= m
  BY <1>2
<1> QED
  BY <1>3

(* Where the window begins when there is one more frame: nothing more can  *)
(* be dropped there, and all before it can.                                *)
LEMMA StartFits ==
  ASSUME frames \in Seq(Nat), WindowFits, NEW d \in Nat
  PROVE  LET g    == Append(frames, d)
             n    == Len(frames) + 1
             from == Score!WindowStart(g, window.start)
         IN  /\ from \in 1..n
             /\ from = n \/ ~Lasts(g, from + 1, n)
             /\ \A i \in 1..(from - 1) : i < n /\ Lasts(g, i + 1, n)
<1> DEFINE g    == Append(frames, d)
           n    == Len(frames) + 1
           from == Score!WindowStart(g, window.start)
           S    == {i \in window.start..n : i = n \/ Long(g, i + 1, n) < WindowMs}
<1>1. /\ Len(frames) \in Nat /\ n \in Nat \ {0} /\ g \in Seq(Nat) /\ Len(g) = n
      /\ window.start \in 1..n /\ WindowMs \in Nat
  BY ScoreAssumption DEF WindowFits
<1>2. \A i \in 1..n : Long(g, i, n) = Long(frames, i, Len(frames)) + d
  BY RunExtends
<1>3. \A i \in 1..(n + 1) : Long(g, i, n) \in Nat
  <2> TAKE i \in 1..(n + 1)
  <2>1. i \in 1..(Len(g) + 1) /\ n \in (i - 1)..Len(g)
    BY <1>1
  <2> HIDE DEF g, n
  <2> QED
    BY <1>1, <2>1, RunFits
<1>4. \A i \in 1..n : Long(frames, i, Len(frames)) \in Nat
  <2> TAKE i \in 1..n
  <2>1. i \in 1..(Len(frames) + 1) /\ Len(frames) \in (i - 1)..Len(frames)
    BY <1>1
  <2> QED
    BY <2>1, RunFits
<1>5. from = Score!Min(S)
  BY <1>1 DEF Score!WindowStart, Score!TightStart, Long
<1>6. S \subseteq Nat /\ n \in S
  BY <1>1
<1> HIDE DEF g, n, from
<1>7. from \in S /\ \A y \in S : from <= y
  <2> HIDE DEF S
  <2> QED
    BY <1>5, <1>6, LeastFits
<1>8. from \in 1..n /\ (from = n \/ ~Lasts(g, from + 1, n))
  <2>1. from \in 1..n /\ (from = n \/ Long(g, from + 1, n) < WindowMs)
    BY <1>1, <1>7
  <2>2. from + 1 \in 1..(n + 1)
    BY <1>1, <2>1
  <2> QED
    BY <1>1, <1>3, <2>1, <2>2 DEF Lasts
<1>9. ASSUME NEW i \in 1..(from - 1)
      PROVE  i < n /\ Lasts(g, i + 1, n)
  <2>1. i \in Nat /\ i < n /\ i + 1 \in 1..n /\ i + 1 \in 1..(n + 1) /\ i \in 1..n
    BY <1>1, <1>8
  <2>2. CASE i < window.start
    <3>1. i \in 1..(window.start - 1)
      BY <1>1, <2>1, <2>2
    <3>2. Long(frames, i + 1, Len(frames)) >= WindowMs
      BY <3>1 DEF WindowFits, Lasts
    <3>3. Long(g, i + 1, n) >= WindowMs
      BY <1>1, <1>2, <1>4, <2>1, <3>2
    <3> QED
      BY <2>1, <3>3 DEF Lasts
  <2>3. CASE i >= window.start
    <3>1. i \notin S
      BY <1>1, <1>7, <1>8, <2>1
    <3>2. ~(Long(g, i + 1, n) < WindowMs)
      BY <1>1, <2>1, <2>3, <3>1
    <3>3. Long(g, i + 1, n) >= WindowMs
      BY <1>1, <1>3, <2>1, <3>2
    <3> QED
      BY <2>1, <3>3 DEF Lasts
  <2> QED
    BY <1>1, <2>1, <2>2, <2>3
<1> QED
  BY <1>8, <1>9 DEF g, n, from

(* So the window is the only tight one that ends with the last frame.      *)
LEMMA OnlyTight ==
  ASSUME NEW g \in Seq(Nat), NEW n \in Nat \ {0}, Len(g) = n, NEW from \in 1..n,
         from = n \/ ~Lasts(g, from + 1, n),
         \A i \in 1..(from - 1) : i < n /\ Lasts(g, i + 1, n)
  PROVE  /\ Tight(g, from, n) <=> Lasts(g, from, n) /\ n - from + 1 >= MinSamples
         /\ \A i \in 1..n : Tight(g, i, n) => i = from
<1>0. WindowMs \in Nat
  BY ScoreAssumption
<1>1. Tight(g, from, n) <=> Lasts(g, from, n) /\ n - from + 1 >= MinSamples
  BY DEF Tight
<1>2. ASSUME NEW i \in 1..n, Tight(g, i, n)
      PROVE  i = from
  <2>1. Lasts(g, i, n) /\ (i = n \/ ~Lasts(g, i + 1, n))
    BY <1>2 DEF Tight
  <2>2. ~(i < from)
    <3> SUFFICES ASSUME i < from
                 PROVE  FALSE
      OBVIOUS
    <3>1. i \in 1..(from - 1)
      OBVIOUS
    <3>2. i < n /\ Lasts(g, i + 1, n)
      BY <3>1
    <3> QED
      BY <2>1, <3>2
  <2>3. ~(i > from)
    <3> SUFFICES ASSUME i > from
                 PROVE  FALSE
      OBVIOUS
    <3>1. from # n /\ from + 1 \in 1..n /\ i \in (from + 1)..n /\ n \in 1..Len(g)
      OBVIOUS
    <3>2. Long(g, i, n) <= Long(g, from + 1, n)
      BY <3>1, RunOrders
    <3>3. Long(g, i, n) \in Nat /\ Long(g, from + 1, n) \in Nat
      <4>1. /\ i \in 1..(Len(g) + 1) /\ n \in (i - 1)..Len(g)
            /\ from + 1 \in 1..(Len(g) + 1) /\ n \in ((from + 1) - 1)..Len(g)
        BY <3>1
      <4> QED
        BY <4>1, RunFits
    <3>4. ~(Long(g, from + 1, n) >= WindowMs)
      BY <3>1 DEF Lasts
    <3> QED
      BY <1>0, <2>1, <3>2, <3>3, <3>4 DEF Lasts
  <2> QED
    BY <2>2, <2>3
<1> QED
  BY <1>1, <1>2

(* A run of frames that ends before the last one is what it was.           *)
LEMMA TightStays ==
  ASSUME NEW f \in Seq(Nat), NEW d \in Nat, NEW j \in 1..Len(f), NEW i \in 1..j
  PROVE  /\ Tight(Append(f, d), i, j) = Tight(f, i, j)
         /\ RunP95(Append(f, d), i, j) = RunP95(f, i, j)
<1>1. i \in 1..(j + 1) /\ i + 1 \in 1..(j + 1)
  OBVIOUS
<1>2. SubSeq(Append(f, d), i, j) = SubSeq(f, i, j) /\ SubSeq(Append(f, d), i + 1, j) = SubSeq(f, i + 1, j)
  BY <1>1, RunExtends
<1> QED
  BY <1>2 DEF Tight, Lasts, Long, RunP95

(* At first no frame was seen. *)
LEMMA ScoreStart ==
  ASSUME Score!Init
  PROVE  ScoreInv
<1>1. session \in Sessions /\ frames = <<>> /\ window = [start |-> 1, worst |-> 0] /\ graded = NoOne
  BY DEF Score!Init
<1>2. Len(frames) = 0 /\ frames \in Seq(Nat)
  BY <1>1
<1>3. WindowFits
  <2>1. \A i \in 1..(window.start - 1) : FALSE
    BY <1>1
  <2> QED
    BY <1>1, <1>2, <2>1 DEF WindowFits
<1>4. WorstFits
  <2>1. \A j \in 1..Len(frames) : FALSE
    BY <1>2
  <2> QED
    BY <1>1, <2>1 DEF WorstFits
<1> QED
  BY <1>1, <1>2, <1>3, <1>4 DEF ScoreInv

(* One more frame. *)
LEMMA SampleKeepsScore ==
  ASSUME ScoreInv, NEW d \in Durations, Score!Sample(d)
  PROVE  ScoreInv'
<1> DEFINE g    == Append(frames, d)
           n    == Len(frames) + 1
           from == Score!WindowStart(g, window.start)
           high == RunP95(g, from, n)
           long == Lasts(g, from, n) /\ n - from + 1 >= MinSamples
<1>1. /\ d \in Nat /\ frames \in Seq(Nat) /\ Len(frames) \in Nat /\ n \in Nat \ {0}
      /\ g \in Seq(Nat) /\ Len(g) = n /\ WindowMs \in Nat
  BY ScoreAssumption DEF ScoreInv
<1>2. /\ from \in 1..n /\ (from = n \/ ~Lasts(g, from + 1, n))
      /\ \A i \in 1..(from - 1) : i < n /\ Lasts(g, i + 1, n)
  BY <1>1, StartFits DEF ScoreInv
<1>3. /\ Tight(g, from, n) <=> long
      /\ \A i \in 1..n : Tight(g, i, n) => i = from
  <2> HIDE DEF g, n, from
  <2> QED
    BY <1>1, <1>2, OnlyTight
<1>4. high \in Nat /\ Len(SubSeq(g, from, n)) = n - from + 1
  <2>1. from \in 1..(Len(g) + 1) /\ n \in (from - 1)..Len(g) /\ n - from + 1 >= 1
    BY <1>1, <1>2
  <2> HIDE DEF g, n, from
  <2>2. SubSeq(g, from, n) \in Seq(Nat) /\ Len(SubSeq(g, from, n)) = n - from + 1
    BY <1>1, <2>1, RunFits
  <2>3. RunP95(g, from, n) \in Nat
    BY <2>1, <2>2, P95Fits DEF RunP95
  <2> QED
    BY <2>2, <2>3
<1>5. /\ graded = NoOne /\ session' = session /\ graded' = graded /\ frames' = g
      /\ window' = [start |-> from, worst |-> IF long /\ high > window.worst THEN high ELSE window.worst]
  <2>1. /\ graded = NoOne /\ session' = session /\ graded' = graded /\ frames' = g
        /\ window' = [start |-> from,
                      worst |-> IF /\ Score!TotalOf(SubSeq(g, from, Len(g))) >= WindowMs
                                      /\ Len(SubSeq(g, from, Len(g))) >= MinSamples
                                   /\ Score!P95(SubSeq(g, from, Len(g))) > window.worst
                                THEN Score!P95(SubSeq(g, from, Len(g)))
                                ELSE window.worst]
    BY DEF Score!Sample
  <2>2. /\ Lasts(g, from, n) <=> Score!TotalOf(SubSeq(g, from, Len(g))) >= WindowMs
        /\ high = Score!P95(SubSeq(g, from, Len(g)))
        /\ Len(SubSeq(g, from, Len(g))) = n - from + 1
    BY <1>1, <1>4 DEF Lasts, Long, RunP95
  <2> HIDE DEF g, n, high
  <2> QED
    BY <2>1, <2>2
<1> HIDE DEF g, n, from, high, long
<1>6. Len(frames') = n /\ window'.start = from /\ window'.worst \in Nat /\ window.worst \in Nat
      /\ window' \in [start : Nat, worst : Nat] /\ window.worst <= window'.worst
      /\ (long => high <= window'.worst)
      /\ (window'.worst = window.worst \/ (long /\ window'.worst = high))
  <2>1. window.worst \in Nat /\ from \in Nat
    BY <1>1, <1>2 DEF ScoreInv, WindowFits
  <2>2. CASE long /\ high > window.worst
    BY <1>1, <1>4, <1>5, <2>1, <2>2
  <2>3. CASE ~(long /\ high > window.worst)
    BY <1>1, <1>4, <1>5, <2>1, <2>3
  <2> QED
    BY <2>2, <2>3
<1>7. WindowFits'
  <2>1. from \in 1..(n + 1)
    BY <1>1, <1>2
  <2> QED
    BY <1>2, <1>5, <1>6, <2>1 DEF WindowFits, Lasts, Long
<1>8. \A j \in 1..Len(frames) : \A i \in 1..j :
          Tight(g, i, j) = Tight(frames, i, j) /\ RunP95(g, i, j) = RunP95(frames, i, j)
  BY <1>1, TightStays DEF g
<1>9. \A j \in 1..n : j \in 1..Len(frames) \/ j = n
  BY <1>1 DEF n
<1>10. ASSUME NEW j \in 1..n, NEW i \in 1..j, Tight(g, i, j)
       PROVE  RunP95(g, i, j) <= window'.worst
  <2>1. CASE j \in 1..Len(frames)
    <3>1. RunP95(frames, i, j) <= window.worst /\ RunP95(g, i, j) = RunP95(frames, i, j)
      BY <1>8, <1>10, <2>1 DEF ScoreInv, WorstFits
    <3>2. RunP95(frames, i, j) \in Nat
      <4>1. i \in 1..(Len(frames) + 1) /\ j \in (i - 1)..Len(frames) /\ j - i + 1 >= 1
        BY <1>1, <2>1
      <4>2. SubSeq(frames, i, j) \in Seq(Nat) /\ Len(SubSeq(frames, i, j)) = j - i + 1
        BY <1>1, <4>1, RunFits
      <4> QED
        BY <4>1, <4>2, P95Fits DEF RunP95
    <3> QED
      BY <1>6, <3>1, <3>2
  <2>2. CASE j = n
    <3>1. i = from
      BY <1>3, <1>10, <2>2
    <3>2. long
      BY <1>3, <1>10, <2>2, <3>1
    <3> QED
      BY <1>6, <2>2, <3>1, <3>2 DEF high
  <2> QED
    BY <1>9, <2>1, <2>2
<1>11. \/ window'.worst = 0
       \/ \E j \in 1..n : \E i \in 1..j : Tight(g, i, j) /\ RunP95(g, i, j) = window'.worst
  <2>1. CASE window'.worst = window.worst
    <3>1. CASE window.worst = 0
      BY <2>1, <3>1
    <3>2. CASE window.worst # 0
      <4>0. PICK j \in 1..Len(frames) :
                 \E i \in 1..j : Tight(frames, i, j) /\ RunP95(frames, i, j) = window.worst
        BY <3>2 DEF ScoreInv, WorstFits
      <4>1. PICK i \in 1..j : Tight(frames, i, j) /\ RunP95(frames, i, j) = window.worst
        BY <4>0
      <4>2. j \in 1..n
        BY <1>1 DEF n
      <4>3. Tight(g, i, j) /\ RunP95(g, i, j) = window'.worst
        BY <1>8, <2>1, <4>1
      <4> QED
        BY <4>2, <4>3
    <3> QED
      BY <3>1, <3>2
  <2>2. CASE long /\ window'.worst = high
    <3>1. n \in 1..n /\ from \in 1..n /\ Tight(g, from, n) /\ RunP95(g, from, n) = window'.worst
      BY <1>1, <1>2, <1>3, <2>2 DEF high
    <3> QED
      BY <3>1
  <2> QED
    BY <1>6, <2>1, <2>2
<1>12. WorstFits'
  <2>1. \A j \in 1..n : \A i \in 1..j : Tight(g, i, j) => RunP95(g, i, j) <= window'.worst
    BY <1>10
  <2> QED
    BY <1>5, <1>6, <1>11, <2>1 DEF WorstFits, Tight, Lasts, Long, RunP95
<1>13. session' \in Sessions /\ frames' \in Seq(Nat) /\ graded' = NoOne
  BY <1>1, <1>5 DEF ScoreInv
<1> QED
  BY <1>7, <1>12, <1>13 DEF ScoreInv

(* Every step of the score keeps the invariant. *)
LEMMA ScoreNext ==
  ASSUME ScoreInv, Score!Next
  PROVE  ScoreInv'
<1>1. CASE \E d \in Durations : Score!Sample(d)
  BY <1>1, SampleKeepsScore
<1>2. CASE \E outcome \in {"pass", "degraded", "fail", "inconclusive"} : Score!Grade(outcome)
  <2>1. PICK outcome \in {"pass", "degraded", "fail", "inconclusive"} : Score!Grade(outcome)
    BY <1>2
  <2>2. /\ session' = session /\ frames' = frames /\ window' = window
        /\ graded'.score = Score!scoreTrace(session, window.worst)
    BY <2>1 DEF Score!Grade
  <2>3. WindowFits' /\ WorstFits'
    BY <2>2 DEF ScoreInv, WindowFits, WorstFits, Tight, Lasts, Long, RunP95
  <2>4. graded'.score = Score!scoreTrace(session', window'.worst)
    BY <2>2
  <2> QED
    BY <2>2, <2>3, <2>4 DEF ScoreInv
<1> QED
  BY <1>1, <1>2 DEF Score!Next

(* A step that changes nothing of the score keeps it, too. *)
LEMMA ScoreStutters ==
  ASSUME ScoreInv, UNCHANGED scoringVars
  PROVE  ScoreInv'
<1>1. session' = session /\ frames' = frames /\ window' = window /\ graded' = graded
  BY DEF scoringVars
<1>2. WindowFits' /\ WorstFits'
  BY <1>1 DEF ScoreInv, WindowFits, WorstFits, Tight, Lasts, Long, RunP95
<1> QED
  BY <1>1, <1>2 DEF ScoreInv

(* The invariant says what is promised of a score.                         *)
LEMMA ScorePromise ==
  ASSUME ScoreInv
  PROVE  Score!ScoreFollowsMeasurement
<1>1. frames \in Seq(Nat) /\ Len(frames) \in Nat /\ window.worst \in Nat /\ session \in Sessions
  BY DEF ScoreInv, WindowFits
<1>2. Score!WorstWindowIsWorst
  <2> DEFINE Windows == {w \in (1..Len(frames)) \X (1..Len(frames)) : Tight(frames, w[1], w[2])}
             S == {0} \cup {RunP95(frames, w[1], w[2]) : w \in Windows}
  <2>1. Score!WorstWindowIsWorst <=> window.worst = Score!Max(S)
    BY DEF Score!WorstWindowIsWorst, Tight, Lasts, Long, RunP95
  <2>2. ASSUME NEW w \in Windows
        PROVE  /\ w[2] \in 1..Len(frames) /\ w[1] \in 1..w[2] /\ Tight(frames, w[1], w[2])
               /\ RunP95(frames, w[1], w[2]) \in Nat
    <3>1. w[2] \in 1..Len(frames) /\ w[1] \in 1..Len(frames) /\ Tight(frames, w[1], w[2])
      OBVIOUS
    <3>2. w[1] \in 1..w[2]
      BY <3>1 DEF Tight
    <3>3. w[1] \in 1..(Len(frames) + 1) /\ w[2] \in (w[1] - 1)..Len(frames) /\ w[2] - w[1] + 1 >= 1
      BY <1>1, <3>1, <3>2
    <3>4. SubSeq(frames, w[1], w[2]) \in Seq(Nat) /\ Len(SubSeq(frames, w[1], w[2])) = w[2] - w[1] + 1
      BY <1>1, <3>3, RunFits
    <3>5. RunP95(frames, w[1], w[2]) \in Nat
      BY <3>3, <3>4, P95Fits DEF RunP95
    <3> QED
      BY <3>1, <3>2, <3>5
  <2>3. S \subseteq Nat
    BY <2>2
  <2>4. \A y \in S : y <= window.worst
    <3> TAKE y \in S
    <3>1. CASE y = 0
      BY <1>1, <3>1
    <3>2. CASE y # 0
      <4>1. PICK w \in Windows : y = RunP95(frames, w[1], w[2])
        BY <3>2
      <4> HIDE DEF Windows
      <4> QED
        BY <2>2, <4>1 DEF ScoreInv, WorstFits
    <3> QED
      BY <3>1, <3>2
  <2>5. window.worst \in S
    <3>1. CASE window.worst = 0
      BY <3>1
    <3>2. CASE window.worst # 0
      <4>0. PICK j \in 1..Len(frames) :
                 \E i \in 1..j : Tight(frames, i, j) /\ RunP95(frames, i, j) = window.worst
        BY <3>2 DEF ScoreInv, WorstFits
      <4>1. PICK i \in 1..j : Tight(frames, i, j) /\ RunP95(frames, i, j) = window.worst
        BY <4>0
      <4>2. i \in 1..Len(frames)
        BY <1>1
      <4>3. <<i, j>> \in Windows
        BY <4>1, <4>2
      <4> QED
        BY <4>1, <4>3
    <3> QED
      BY <3>1, <3>2
  <2> HIDE DEF S
  <2>6. Score!Max(S) = window.worst
    BY <2>3, <2>4, <2>5, LargestIs
  <2> QED
    BY <2>1, <2>6
<1>3. Score!ImprovementNeverCosts
  <2> SUFFICES ASSUME graded # NoOne, NEW s \in Sessions
               PROVE  /\ Score!NoWorse(s, session) => Score!scoreTrace(s, window.worst) >= graded.score
                      /\ Score!NoWorse(session, s) => Score!scoreTrace(s, window.worst) <= graded.score
    BY DEF Score!ImprovementNeverCosts
  <2>1. graded.score = Score!scoreTrace(session, window.worst)
    BY DEF ScoreInv
  <2>2. ASSUME Score!NoWorse(s, session)
        PROVE  Score!scoreTrace(s, window.worst) >= graded.score
    BY <1>1, <2>1, <2>2, ScoreGrows
  <2>3. ASSUME Score!NoWorse(session, s)
        PROVE  Score!scoreTrace(s, window.worst) <= graded.score
    BY <1>1, <2>1, <2>3, ScoreGrows
  <2> QED
    BY <2>2, <2>3
<1> QED
  BY <1>2, <1>3 DEF Score!ScoreFollowsMeasurement

-----------------------------------------------------------------------------
(* The batch judge and its incidents.                                      *)

Statuses == {"unknown", "open", "retired", "fixed"}

IncidentsKept ==
    /\ incidents \in [Incidents -> [status : Statuses, seen : Nat]]
    /\ clock \in Nat
    /\ \A i \in Incidents : incidents[i].seen <= clock
    /\ Cardinality(Judge!Open(incidents)) <= OpenCap
    /\ \A i, j \in Incidents : incidents[i].status = "retired" /\ incidents[j].status = "open"
                                  => incidents[i].seen <= incidents[j].seen

(* The incidents asked about that an engine is sure of. *)
Explained(questions, f, model) ==
    questions \cap (Contents[f].rules \cup (IF model = "ok" THEN Contents[f].model ELSE {}))

(* They are what a row lists. *)
LEMMA JudgeMatches ==
  \A f, model : Judge!MatchesOf(f, model).matched = Explained(batch.asked, f, model)
BY DEF Judge!MatchesOf, Explained

(* A row is of its file, and of the questions of its batch. *)
RowFits(f) ==
    LET row == batch.rows[f]
    IN  /\ row.outcome = Contents[f].outcome /\ row.score = Contents[f].score
        /\ row.asked = batch.asked
        /\ row.matches.matched = Explained(batch.asked, f, row.model)

(* A file of a batch is left, judged or skipped, and the report, once it   *)
(* is written, says which.                                                 *)
BatchKept ==
    /\ batch = [phase |-> batch.phase, files |-> batch.files, asked |-> batch.asked,
                left |-> batch.left, rows |-> batch.rows, skipped |-> batch.skipped]
    /\ batch.left \cup (DOMAIN batch.rows) \cup batch.skipped = batch.files
    /\ batch.left \cap (DOMAIN batch.rows) = {} /\ batch.left \cap batch.skipped = {}
    /\ (DOMAIN batch.rows) \cap batch.skipped = {}
    /\ \A f \in DOMAIN batch.rows : RowFits(f)
    /\ batch.phase = "written" =>
          /\ batch.left = {}
          /\ summary.judged = DOMAIN batch.rows /\ summary.skipped = batch.skipped
          /\ summary.unexplained = Judge!UnexplainedFailures(batch.rows)

JudgeInv == IncidentsKept /\ BatchKept

(* The cardinality that Triage means is the one that is meant here.        *)
LEMMA JudgeCardinality == \A S : Judge!Cardinality(S) = Cardinality(S)
BY DEF Judge!Cardinality, Cardinality, Judge!IsFiniteSet, IsFiniteSet

(* The Max of zero and a number is the number, or nothing.                 *)
LEMMA JudgeMax ==
  ASSUME NEW n \in Int
  PROVE  Judge!Max({0, n}) = IF n > 0 THEN n ELSE 0
<1> DEFINE m == IF n > 0 THEN n ELSE 0
           Top(x) == \A y \in {0, n} : x >= y
<1>1. m \in {0, n} /\ Top(m)
  OBVIOUS
<1>2. \A x \in {0, n} : Top(x) => x = m
  OBVIOUS
<1>3. Judge!Max({0, n}) = CHOOSE x \in {0, n} : Top(x)
  BY Zenon DEF Judge!Max
<1> HIDE DEF m, Top
<1>4. Judge!Max({0, n}) = m
  BY <1>1, <1>2, <1>3, Zenon
<1> QED
  BY <1>4 DEF m

(* A person sees an incident. *)
LEMMA RecordKeeps ==
  ASSUME JudgeInv, NEW i \in Incidents, Judge!RecordIncident(i)
  PROVE  IncidentsKept'
<1> DEFINE store == [incidents EXCEPT ![i] = [status |-> "open", seen |-> clock + 1]]
           open == Judge!Open(store)
<1>1. store \in [Incidents -> [status : Statuses, seen : Nat]]
  BY DEF JudgeInv, IncidentsKept, Statuses
<1>2. PICK gone \in SUBSET (open \ {i}) :
        /\ Judge!Cardinality(gone) = Judge!Max({0, Judge!Cardinality(open) - OpenCap})
        /\ \A x \in gone, y \in open \ (gone \cup {i}) : store[x].seen <= store[y].seen
        /\ incidents' = [x \in Incidents |-> IF x \in gone THEN [store[x] EXCEPT !.status = "retired"]
                                             ELSE store[x]]
  BY DEF Judge!RecordIncident, Judge!RetireOverflow, Judge!RetiredBefore
<1>3. open \subseteq Incidents /\ i \in open
  BY <1>1 DEF Judge!Open, JudgeInv, IncidentsKept
<1> HIDE DEF open
<1>4. /\ IsFiniteSet(open) /\ IsFiniteSet(gone)
      /\ Cardinality(open) \in Nat /\ Cardinality(gone) \in Nat
  BY <1>2, <1>3, IncidentAssumption, FS_Subset, FS_CardinalityType
<1>5. Cardinality(gone) = IF Cardinality(open) - OpenCap > 0 THEN Cardinality(open) - OpenCap ELSE 0
  BY <1>2, <1>4, JudgeCardinality, JudgeMax, IncidentAssumption
<1>6. Cardinality(open \ gone) <= OpenCap
  <2>1. Cardinality(open \ gone) = Cardinality(open) - Cardinality(open \cap gone)
    BY <1>4, FS_Difference
  <2>2. open \cap gone = gone
    BY <1>2
  <2> QED
    BY <2>1, <2>2, <1>4, <1>5, IncidentAssumption
<1>7. incidents' \in [Incidents -> [status : Statuses, seen : Nat]]
  BY <1>1, <1>2 DEF Statuses
<1>8. Judge!Open(incidents') = open \ gone
  BY <1>1, <1>2 DEF Judge!Open, open
<1>9. clock' = clock + 1 /\ clock \in Nat
  BY DEF Judge!RecordIncident, JudgeInv, IncidentsKept
<1>10. \A x \in Incidents : incidents'[x].seen <= clock'
  BY <1>1, <1>2, <1>9 DEF JudgeInv, IncidentsKept
<1>11. ASSUME NEW x \in Incidents, NEW y \in Incidents,
              incidents'[x].status = "retired", incidents'[y].status = "open"
       PROVE  incidents'[x].seen <= incidents'[y].seen
  <2>1. /\ incidents'[x].seen = store[x].seen /\ incidents'[y].seen = store[y].seen
        /\ y \in open \ gone
    BY <1>1, <1>2, <1>8, <1>11 DEF Judge!Open
  <2>2. x # i /\ store[x] = incidents[x]
    BY <1>2, <1>11 DEF JudgeInv, IncidentsKept
  <2>3. CASE y = i
    BY <2>1, <2>2, <2>3, <1>9 DEF JudgeInv, IncidentsKept
  <2>4. CASE y # i /\ x \in gone
    BY <2>1, <2>4, <1>2
  <2>5. CASE y # i /\ x \notin gone
    <3>1. incidents[x].status = "retired" /\ incidents[y].status = "open" /\ store[y] = incidents[y]
      BY <2>1, <2>2, <2>5, <1>1, <1>2, <1>11 DEF open, Judge!Open, JudgeInv, IncidentsKept
    <3> QED
      BY <3>1, <2>1, <2>2 DEF JudgeInv, IncidentsKept
  <2> QED
    BY <2>3, <2>4, <2>5
<1> QED
  BY <1>6, <1>7, <1>8, <1>9, <1>10, <1>11 DEF IncidentsKept

(* A person marks it fixed: one question fewer. *)
LEMMA FixedKeeps ==
  ASSUME JudgeInv, NEW i \in Incidents, Judge!MarkFixed(i)
  PROVE  IncidentsKept'
<1>1. /\ incidents' = [incidents EXCEPT ![i].status = "fixed"] /\ clock' = clock
      /\ incidents \in [Incidents -> [status : Statuses, seen : Nat]]
  BY DEF Judge!MarkFixed, JudgeInv, IncidentsKept
<1>2. incidents' \in [Incidents -> [status : Statuses, seen : Nat]]
  BY <1>1 DEF Statuses
<1>3. Judge!Open(incidents') \subseteq Judge!Open(incidents) /\ Judge!Open(incidents) \subseteq Incidents
  BY <1>1 DEF Judge!Open
<1>4. Cardinality(Judge!Open(incidents')) <= OpenCap
  <2>1. IsFiniteSet(Judge!Open(incidents))
    BY <1>3, IncidentAssumption, FS_Subset
  <2>2. /\ Cardinality(Judge!Open(incidents')) <= Cardinality(Judge!Open(incidents))
        /\ Cardinality(Judge!Open(incidents')) \in Nat /\ Cardinality(Judge!Open(incidents)) \in Nat
    BY <2>1, <1>3, FS_Subset, FS_CardinalityType
  <2> QED
    BY <2>2, IncidentAssumption DEF JudgeInv, IncidentsKept
<1> QED
  BY <1>1, <1>2, <1>4 DEF JudgeInv, IncidentsKept

(* The incidents before a batch, and no report yet. *)
LEMMA JudgeStart == Judge!Init => JudgeInv
<1> SUFFICES ASSUME Judge!Init
             PROVE  JudgeInv
  OBVIOUS
<1>1. IncidentsKept
  <2>1. Cardinality(Judge!Open(incidents)) <= OpenCap
    BY JudgeCardinality DEF Judge!Init
  <2> QED
    BY <2>1 DEF Judge!Init, Judge!Unknown, IncidentsKept, Statuses
<1>2. BatchKept
  BY DEF Judge!Init, Judge!NoBatch, BatchKept
<1> QED
  BY <1>1, <1>2 DEF JudgeInv

(* A step of the judge keeps the batch. *)
LEMMA BatchNext ==
  ASSUME JudgeInv, Judge!Next
  PROVE  BatchKept'
<1> USE DEF JudgeInv
<1>1. CASE \E i \in Incidents : Judge!RecordIncident(i) \/ Judge!MarkFixed(i)
  <2>1. UNCHANGED <<batch, summary>>
    BY <1>1 DEF Judge!RecordIncident, Judge!MarkFixed
  <2> QED
    BY <2>1 DEF BatchKept, RowFits
<1>2. CASE Judge!StartBatch
  <2>1. PICK questions \in Judge!OpenIncidents(incidents), files \in Batches :
          batch' = [phase |-> "judging", files |-> files, asked |-> questions, left |-> files,
                    rows |-> <<>>, skipped |-> {}]
    BY <1>2 DEF Judge!StartBatch, Judge!NoBatch
  <2>2. DOMAIN batch'.rows = {}
    BY <2>1
  <2> QED
    BY <2>1, <2>2 DEF BatchKept
<1>3. CASE Judge!WriteReport
  <2>1. /\ batch' = [batch EXCEPT !.phase = "written"] /\ batch.left = {}
        /\ summary'.judged = DOMAIN batch.rows /\ summary'.skipped = batch.skipped
        /\ summary'.unexplained = Judge!UnexplainedFailures(batch.rows)
    BY <1>3 DEF Judge!WriteReport
  <2>2. /\ batch'.files = batch.files /\ batch'.asked = batch.asked /\ batch'.left = batch.left
        /\ batch'.rows = batch.rows /\ batch'.skipped = batch.skipped
        /\ batch' = [phase |-> batch'.phase, files |-> batch'.files, asked |-> batch'.asked,
                left |-> batch'.left, rows |-> batch'.rows, skipped |-> batch'.skipped]
    BY <2>1 DEF BatchKept
  <2>3. \A f \in DOMAIN batch'.rows : RowFits(f)'
    BY <2>2 DEF BatchKept, RowFits
  <2> QED
    BY <2>1, <2>2, <2>3 DEF BatchKept
<1>4. ASSUME NEW f \in Judge!Files, Judge!SkipFile(f)
      PROVE  BatchKept'
  BY <1>4 DEF Judge!SkipFile, BatchKept, RowFits
<1>5. ASSUME NEW f \in Judge!Files, Judge!JudgeThrows(f)
      PROVE  BatchKept'
  BY <1>5 DEF Judge!JudgeThrows, BatchKept, RowFits
<1>6. ASSUME NEW f \in Judge!Files, NEW model, Judge!JudgeFile(f, model)
      PROVE  BatchKept'
  <2> DEFINE row == [outcome |-> Contents[f].outcome, score |-> Contents[f].score,
                     asked |-> batch.asked, model |-> model, matches |-> Judge!MatchesOf(f, model)]
  <2>1. /\ batch' = [batch EXCEPT !.left = batch.left \ {f}, !.rows = Judge!Extend(row, f, batch.rows)]
        /\ f \in batch.left /\ batch.phase = "judging"
    BY <1>6 DEF Judge!JudgeFile
  <2>2. /\ batch'.files = batch.files /\ batch'.asked = batch.asked /\ batch'.left = batch.left \ {f}
        /\ batch'.rows = Judge!Extend(row, f, batch.rows) /\ batch'.skipped = batch.skipped
        /\ batch'.phase = "judging"
        /\ batch' = [phase |-> batch'.phase, files |-> batch'.files, asked |-> batch'.asked,
                left |-> batch'.left, rows |-> batch'.rows, skipped |-> batch'.skipped]
    BY <2>1 DEF BatchKept
  <2>3. /\ DOMAIN batch'.rows = (DOMAIN batch.rows) \cup {f}
        /\ batch'.rows[f] = row
        /\ \A g \in DOMAIN batch.rows : g # f => batch'.rows[g] = batch.rows[g]
    BY <2>2 DEF Judge!Extend
  <2>4. \A g \in DOMAIN batch'.rows : RowFits(g)'
    <3>1. ASSUME NEW g \in DOMAIN batch.rows, g # f
          PROVE  RowFits(g)'
      BY <2>2, <2>3, <3>1 DEF BatchKept, RowFits
    <3>2. RowFits(f)'
      BY <2>2, <2>3, JudgeMatches DEF RowFits
    <3> QED
      BY <3>1, <3>2, <2>3
  <2> QED
    BY <2>1, <2>2, <2>3, <2>4 DEF BatchKept
<1> QED
  BY <1>1, <1>2, <1>3, <1>4, <1>5, <1>6 DEF Judge!Next

(* Every step keeps the invariant. *)
LEMMA JudgeNext == JudgeInv /\ Judge!Next => JudgeInv'
<1> SUFFICES ASSUME JudgeInv, Judge!Next
             PROVE  IncidentsKept'
  BY BatchNext DEF JudgeInv
<1>1. CASE UNCHANGED <<incidents, clock>>
  BY <1>1 DEF JudgeInv, IncidentsKept
<1>2. CASE \E i \in Incidents : Judge!RecordIncident(i) \/ Judge!MarkFixed(i)
  BY <1>2, RecordKeeps, FixedKeeps
<1> QED
  BY <1>1, <1>2 DEF Judge!Next, Judge!StartBatch, Judge!WriteReport, Judge!SkipFile,
                    Judge!JudgeThrows, Judge!JudgeFile

(* A step of another subject leaves the judge alone. *)
LEMMA JudgeStutters == JudgeInv /\ UNCHANGED triageVars => JudgeInv'
BY DEF JudgeInv, triageVars, IncidentsKept, BatchKept, RowFits

(* The invariant says what is promised of the incidents and of a report.   *)
LEMMA JudgePromise == JudgeInv => Judge!TriageAccounts
<1> SUFFICES ASSUME JudgeInv
             PROVE  Judge!TriageAccounts
  OBVIOUS
<1>1. Judge!RecentIncidentsStayOpen
  BY JudgeCardinality DEF JudgeInv, IncidentsKept, Judge!RecentIncidentsStayOpen
<1>2. Judge!JudgeAccounts
  <2> SUFFICES ASSUME batch.phase = "written"
               PROVE  /\ summary.judged \cup summary.skipped = batch.files
                      /\ summary.judged \cap summary.skipped = {}
                      /\ \A f, g \in summary.judged : batch.rows[f].asked = batch.rows[g].asked
                      /\ \A f \in summary.judged : Contents[f].outcome = "fail" \/ Contents[f].score < 50 =>
                            \/ f \in summary.unexplained
                            \/ batch.asked \cap Contents[f].rules # {}
                            \/ batch.asked \cap Contents[f].model # {} /\ batch.rows[f].model = "ok"
    BY DEF Judge!JudgeAccounts
  <2>1. /\ batch.left = {} /\ summary.judged = DOMAIN batch.rows
        /\ summary.skipped = batch.skipped
        /\ summary.unexplained = Judge!UnexplainedFailures(batch.rows)
        /\ batch.left \cup (DOMAIN batch.rows) \cup batch.skipped = batch.files
        /\ (DOMAIN batch.rows) \cap batch.skipped = {}
        /\ \A f \in DOMAIN batch.rows : RowFits(f)
    BY DEF JudgeInv, BatchKept
  <2>2. \A f, g \in summary.judged : batch.rows[f].asked = batch.rows[g].asked
    BY <2>1 DEF RowFits
  <2>3. ASSUME NEW f \in DOMAIN batch.rows, f \notin summary.unexplained,
               Contents[f].outcome = "fail" \/ Contents[f].score < 50
        PROVE  \/ batch.asked \cap Contents[f].rules # {}
               \/ batch.asked \cap Contents[f].model # {} /\ batch.rows[f].model = "ok"
    <3>1. batch.rows[f].matches.matched # {}
      BY <2>1, <2>3 DEF RowFits, Judge!UnexplainedFailures, Judge!Failed
    <3>2. batch.rows[f].matches.matched
            = batch.asked \cap (Contents[f].rules \cup (IF batch.rows[f].model = "ok"
                                                       THEN Contents[f].model ELSE {}))
      BY <2>1 DEF RowFits, Explained
    <3> QED
      BY <3>1, <3>2
  <2> QED
    BY <2>1, <2>2, <2>3
<1> QED
  BY <1>1, <1>2 DEF Judge!TriageAccounts

-----------------------------------------------------------------------------
(* The findings.                                                           *)

(* A run that was read left its trace, is listed as missing, or was lost   *)
(* by the harness with its trace; and what is written says the same.       *)
FindingsInv ==
    /\ diagnosis = [phase |-> diagnosis.phase, left |-> diagnosis.left, traces |-> diagnosis.traces,
                    missing |-> diagnosis.missing, findings |-> diagnosis.findings]
    /\ \A r \in (DOMAIN matrix) \ diagnosis.left :
          r \in diagnosis.traces \/ r \in diagnosis.missing \/ (matrix[r].error /\ ~matrix[r].traced)
    /\ diagnosis.phase = "written" =>
          /\ diagnosis.left = {} /\ DOMAIN diagnosis.findings \subseteq DOMAIN matrix
          /\ \A r \in DOMAIN diagnosis.findings :
                diagnosis.findings[r].slice = (r \in diagnosis.traces)

(* Every step of the command keeps the invariant. *)
LEMMA FindingsNext == FindingsInv /\ Findings!Next => FindingsInv'
<1> SUFFICES ASSUME FindingsInv, Findings!Next
             PROVE  FindingsInv'
  OBVIOUS
<1>1. CASE Findings!WriteFindings
  <2> DEFINE told == [r \in {x \in DOMAIN matrix : Findings!FailedRow(matrix[x])} |->
                         Findings!FindingForRun(matrix[r], r \in diagnosis.traces)]
  <2>1. /\ diagnosis' = [diagnosis EXCEPT !.phase = "written", !.findings = told]
        /\ diagnosis.left = {} /\ matrix' = matrix
    BY <1>1 DEF Findings!WriteFindings
  <2>2. /\ DOMAIN told \subseteq DOMAIN matrix
        /\ \A r \in DOMAIN told : told[r].slice = (r \in diagnosis.traces)
    BY DEF Findings!FindingForRun
  <2> HIDE DEF told
  <2>3. /\ diagnosis'.findings = told /\ diagnosis'.left = {} /\ diagnosis'.traces = diagnosis.traces
        /\ diagnosis'.missing = diagnosis.missing
        /\ diagnosis' = [phase |-> diagnosis'.phase, left |-> diagnosis'.left,
                         traces |-> diagnosis'.traces, missing |-> diagnosis'.missing,
                         findings |-> diagnosis'.findings]
    BY <2>1 DEF FindingsInv
  <2> QED
    BY <2>1, <2>2, <2>3 DEF FindingsInv
<1>2. ASSUME NEW r \in DOMAIN matrix, Findings!ReadTrace(r)
      PROVE  FindingsInv'
  <2>1. PICK here \in BOOLEAN, lost \in BOOLEAN :
          /\ here \/ lost \/ (matrix[r].error /\ ~matrix[r].traced)
          /\ diagnosis' = [diagnosis EXCEPT !.left = diagnosis.left \ {r},
                           !.traces  = IF here THEN diagnosis.traces \cup {r} ELSE diagnosis.traces,
                           !.missing = IF lost THEN diagnosis.missing \cup {r} ELSE diagnosis.missing]
          /\ diagnosis.phase = "reading" /\ UNCHANGED matrix
    BY <1>2 DEF Findings!ReadTrace
  <2> QED
    BY <2>1 DEF FindingsInv
<1>3. ASSUME NEW r \in DOMAIN matrix, NEW place, Findings!TraceMoves(r, place)
      PROVE  FindingsInv'
  BY <1>3 DEF FindingsInv, Findings!TraceMoves
<1> QED
  BY <1>1, <1>2, <1>3 DEF Findings!Next

(* In every behaviour of the job's parts a score follows what was          *)
(* measured: the worst window is the worst, and no better measurement      *)
(* costs anything; the batch judge accounts for every file, an incident is *)
(* not retired while an older one is asked about, and a finding without    *)
(* its trace says so (comfort.js, atlas-score.js, run-judge.js,            *)
(* incidents.js, diagnose).                                                *)
THEOREM ReportsTheorem == LabSpec => []ReportsFollowEvidence
<1> DEFINE Inv == /\ subject = "score" => ScoreInv
                  /\ subject = "judge" => JudgeInv
                  /\ subject = "findings" => FindingsInv
<1>1. LabInit => Inv
  BY ScoreStart, JudgeStart DEF LabInit, FindingsInv, Findings!Init
<1>2. Inv /\ [LabNext /\ UNCHANGED subject]_<<subject, labVars>> => Inv'
  <2>1. FindingsInv /\ UNCHANGED diagnosisVars => FindingsInv'
    BY DEF FindingsInv, diagnosisVars
  <2> QED
    BY <2>1, ScoreNext, ScoreStutters, JudgeNext, JudgeStutters, FindingsNext DEF LabNext, labVars
<1>3. Inv => ReportsFollowEvidence
  BY ScorePromise, JudgePromise DEF FindingsInv, Findings!MissingTracesStated, ReportsFollowEvidence
<1> QED
  BY <1>1, <1>2, <1>3, PTL DEF LabSpec

-----------------------------------------------------------------------------
(* The measurement of a page.                                              *)

PageLinks == DOMAIN HostOf
Harvest == Probe!extractAssetUrls
Chosen == Probe!urls

(* A URL was sent a request, after a lookup that lets it. *)
Admitted(u) == \E q \in asked : q.url = u /\ Probe!Passes(q.answer)

(* The assets so far are the first of those to measure; only one that may  *)
(* be asked has a size.                                                    *)
MeasuredInv ==
    /\ asset.n \in 1..(Len(Chosen) + 1)
    /\ asset.step \in {"lookup", "head", "get"}
    /\ sized \in Seq([url : PageLinks, bytes : Sizes \cup {-1, 0}])
    /\ Len(sized) = asset.n - 1
    /\ \A i \in 1..Len(sized) :
          /\ sized[i].url = Chosen[i]
          /\ sized[i].bytes # -1 => Admitted(sized[i].url)
    /\ asset.step \in {"head", "get"} => asset.n <= Len(Chosen) /\ Admitted(Chosen[asset.n])

ReportedInv ==
    /\ asset.n = Len(Chosen) + 1
    /\ report.count = Len(sized)
    /\ report.unknownBytes = Probe!estimateUnknown
    /\ report.truncated <=> Len(Harvest) > MaxAssets

PreflightInv ==
    /\ asset \in [n : Nat, step : {"lookup", "head", "get"}]
    /\ MeasuredInv
    /\ stage = "check" => asset.n = 1 /\ asset.step = "lookup"
    /\ stage = "reported" => ReportedInv

(* What extractAssetUrls returns is each URL of an http(s) link.           *)
LEMMA HarvestFits ==
  /\ Harvest \in Seq(PageLinks)
  /\ Probe!ToSet(Harvest) = {u \in Probe!ToSet(Mentions) : HostOf[u] # "none"}
<1> DEFINE L == Len(Mentions)
           Next(seen, u) == IF HostOf[u] = "none" \/ u \in Probe!ToSet(seen)
                            THEN seen ELSE Append(seen, u)
           Runs(g, k) == g = [n \in 0..k |-> IF n = 0 THEN <<>> ELSE Next(g[n - 1], Mentions[n])]
           S == {k \in Nat : \E g : Runs(g, k)}
<1>0. Mentions \in Seq(PageLinks) /\ L \in Nat /\ \A n \in 1..L : Mentions[n] \in PageLinks
  BY PreflightAssumption DEF PageLinks
<1>1. 0 \in S
  <2>1. \A n \in 0..0 : n = 0
    OBVIOUS
  <2>2. Runs([n \in 0..0 |-> <<>>], 0)
    BY <2>1
  <2> QED
    BY <2>2
<1>2. ASSUME NEW k \in S
      PROVE  k + 1 \in S
  <2>1. PICK g : Runs(g, k)
    BY <1>2
  <2> HIDE DEF Next
  <2> DEFINE h == [n \in 0..(k + 1) |-> IF n = k + 1 THEN Next(g[k], Mentions[k + 1]) ELSE g[n]]
  <2>2. \A n \in 0..(k + 1) : h[n] = IF n = 0 THEN <<>> ELSE Next(h[n - 1], Mentions[n])
    <3> TAKE n \in 0..(k + 1)
    <3>1. CASE n = k + 1
      BY <3>1
    <3>2. CASE n # k + 1
      <4>1. n \in 0..k /\ h[n] = g[n] /\ (n # 0 => h[n - 1] = g[n - 1])
        BY <3>2
      <4>2. g[n] = IF n = 0 THEN <<>> ELSE Next(g[n - 1], Mentions[n])
        BY <2>1, <4>1
      <4> QED
        BY <4>1, <4>2
    <3> QED
      BY <3>1, <3>2
  <2>3. Runs(h, k + 1)
    BY <2>2
  <2> HIDE DEF h, Runs
  <2>4. k + 1 \in Nat /\ \E f : Runs(f, k + 1)
    BY <2>3
  <2> QED
    BY <2>4
<1>3. S = Nat
  <2> HIDE DEF Runs
  <2>1. S \subseteq Nat
    OBVIOUS
  <2> HIDE DEF S
  <2> QED
    BY <1>1, <1>2, <2>1, SetInduction
<1> DEFINE after == CHOOSE g : Runs(g, L)
<1>4. Runs(after, L)
  <2>1. \E g : Runs(g, L)
    BY <1>0, <1>3
  <2> HIDE DEF Runs
  <2> QED
    BY ONLY <2>1
<1>5. Harvest = after[L]
  BY DEF Harvest, Probe!extractAssetUrls
<1> HIDE DEF Next, after
<1>6. after[0] = <<>> /\ \A n \in 1..L : after[n] = Next(after[n - 1], Mentions[n])
  BY <1>0, <1>4
<1> DEFINE Fits(k) == /\ after[k] \in Seq(PageLinks)
                      /\ \A u : u \in Probe!ToSet(after[k]) <=>
                                \E i \in 1..k : u = Mentions[i] /\ HostOf[u] # "none"
           T == {k \in Nat : k <= L => Fits(k)}
<1>7. 0 \in T
  <2>1. Probe!ToSet(<<>>) = {}
    BY DEF Probe!ToSet
  <2>2. \A i \in 1..0 : FALSE
    OBVIOUS
  <2>3. after[0] \in Seq(PageLinks) /\ Probe!ToSet(after[0]) = {}
    BY <1>6, <2>1
  <2>4. \A u : ~(u \in Probe!ToSet(after[0]))
    BY <2>3
  <2>5. Fits(0)
    BY <2>2, <2>3, <2>4
  <2> HIDE DEF Fits
  <2> QED
    BY <2>5
<1>8. ASSUME NEW k \in T
      PROVE  k + 1 \in T
  <2> SUFFICES ASSUME k + 1 <= L
               PROVE  Fits(k + 1)
    OBVIOUS
  <2>1. k \in Nat /\ Fits(k) /\ k + 1 \in 1..L /\ (k + 1) - 1 = k
    BY <1>0, <1>8
  <2>2. PICK seen : seen = after[k]
    OBVIOUS
  <2>3. PICK u : u = Mentions[k + 1]
    OBVIOUS
  <2>4. /\ u \in PageLinks /\ after[k + 1] = Next(seen, u)
        /\ seen \in Seq(PageLinks)
        /\ \A x : x \in Probe!ToSet(seen) <=> \E i \in 1..k : x = Mentions[i] /\ HostOf[x] # "none"
    BY <1>0, <1>6, <2>1, <2>2, <2>3
  <2>5. \A i \in 1..(k + 1) : i \in 1..k \/ i = k + 1
    BY <2>1
  <2>6. \A i \in 1..k : i \in 1..(k + 1)
    BY <2>1
  <2> HIDE DEF T
  <2>7. CASE HostOf[u] = "none" \/ u \in Probe!ToSet(seen)
    <3>1. Next(seen, u) = seen
      BY <2>7 DEF Next
    <3> QED
      BY <2>1, <2>3, <2>4, <2>5, <2>6, <2>7, <3>1
  <2>8. CASE ~(HostOf[u] = "none" \/ u \in Probe!ToSet(seen))
    <3>1. Next(seen, u) = Append(seen, u)
      BY <2>8 DEF Next
    <3>2. Append(seen, u) \in Seq(PageLinks)
      BY <2>4
    <3>3. Probe!ToSet(Append(seen, u)) = Probe!ToSet(seen) \cup {u}
      <4>1. /\ Len(seen) \in Nat /\ Len(Append(seen, u)) = Len(seen) + 1
            /\ \A i \in 1..Len(seen) : Append(seen, u)[i] = seen[i]
            /\ Append(seen, u)[Len(seen) + 1] = u
        BY <2>4
      <4> QED
        BY <4>1 DEF Probe!ToSet
    <3> QED
      BY <2>1, <2>3, <2>4, <2>5, <2>6, <2>8, <3>1, <3>2, <3>3
  <2> QED
    BY <2>7, <2>8
<1>9. Fits(L)
  <2>1. T \subseteq Nat
    OBVIOUS
  <2>2. T = Nat
    <3> HIDE DEF T
    <3> QED
      BY <1>7, <1>8, <2>1, SetInduction
  <2>3. L \in T /\ L <= L
    <3> HIDE DEF T
    <3> QED
      BY <1>0, <2>2
  <2> HIDE DEF Fits
  <2> QED
    BY <2>3
<1>10. \A u : u \in Probe!ToSet(Mentions) <=> \E i \in 1..L : u = Mentions[i]
  BY <1>0 DEF Probe!ToSet
<1> QED
  BY <1>5, <1>9, <1>10

(* Those to measure are the first of them. *)
LEMMA ChosenFits ==
  /\ Chosen \in Seq(PageLinks) /\ Len(Chosen) \in Nat
  /\ \A i \in 1..Len(Chosen) : Chosen[i] \in PageLinks
  /\ ~(Len(Harvest) > MaxAssets) => Chosen = Harvest
<1>1. Harvest \in Seq(PageLinks) /\ MaxAssets \in Nat /\ Len(Harvest) \in Nat
  BY HarvestFits, PreflightAssumption
<1> DEFINE k == IF Len(Harvest) < MaxAssets THEN Len(Harvest) ELSE MaxAssets
<1>2. Chosen = SubSeq(Harvest, 1, k)
  BY DEF Chosen, Harvest, Probe!urls
<1>3. k \in 0..Len(Harvest) /\ (~(Len(Harvest) > MaxAssets) => k = Len(Harvest))
  BY <1>1
<1> HIDE DEF k
<1>4. /\ Chosen \in Seq(PageLinks) /\ Len(Chosen) = k
      /\ \A i \in 1..k : Chosen[i] = Harvest[i]
  BY <1>1, <1>2, <1>3
<1>5. k = Len(Harvest) => Chosen = Harvest
  BY <1>1, <1>4, SeqEqual
<1> QED
  BY <1>3, <1>4, <1>5

(* At first no asset was measured. *)
LEMMA PreflightStart ==
  ASSUME Probe!Init
  PROVE  PreflightInv
<1>1. asset = [n |-> 1, step |-> "lookup"] /\ sized = <<>> /\ stage = "check"
  BY DEF Probe!Init
<1>2. /\ asset.n = 1 /\ asset.step = "lookup" /\ Len(sized) = 0 /\ \A i \in 1..Len(sized) : FALSE
      /\ sized \in Seq([url : PageLinks, bytes : Sizes \cup {-1, 0}])
  BY <1>1
<1>3. MeasuredInv
  BY <1>2, ChosenFits DEF MeasuredInv
<1> QED
  BY <1>1, <1>2, <1>3 DEF PreflightInv

(* An asset is recorded with a size only when it may be asked. *)
LEMMA RecordsFit ==
  ASSUME PreflightInv, asset.n <= Len(Chosen), NEW b \in Sizes \cup {-1, 0}, Probe!Records(b),
         asked' = asked, b # -1 => Admitted(Chosen[asset.n])
  PROVE  asset' \in [n : Nat, step : {"lookup", "head", "get"}] /\ MeasuredInv'
<1> DEFINE Sizings == [url : PageLinks, bytes : Sizes \cup {-1, 0}]
           n == asset.n
<1>1. /\ n \in 1..Len(Chosen) /\ sized \in Seq(Sizings) /\ Len(sized) = n - 1
      /\ Len(Chosen) \in Nat /\ Chosen[n] \in PageLinks
  BY ChosenFits DEF PreflightInv, MeasuredInv
<1>2. PICK r \in Sizings : r.url = Chosen[n] /\ r.bytes = b /\ sized' = Append(sized, r)
  <2>1. [url |-> Chosen[n], bytes |-> b] \in Sizings
    BY <1>1
  <2>2. sized' = Append(sized, [url |-> Chosen[n], bytes |-> b])
    BY DEF Probe!Records, Probe!Sized, Chosen
  <2> QED
    BY <2>1, <2>2
<1>3. asset' = [n |-> n + 1, step |-> "lookup"]
  BY DEF Probe!Records
<1> HIDE DEF n
<1>4. asset'.n = n + 1 /\ asset'.step = "lookup" /\ n + 1 \in Nat
  BY <1>1, <1>3
<1>5. asset' \in [n : Nat, step : {"lookup", "head", "get"}]
  BY <1>3, <1>4
<1>6. /\ sized' \in Seq(Sizings) /\ Len(sized') = n /\ sized'[n] = r
      /\ \A i \in 1..(n - 1) : sized'[i] = sized[i]
  BY <1>1, <1>2
<1>7. ASSUME NEW i \in 1..Len(sized')
      PROVE  /\ sized'[i].url = Chosen[i]
             /\ sized'[i].bytes # -1 => \E q \in asked' : q.url = sized'[i].url /\ Probe!Passes(q.answer)
  <2>1. CASE i = n
    BY <1>2, <1>6, <2>1 DEF Admitted, n
  <2>2. CASE i # n
    <3>1. i \in 1..Len(sized) /\ sized'[i] = sized[i]
      BY <1>1, <1>6, <2>2
    <3> QED
      BY <3>1 DEF PreflightInv, MeasuredInv, Admitted
  <2> QED
    BY <2>1, <2>2
<1>8. Chosen' = Chosen
  BY DEF Chosen, Probe!urls, Probe!extractAssetUrls
<1>9. \A i \in 1..Len(sized') :
         /\ sized'[i].url = Chosen'[i]
         /\ sized'[i].bytes # -1 => \E q \in asked' : q.url = sized'[i].url /\ Probe!Passes(q.answer)'
  BY <1>7, <1>8 DEF Probe!Passes
<1>10. asset'.n \in 1..(Len(Chosen') + 1) /\ Len(sized') = asset'.n - 1
  BY <1>1, <1>4, <1>6, <1>8
<1> QED
  BY <1>4, <1>5, <1>6, <1>9, <1>10 DEF MeasuredInv, Admitted

(* What was admitted stays admitted, and what is measured is not undone. *)
LEMMA MeasuredKept ==
  ASSUME PreflightInv, UNCHANGED <<asset, sized>>, asked \subseteq asked'
  PROVE  asset' \in [n : Nat, step : {"lookup", "head", "get"}] /\ MeasuredInv'
<1>1. Chosen' = Chosen
  BY DEF Chosen, Probe!urls, Probe!extractAssetUrls
<1>2. \A u : Admitted(u) => Admitted(u)'
  BY DEF Admitted, Probe!Passes
<1> QED
  BY <1>1, <1>2 DEF PreflightInv, MeasuredInv

(* Before the measuring, assets are neither asked nor sized. *)
LEMMA TargetsKeepPreflight ==
  ASSUME PreflightInv, Probe!CheckTarget \/ Probe!FetchPage \/ Probe!RecheckTarget
  PROVE  PreflightInv'
<1>1. CASE Probe!Fail /\ stage # "reported"
  BY <1>1, MeasuredKept DEF Probe!Fail, PreflightInv
<1>2. CASE /\ stage' \in {"fetch", "recheck", "measure"} /\ UNCHANGED <<asset, sized>>
           /\ asked \subseteq asked'
  BY <1>2, MeasuredKept DEF PreflightInv
<1>3. CASE stage = "check" /\ stage' = "fetch" /\ UNCHANGED <<asset, sized>>
  <2>1. /\ asset.n = 1 /\ asset.step = "lookup" /\ Len(sized) = 0
        /\ sized \in Seq([url : PageLinks, bytes : Sizes \cup {-1, 0}])
    BY <1>3 DEF PreflightInv, MeasuredInv
  <2>2. /\ asset' = asset /\ asset'.n = 1 /\ asset'.step = "lookup" /\ Len(sized') = 0
        /\ sized' = sized /\ \A i \in 1..Len(sized') : FALSE
    BY <1>3, <2>1
  <2>3. Chosen' = Chosen /\ Len(Chosen) \in Nat
    BY ChosenFits DEF Chosen, Probe!urls, Probe!extractAssetUrls
  <2>4. MeasuredInv'
    BY <2>1, <2>2, <2>3 DEF MeasuredInv
  <2> QED
    BY <1>3, <2>2, <2>4 DEF PreflightInv
<1> QED
  BY <1>1, <1>2, <1>3 DEF Probe!CheckTarget, Probe!FetchPage, Probe!RecheckTarget, Probe!Fail

(* One answer about an asset either moves to the next question or records. *)
LEMMA LookupKeepsPreflight ==
  ASSUME PreflightInv, Probe!LookupAsset
  PROVE  PreflightInv'
<1>1. /\ stage = "measure" /\ stage' = stage /\ asset.n <= Len(Chosen) /\ asset.step = "lookup"
  BY DEF Probe!LookupAsset, Probe!Measuring, Chosen
<1>2. PICK answer \in {"public", "private", "failed", "unasked"} :
        \/ /\ Probe!Passes(answer)
           /\ asset' = [asset EXCEPT !.step = "head"]
           /\ asked' = asked \cup {[url |-> Chosen[asset.n], answer |-> answer]}
           /\ UNCHANGED sized
        \/ /\ Probe!Records(-1)
           /\ UNCHANGED asked
  BY DEF Probe!LookupAsset, Probe!Answers, Probe!Unknown, Chosen
<1>3. CASE Probe!Records(-1) /\ UNCHANGED asked
  <2>1. -1 \in Sizes \cup {-1, 0}
    OBVIOUS
  <2> QED
    BY <1>1, <1>3, <2>1, RecordsFit DEF PreflightInv
<1>4. CASE /\ Probe!Passes(answer)
           /\ asset' = [asset EXCEPT !.step = "head"]
           /\ asked' = asked \cup {[url |-> Chosen[asset.n], answer |-> answer]}
           /\ UNCHANGED sized
  <2>1. /\ asset \in [n : Nat, step : {"lookup", "head", "get"}] /\ MeasuredInv
    BY DEF PreflightInv
  <2>2. /\ asset' \in [n : Nat, step : {"lookup", "head", "get"}] /\ asset'.n = asset.n
        /\ asset'.step = "head" /\ sized' = sized
    BY <1>4, <2>1
  <2>3. Chosen' = Chosen
    BY DEF Chosen, Probe!urls, Probe!extractAssetUrls
  <2>4. /\ \A u : Admitted(u) => Admitted(u)'
        /\ Admitted(Chosen[asset.n])'
    <3>1. PICK q : q = [url |-> Chosen[asset.n], answer |-> answer]
      OBVIOUS
    <3>2. q.url = Chosen[asset.n] /\ q.answer = answer /\ q \in asked' /\ asked \subseteq asked'
      BY <1>4, <3>1
    <3> QED
      BY <1>4, <2>2, <2>3, <3>2 DEF Admitted, Probe!Passes
  <2>5. MeasuredInv'
    BY <1>1, <2>1, <2>2, <2>3, <2>4 DEF MeasuredInv
  <2> QED
    BY <1>1, <2>2, <2>5 DEF PreflightInv
<1> QED
  BY <1>2, <1>3, <1>4

(* A HEAD and a ranged byte go to an asset that may be asked. *)
LEMMA SizesKeepPreflight ==
  ASSUME PreflightInv, Probe!HeadAsset \/ Probe!RangedByte
  PROVE  PreflightInv'
<1>1. /\ stage = "measure" /\ stage' = stage /\ asset.n <= Len(Chosen) /\ asset.step \in {"head", "get"}
      /\ asked' = asked
  BY DEF Probe!HeadAsset, Probe!RangedByte, Probe!Measuring, Chosen
<1>2. /\ asset \in [n : Nat, step : {"lookup", "head", "get"}] /\ MeasuredInv
      /\ Admitted(Chosen[asset.n])
  BY <1>1 DEF PreflightInv, MeasuredInv
<1>3. ASSUME NEW b \in Sizes \cup {-1, 0}, Probe!Records(b)
      PROVE  PreflightInv'
  BY <1>1, <1>2, <1>3, RecordsFit DEF PreflightInv
<1>4. CASE asset' = [asset EXCEPT !.step = "get"] /\ sized' = sized
  <2>1. /\ asset' \in [n : Nat, step : {"lookup", "head", "get"}] /\ asset'.n = asset.n
        /\ asset'.step = "get"
    BY <1>2, <1>4
  <2>2. Chosen' = Chosen
    BY DEF Chosen, Probe!urls, Probe!extractAssetUrls
  <2>3. \A u : Admitted(u) => Admitted(u)'
    BY <1>1 DEF Admitted, Probe!Passes
  <2>4. MeasuredInv'
    BY <1>1, <1>2, <1>4, <2>1, <2>2, <2>3 DEF MeasuredInv
  <2> QED
    BY <1>1, <2>1, <2>4 DEF PreflightInv
<1>5. \/ \E b \in Sizes \cup {-1, 0} : Probe!Records(b)
      \/ asset' = [asset EXCEPT !.step = "get"] /\ sized' = sized
  <2>1. \/ \E b \in Sizes : Probe!Records(b)
        \/ Probe!Records(0) \/ Probe!Records(-1)
        \/ asset' = [asset EXCEPT !.step = "get"] /\ sized' = sized
    BY DEF Probe!HeadAsset, Probe!RangedByte, Probe!Unknown
  <2> HIDE DEF Probe!Records
  <2>2. -1 \in Sizes \cup {-1, 0} /\ 0 \in Sizes \cup {-1, 0}
    OBVIOUS
  <2> QED
    BY <2>1, <2>2
<1> QED
  BY <1>3, <1>4, <1>5

(* The report is of the assets that were measured, all of them. *)
LEMMA ReportKeepsPreflight ==
  ASSUME PreflightInv, Probe!Report
  PROVE  PreflightInv'
<1>1. /\ stage' = "reported" /\ asset.n > Len(Chosen) /\ UNCHANGED <<asset, sized, asked>>
      /\ report'.count = Len(sized) /\ report'.unknownBytes = Probe!estimateUnknown
      /\ report'.truncated = (Len(Harvest) > MaxAssets)
  BY DEF Probe!Report, Chosen, Harvest
<1>2. asset' \in [n : Nat, step : {"lookup", "head", "get"}] /\ MeasuredInv'
  BY <1>1, MeasuredKept
<1>3. Chosen' = Chosen /\ Harvest' = Harvest /\ Probe!estimateUnknown' = Probe!estimateUnknown
  BY <1>1 DEF Chosen, Harvest, Probe!urls, Probe!extractAssetUrls, Probe!estimateUnknown
<1>4. asset.n = Len(Chosen) + 1
  BY <1>1, ChosenFits DEF PreflightInv, MeasuredInv
<1>5. ReportedInv'
  BY <1>1, <1>3, <1>4 DEF ReportedInv
<1> QED
  BY <1>1, <1>2, <1>5 DEF PreflightInv

(* Every step of the measurement keeps the invariant. *)
LEMMA PreflightNext ==
  ASSUME PreflightInv, Probe!Next
  PROVE  PreflightInv'
BY TargetsKeepPreflight, LookupKeepsPreflight, SizesKeepPreflight, ReportKeepsPreflight DEF Probe!Next

(* A step that changes nothing of the measurement keeps it, too. *)
LEMMA PreflightStutters ==
  ASSUME PreflightInv, UNCHANGED preflightVars
  PROVE  PreflightInv'
<1>1. /\ UNCHANGED <<stage, visited, asset, sized, asked, stated, report>>
  BY DEF preflightVars
<1>2. Chosen' = Chosen /\ Harvest' = Harvest /\ Probe!estimateUnknown' = Probe!estimateUnknown
  BY <1>1 DEF Chosen, Harvest, Probe!urls, Probe!extractAssetUrls, Probe!estimateUnknown
<1>3. asset' \in [n : Nat, step : {"lookup", "head", "get"}] /\ MeasuredInv'
  BY <1>1, MeasuredKept
<1> QED
  BY <1>1, <1>2, <1>3 DEF PreflightInv, ReportedInv

(* The estimate of what is unknown is nothing only when nothing is. *)
LEMMA EstimateCounts ==
  ASSUME sized \in Seq([url : PageLinks, bytes : Sizes \cup {-1, 0}])
  PROVE  /\ Probe!estimateUnknown \in Nat
         /\ Probe!estimateUnknown > 0 <=> \E i \in 1..Len(sized) : sized[i].bytes = -1
<1> DEFINE U == {i \in 1..Len(sized) : sized[i].bytes = -1}
           c == Cardinality(U)
<1>1. Len(sized) \in Nat
  OBVIOUS
<1>2. IsFiniteSet(U)
  <2>0. 1 \in Int /\ Len(sized) \in Int
    BY <1>1
  <2>1. IsFiniteSet(1..Len(sized)) /\ U \subseteq 1..Len(sized)
    BY <2>0, FS_Interval
  <2> QED
    BY <2>1, FS_Subset
<1>3. c \in Nat /\ (c = 0 <=> U = {})
  BY <1>2, FS_CardinalityType, FS_EmptySet
<1>4. Probe!estimateUnknown = c * NominalMass
  BY DEF Probe!estimateUnknown, Probe!Unknown, Probe!Cardinality, Cardinality, Probe!IsFiniteSet,
         IsFiniteSet
<1>5. NominalMass \in Nat \ {0}
  BY PreflightAssumption
<1>6. U = {} <=> ~\E i \in 1..Len(sized) : sized[i].bytes = -1
  OBVIOUS
<1> HIDE DEF U, c
<1>7. c * NominalMass \in Nat /\ (c * NominalMass > 0 <=> c # 0)
  BY <1>3, <1>5
<1> QED
  BY <1>3, <1>4, <1>6, <1>7

(* A report that does not own to being truncated has every asset. *)
LEMMA PreflightPromise ==
  ASSUME PreflightInv
  PROVE  Probe!PreflightAccountsForPage
<1> SUFFICES ASSUME stage = "reported"
             PROVE  /\ ~report.truncated =>
                          {a.url : a \in Probe!ToSet(sized)} = {u \in Probe!ToSet(Mentions) : HostOf[u] # "none"}
                    /\ report.count = Len(Chosen)
                    /\ \A i \in 1..Len(sized) : sized[i].url = Chosen[i]
                    /\ \A a \in Probe!ToSet(sized) : ~Admitted(a.url) => a.bytes = -1
                    /\ report.unknownBytes > 0 <=> \E a \in Probe!ToSet(sized) : a.bytes = -1
  BY DEF Probe!PreflightAccountsForPage, Chosen, Admitted, Probe!Unknown
<1>1. /\ MeasuredInv /\ ReportedInv /\ Chosen \in Seq(PageLinks) /\ Len(Chosen) \in Nat
      /\ Len(sized) = Len(Chosen)
  BY ChosenFits DEF PreflightInv, MeasuredInv, ReportedInv
<1>2. \A a : a \in Probe!ToSet(sized) <=> \E i \in 1..Len(sized) : a = sized[i]
  BY <1>1 DEF Probe!ToSet, MeasuredInv
<1>3. ASSUME ~report.truncated
      PROVE  {a.url : a \in Probe!ToSet(sized)} = {u \in Probe!ToSet(Mentions) : HostOf[u] # "none"}
  <2>1. Chosen = Harvest
    BY <1>1, <1>3, ChosenFits DEF ReportedInv
  <2>2. \A u : u \in Probe!ToSet(Harvest) <=> \E i \in 1..Len(sized) : u = Harvest[i]
    BY <1>1, <2>1 DEF Probe!ToSet
  <2>3. \A i \in 1..Len(sized) : sized[i].url = Harvest[i]
    BY <1>1, <2>1 DEF MeasuredInv
  <2>4. {a.url : a \in Probe!ToSet(sized)} = Probe!ToSet(Harvest)
    BY <1>2, <2>2, <2>3
  <2> QED
    BY <2>4, HarvestFits
<1>4. report.unknownBytes > 0 <=> \E a \in Probe!ToSet(sized) : a.bytes = -1
  <2>1. report.unknownBytes > 0 <=> \E i \in 1..Len(sized) : sized[i].bytes = -1
    BY <1>1, EstimateCounts DEF MeasuredInv, ReportedInv
  <2> QED
    BY <1>2, <2>1
<1> QED
  BY <1>1, <1>2, <1>3, <1>4 DEF MeasuredInv, ReportedInv

(* A report that does not own to being truncated counts every asset of the *)
(* page once, and one that may not be asked as unknown.                    *)
THEOREM PreflightTheorem == LabSpec => []PreflightAccountsForPage
<1> DEFINE Inv == subject = "preflight" => PreflightInv
<1>1. LabInit => Inv
  BY PreflightStart DEF LabInit
<1>2. Inv /\ [LabNext /\ UNCHANGED subject]_<<subject, labVars>> => Inv'
  BY PreflightNext, PreflightStutters DEF LabNext, labVars
<1>3. Inv => PreflightAccountsForPage
  BY PreflightPromise DEF PreflightAccountsForPage
<1> QED
  BY <1>1, <1>2, <1>3, PTL DEF LabSpec

-----------------------------------------------------------------------------
(* The egress proxy: its invariant has its types. *)
LEMMA EgressTypes == EgressInv => Egress!TypeOK
<1> SUFFICES ASSUME EgressInv
             PROVE  Egress!TypeOK
  OBVIOUS
<1>1. Egress!Cardinality(Browsers) = Cardinality(Browsers)
  BY EgressCardinality
<1> QED
  BY <1>1 DEF EgressInv, EgressTyped, Upstreams, ClientStates, Egress!TypeOK

-----------------------------------------------------------------------------
(* The decisions: the mode and the kind of a request never change. *)

KindsKept ==
    /\ mode \in {"live", "fixture", "rules"}
    /\ \A r \in Requests : request[r].kind \in KindsOf[r]

(* The invariant has the types of the rest. *)
LEMMA DecisionTypes == DecisionInv /\ KindsKept => Engines!TypeOK
<1> SUFFICES ASSUME DecisionInv, KindsKept
             PROVE  Engines!TypeOK
  OBVIOUS
<1>1. \A r \in Requests : /\ request[r].state \in {"none", "waiting", "answered"}
                          /\ request[r].overridden \in BOOLEAN
                          /\ request[r].heard \in {"nothing", "failure", "weightless", "answer"}
  BY DEF DecisionInv, RequestRecord
<1> QED
  BY <1>1 DEF DecisionInv, KindsKept, StatsTyped, Engines!TypeOK

(* A request has one of its kinds at first. *)
LEMMA KindsStart == Engines!Init => KindsKept
BY DEF Engines!Init, KindsKept

(* No answer changes what was asked. *)
LEMMA KindsStep == DecisionInv /\ KindsKept /\ Engines!Next => KindsKept'
<1> SUFFICES ASSUME DecisionInv, KindsKept, Engines!Next
             PROVE  KindsKept'
  OBVIOUS
<1>1. request \in [Requests -> RequestRecord]
  BY DEF DecisionInv
<1>2. \A r, s \in Requests : \A answer, overridden, heard :
         Engines!Serve(r, answer, overridden, heard) => request'[s].kind = request[s].kind
  BY <1>1 DEF Engines!Serve, RequestRecord
<1>3. PICK r \in Requests : Engines!Ask(r) \/ Engines!PrimaryFails(r) \/ Engines!PrimaryAnswers(r)
  BY DEF Engines!Next
<1>4. ASSUME Engines!Ask(r)
      PROVE  mode' = mode /\ \A s \in Requests : request'[s].kind = request[s].kind
  <2>1. mode' = mode
    BY <1>4 DEF Engines!Ask
  <2>2. PICK safe \in Engines!RuleAnswers(request[r].kind, request[r].cap) :
           request' = [request EXCEPT ![r].safe = safe,
                          ![r].state = IF mode = "rules" THEN "answered" ELSE "waiting",
                          ![r].served = IF mode = "rules" THEN safe ELSE Engines!NoAnswer]
    BY <1>4 DEF Engines!Ask
  <2> QED
    BY <1>1, <2>1, <2>2 DEF RequestRecord
<1>5. ASSUME Engines!PrimaryFails(r)
      PROVE  mode' = mode /\ \A s \in Requests : request'[s].kind = request[s].kind
  BY <1>2, <1>5 DEF Engines!PrimaryFails
<1>6. ASSUME Engines!PrimaryAnswers(r)
      PROVE  mode' = mode /\ \A s \in Requests : request'[s].kind = request[s].kind
  <2>1. mode' = mode /\ \E answer, overridden, heard : Engines!Serve(r, answer, overridden, heard)
    BY <1>6, Zenon DEF Engines!PrimaryAnswers
  <2> QED
    BY <1>2, <2>1
<1> QED
  BY <1>3, <1>4, <1>5, <1>6 DEF KindsKept

-----------------------------------------------------------------------------
(* The judge: a batch is one of those there are, and time is bounded. *)

BatchTyped ==
    /\ clock \in 0..LastSeen
    /\ batch.phase \in {"idle", "judging", "written", "rejected"}
    /\ batch.files \subseteq Judge!Files

(* The invariant has the types of the rest. *)
LEMMA JudgeTypes == JudgeInv /\ BatchTyped => Judge!TypeOK
<1> SUFFICES ASSUME JudgeInv, BatchTyped
             PROVE  Judge!TypeOK
  OBVIOUS
<1>1. \A i \in Incidents : incidents[i] \in [status : Statuses, seen : 0..LastSeen]
  <2> TAKE i \in Incidents
  <2>1. incidents[i] \in [status : Statuses, seen : Nat] /\ incidents[i].seen <= clock
    BY DEF JudgeInv, IncidentsKept
  <2>2. clock \in 0..LastSeen
    BY DEF BatchTyped
  <2>3. incidents[i].seen \in 0..LastSeen
    BY <2>1, <2>2, IncidentAssumption
  <2> QED
    BY <2>1, <2>3
<1>2. incidents \in [Incidents -> [status : Statuses, seen : 0..LastSeen]]
  BY <1>1 DEF JudgeInv, IncidentsKept
<1> QED
  BY <1>2 DEF Statuses, JudgeInv, BatchKept, BatchTyped, Judge!TypeOK

(* There is no batch at first. *)
LEMMA BatchStart == Judge!Init => BatchTyped
BY IncidentAssumption DEF Judge!Init, Judge!NoBatch, BatchTyped

(* A batch stays with its files, and the clock within its bound. *)
LEMMA BatchStep == JudgeInv /\ BatchTyped /\ Judge!Next => BatchTyped'
<1> SUFFICES ASSUME JudgeInv, BatchTyped, Judge!Next
             PROVE  BatchTyped'
  OBVIOUS
<1>1. batch = [phase |-> batch.phase, files |-> batch.files, asked |-> batch.asked,
                left |-> batch.left, rows |-> batch.rows, skipped |-> batch.skipped]
  BY DEF JudgeInv, BatchKept
<1>2. ASSUME NEW i \in Incidents, Judge!RecordIncident(i) \/ Judge!MarkFixed(i)
      PROVE  BatchTyped'
  <2>1. batch' = batch /\ (clock' = clock \/ (clock < LastSeen /\ clock' = clock + 1))
    BY <1>2 DEF Judge!RecordIncident, Judge!MarkFixed
  <2> QED
    BY <2>1, IncidentAssumption DEF BatchTyped
<1>3. ASSUME Judge!StartBatch
      PROVE  BatchTyped'
  <2>1. PICK about \in Judge!OpenIncidents(incidents), files \in Batches :
           /\ batch' = [Judge!NoBatch EXCEPT !.phase = "judging", !.files = files, !.asked = about,
                                             !.left = files]
           /\ clock' = clock
    BY <1>3 DEF Judge!StartBatch
  <2>2. batch'.phase = "judging" /\ batch'.files = files /\ files \subseteq UNION Batches
    BY <2>1 DEF Judge!NoBatch
  <2> QED
    BY <2>1, <2>2 DEF BatchTyped, Judge!Files
<1>4. ASSUME NEW f \in Judge!Files, Judge!SkipFile(f) \/ Judge!JudgeThrows(f)
      PROVE  BatchTyped'
  BY <1>1, <1>4 DEF BatchTyped, Judge!SkipFile, Judge!JudgeThrows
<1>5. ASSUME NEW f \in Judge!Files, NEW model, Judge!JudgeFile(f, model)
      PROVE  BatchTyped'
  <2>1. PICK still, rows : batch' = [batch EXCEPT !.left = still, !.rows = rows]
    BY <1>5 DEF Judge!JudgeFile
  <2>2. clock' = clock
    BY <1>5 DEF Judge!JudgeFile
  <2> QED
    BY <1>1, <2>1, <2>2 DEF BatchTyped
<1>6. ASSUME Judge!WriteReport
      PROVE  BatchTyped'
  <2>1. batch' = [batch EXCEPT !.phase = "written"] /\ clock' = clock
    BY <1>6 DEF Judge!WriteReport
  <2> QED
    BY <1>1, <2>1 DEF BatchTyped
<1> QED
  BY <1>2, <1>3, <1>4, <1>5, <1>6 DEF Judge!Next

-----------------------------------------------------------------------------
(* The findings: the report that is diagnosed does not change, and what is *)
(* read, missing or told of is of its runs.                                *)

(* The report is read from its start. *)
LEMMA FindingsStart == Findings!Init => Findings!TypeOK
BY DEF Findings!Init, Findings!TypeOK

(* A trace that is read or missing is of a run of the report. *)
LEMMA FindingsStep == FindingsInv /\ Findings!TypeOK /\ Findings!Next => Findings!TypeOK'
<1> SUFFICES ASSUME FindingsInv, Findings!TypeOK, Findings!Next
             PROVE  Findings!TypeOK'
  OBVIOUS
<1>1. diagnosis = [phase |-> diagnosis.phase, left |-> diagnosis.left, traces |-> diagnosis.traces,
                    missing |-> diagnosis.missing, findings |-> diagnosis.findings]
  BY DEF FindingsInv
<1>2. ASSUME Findings!WriteFindings
      PROVE  Findings!TypeOK'
  <2> DEFINE told == [r \in {x \in DOMAIN matrix : Findings!FailedRow(matrix[x])} |->
                         Findings!FindingForRun(matrix[r], r \in diagnosis.traces)]
  <2>1. /\ diagnosis' = [diagnosis EXCEPT !.phase = "written", !.findings = told]
        /\ matrix' = matrix /\ bundle' = bundle
    BY <1>2 DEF Findings!WriteFindings
  <2>2. DOMAIN told \subseteq DOMAIN matrix
    OBVIOUS
  <2> HIDE DEF told
  <2> QED
    BY <1>1, <2>1, <2>2 DEF Findings!TypeOK
<1>3. ASSUME NEW r \in DOMAIN matrix, Findings!ReadTrace(r)
      PROVE  Findings!TypeOK'
  <2>1. PICK here \in BOOLEAN, lost \in BOOLEAN :
          /\ diagnosis' = [diagnosis EXCEPT !.left = diagnosis.left \ {r},
                           !.traces  = IF here THEN diagnosis.traces \cup {r} ELSE diagnosis.traces,
                           !.missing = IF lost THEN diagnosis.missing \cup {r} ELSE diagnosis.missing]
          /\ matrix' = matrix /\ bundle' = bundle
    BY <1>3 DEF Findings!ReadTrace
  <2> QED
    BY <1>1, <2>1 DEF Findings!TypeOK
<1>4. ASSUME NEW r \in DOMAIN matrix, NEW place \in {"copied", "gone"}, Findings!TraceMoves(r, place)
      PROVE  Findings!TypeOK'
  BY <1>4 DEF Findings!TypeOK, Findings!TraceMoves
<1> QED
  BY <1>2, <1>3, <1>4 DEF Findings!Next

-----------------------------------------------------------------------------
(* The score: a grade is at most ten thousand, or none, and so is a mean.  *)

(* The best grade. *)
Best == 10000

(* The best grade is a number. *)
LEMMA BestFits == Best \in Nat
BY DEF Best

Grades == (0..Best) \cup {NoOne}

(* No ratio is graded better than best. *)
LEMMA CurveBounded == \A r \in Nat : Score!gradeRatio(r) \in 0..Best
<1> TAKE r \in Nat
<1>1. 0 \in Nat /\ 0 <= r
  OBVIOUS
<1>2. Score!gradeRatio(0) = Best
  BY DEF Score!gradeRatio, Best
<1>3. /\ Score!gradeRatio(r) \in Nat
      /\ Score!gradeRatio(r) <= Score!gradeRatio(0)
  BY <1>1, GradeFalls
<1> QED
  BY <1>2, <1>3, BestFits

(* Nor is a measurement over its budget. *)
LEMMA RatioBounded ==
  ASSUME NEW x \in Nat, NEW d \in Nat \ {0}
  PROVE  Score!gradeRatio(Score!Ratio(x, d)) \in 0..Best
<1>1. x * 100 \in Nat /\ x * 100 <= x * 100
  OBVIOUS
<1>2. Score!Ratio(x, d) \in Nat
  BY <1>1, DivGrows DEF Score!Ratio
<1> QED
  BY <1>2, CurveBounded

(* What was not measured has no grade. *)
LEMMA GradedBounded ==
  ASSUME NEW x \in Nat \cup {NoOne}, NEW d \in Nat \ {0}
  PROVE  (IF Score!Measured(x) THEN Score!gradeRatio(Score!Ratio(x, d)) ELSE NoOne) \in Grades
<1>1. CASE Score!Measured(x)
  <2>1. x \in Nat
    BY <1>1 DEF Score!Measured
  <2> QED
    BY <1>1, <2>1, RatioBounded DEF Grades
<1> QED
  BY <1>1 DEF Grades

(* A sum of numbers, each at most so many times another one. *)
LEMMA SumBounded ==
  ASSUME NEW m \in Nat, NEW s, NEW t, NEW n \in Nat, Len(s) = n, Len(t) = n,
         \A i \in 1..n : s[i] \in Nat /\ t[i] \in Nat /\ s[i] <= t[i] * m
  PROVE  Score!TotalOf(s) <= Score!TotalOf(t) * m
<1>1. PICK g : g[0] = 0 /\ (\A k \in 1..n : g[k] = g[k - 1] + s[k]) /\ Score!TotalOf(s) = g[n]
  BY SumRuns
<1>2. PICK h : h[0] = 0 /\ (\A k \in 1..n : h[k] = h[k - 1] + t[k]) /\ Score!TotalOf(t) = h[n]
  BY SumRuns
<1> DEFINE T == {k \in Nat : k <= n => g[k] \in Nat /\ h[k] \in Nat /\ g[k] <= h[k] * m}
<1>3. 0 \in T
  BY <1>1, <1>2
<1>4. ASSUME NEW k \in T
      PROVE  k + 1 \in T
  <2> SUFFICES ASSUME k + 1 <= n
               PROVE  g[k + 1] \in Nat /\ h[k + 1] \in Nat /\ g[k + 1] <= h[k + 1] * m
    OBVIOUS
  <2>1. /\ k \in Nat /\ k + 1 \in 1..n /\ (k + 1) - 1 = k
        /\ g[k] \in Nat /\ h[k] \in Nat /\ g[k] <= h[k] * m
    BY <1>4
  <2>2. g[k + 1] = g[k] + s[k + 1] /\ h[k + 1] = h[k] + t[k + 1]
    BY <1>1, <1>2, <2>1
  <2>3. s[k + 1] \in Nat /\ t[k + 1] \in Nat /\ s[k + 1] <= t[k + 1] * m
    BY <2>1
  <2>4. (h[k] + t[k + 1]) * m = h[k] * m + t[k + 1] * m
    BY <2>1, <2>3, SMT
  <2>5. h[k] * m \in Nat /\ t[k + 1] * m \in Nat
    BY <2>1, <2>3, SMT
  <2> DEFINE x == h[k] * m
             y == t[k + 1] * m
             z == h[k + 1] * m
  <2>6. z = x + y
    BY <2>2, <2>4
  <2>7. /\ x \in Nat /\ y \in Nat /\ g[k] <= x /\ s[k + 1] <= y
        /\ g[k] \in Nat /\ h[k] \in Nat /\ s[k + 1] \in Nat /\ t[k + 1] \in Nat
    BY <2>1, <2>3, <2>5
  <2> HIDE DEF x, y, z
  <2>8. g[k + 1] \in Nat /\ h[k + 1] \in Nat /\ g[k + 1] <= z
    BY ONLY <2>2, <2>6, <2>7
  <2> QED
    BY <2>8 DEF z
<1>5. T \subseteq Nat
  OBVIOUS
<1>6. n \in T
  <2> HIDE DEF T
  <2>1. T = Nat
    BY <1>3, <1>4, <1>5, SetInduction
  <2> QED
    BY <2>1
<1> QED
  BY <1>1, <1>2, <1>6

(* A quotient is at most so much. *)
LEMMA DivBounded ==
  ASSUME NEW a \in Nat, NEW d \in Nat \ {0}, NEW m \in Nat, a <= d * m
  PROVE  a \div d \in 0..m
<1> DEFINE p == a \div d
<1>1. p \in Nat /\ d * p <= a
  BY DivBounds
<1> HIDE DEF p
<1>2. ASSUME p > m
      PROVE  FALSE
  <2>1. \A x \in Nat, y \in Nat : y >= x + 1 => d * y >= d * x + d
    BY SMT
  <2>2. d * p >= d * m + d
    BY <1>1, <1>2, <2>1
  <2>3. d * p \in Nat /\ d * m \in Nat
    BY <1>1, SMT
  <2> QED
    BY <1>1, <2>2, <2>3
<1>3. p \in 0..m
  BY <1>1, <1>2
<1> QED
  BY <1>3 DEF p

(* The mean of grades is a grade. *)
LEMMA MeanBounded ==
  ASSUME NEW n \in Nat, NEW g, NEW w, DOMAIN g = 1..n,
         \A i \in 1..n : w[i] \in Nat \ {0} /\ g[i] \in Grades,
         NEW k \in 1..n, g[k] # NoOne
  PROVE  Score!MeanOf(g, w) \in 0..Best
<1> DEFINE G == [i \in 1..n |-> IF Score!Measured(g[i]) THEN w[i] * g[i] ELSE 0]
           M == [i \in 1..n |-> IF Score!Measured(g[i]) THEN w[i] ELSE 0]
<1>1. ASSUME NEW i \in 1..n
      PROVE  G[i] \in Nat /\ M[i] \in Nat /\ G[i] <= M[i] * Best /\ (g[i] # NoOne => M[i] >= 1)
  <2>1. \A x \in Nat, y \in 0..Best : x * y \in Nat /\ x * y <= x * Best
    BY BestFits, SMT
  <2>2. w[i] \in Nat /\ w[i] >= 1 /\ g[i] \in Grades
    OBVIOUS
  <2>3. CASE g[i] = NoOne
    <3>1. G[i] = 0 /\ M[i] = 0 /\ 0 * Best = 0
      BY <2>3, BestFits DEF Score!Measured
    <3> HIDE DEF G, M
    <3> QED
      BY <2>3, <3>1
  <2>4. CASE g[i] # NoOne
    <3>1. g[i] \in 0..Best
      BY <2>2, <2>4 DEF Grades
    <3>2. G[i] = w[i] * g[i] /\ M[i] = w[i]
      BY <2>4, <3>1 DEF Score!Measured
    <3>3. w[i] * g[i] \in Nat /\ w[i] * g[i] <= w[i] * Best
      BY <2>1, <2>2, <3>1
    <3> HIDE DEF G, M
    <3> QED
      BY <2>2, <3>2, <3>3
  <2> QED
    BY <2>3, <2>4
<1>2. Len(G) = n /\ Len(M) = n
  OBVIOUS
<1>3. Score!MeanOf(g, w) = Score!TotalOf(G) \div Score!TotalOf(M)
  BY DEF Score!MeanOf
<1> HIDE DEF G, M
<1>4. Score!TotalOf(G) \in Nat /\ Score!TotalOf(G) <= Score!TotalOf(M) * Best
  <2>1. Score!TotalOf(G) \in Nat
    BY <1>1, <1>2, SumFits
  <2>2. Score!TotalOf(G) <= Score!TotalOf(M) * Best
    BY <1>1, <1>2, BestFits, SumBounded
  <2> QED
    BY <2>1, <2>2
<1>5. Score!TotalOf(M) \in Nat \ {0}
  <2>1. Score!TotalOf(M) \in Nat /\ M[k] <= Score!TotalOf(M)
    BY <1>1, <1>2, SumFits
  <2>2. M[k] \in Nat /\ M[k] >= 1
    BY <1>1
  <2> QED
    BY <2>1, <2>2
<1>6. Best \in Nat
  BY BestFits
<1> QED
  BY <1>3, <1>4, <1>5, <1>6, DivBounded

(* The least of what was measured is a grade. *)
LEMMA WorstBounded ==
  ASSUME NEW n \in Nat, NEW g, DOMAIN g = 1..n, \A i \in 1..n : g[i] \in Grades
  PROVE  Worst(g) \in Grades
<1> DEFINE In == Score!MeasuredIn(g)
           Of == {g[i] : i \in In}
<1>1. In = {i \in 1..n : g[i] # NoOne}
  BY DEF Score!MeasuredIn, Score!Measured
<1>2. CASE In = {}
  BY <1>2 DEF Grades, Worst
<1>3. CASE In # {}
  <2>1. Of \subseteq 0..Best /\ Of # {} /\ 0..Best \subseteq Nat
    <3>1. \A i \in In : g[i] \in 0..Best
      BY <1>1 DEF Grades
    <3> HIDE DEF In
    <3>2. Of \subseteq 0..Best /\ Of # {}
      BY <1>3, <3>1
    <3> QED
      BY <3>2, BestFits
  <2>2. Worst(g) = Score!Min(Of)
    BY <1>3 DEF Worst
  <2> HIDE DEF Of
  <2>3. Of \subseteq Nat
    BY <2>1
  <2>4. Score!Min(Of) \in Of
    BY <2>1, <2>3, LeastFits
  <2> QED
    BY <2>1, <2>2, <2>4 DEF Grades
<1> QED
  BY <1>2, <1>3

(* The grade of the business: the journey, and the steps it took. *)
LEMMA BusinessBounded ==
  ASSUME NEW s \in Sessions
  PROVE  Score!businessScore(s) \in 0..Best
<1>1. s.steps \in Nat \cup {NoOne} /\ Budgets.steps \in Nat \ {0}
  BY SessionFits, BudgetsFit
<1>2. Full(s.steps, Budgets.steps) \in 0..Best
  <2>1. CASE Score!Measured(s.steps)
    <3>1. s.steps \in Nat
      BY <1>1, <2>1 DEF Score!Measured
    <3> QED
      BY <1>1, <2>1, <3>1, RatioBounded DEF Full
  <2>2. CASE ~Score!Measured(s.steps)
    BY <2>2 DEF Full, Best
  <2> QED
    BY <2>1, <2>2
<1>3. Score!businessScore(s) = IF ~s.reachedEnd THEN 0 ELSE 7500 + (Full(s.steps, Budgets.steps) \div 4)
  BY DEF Score!businessScore, Full
<1> DEFINE x == Full(s.steps, Budgets.steps)
<1> HIDE DEF x
<1>4. PICK q \in 0..2500 : q = x \div 4
  <2>1. x \in Nat /\ x <= 4 * 2500 /\ 4 \in Nat \ {0} /\ 2500 \in Nat
    <3>1. x \in Nat /\ x <= Best
      BY <1>2, BestFits DEF x
    <3>2. Best = 4 * 2500
      BY DEF Best
    <3> QED
      BY <3>1, <3>2
  <2> QED
    BY <2>1, DivBounded
<1>5. 0 \in 0..Best /\ 7500 + q \in 0..Best
  <2>1. q \in Nat /\ q <= 2500
    OBVIOUS
  <2>2. Best = 7500 + 2500
    BY DEF Best
  <2> QED
    BY ONLY <2>1, <2>2, BestFits
<1> QED
  BY <1>3, <1>4, <1>5 DEF x

(* The grade of what was seen is the worst of three. *)
LEMMA VisualBounded ==
  ASSUME NEW s \in Sessions
  PROVE  Score!visualScore(s) \in Grades
<1> DEFINE g == <<Painted(s), Covered(s), Drifted(s)>>
<1>1. Score!visualScore(s) = Worst(g)
  BY DEF Score!visualScore, Painted, Covered, Drifted, Worst
<1>2. Painted(s) \in Grades
  BY DEF Painted, Grades, Best
<1>3. Covered(s) \in Grades
  <2>1. CASE s.coverages = {}
    BY <2>1 DEF Covered, Grades
  <2>2. CASE s.coverages # {}
    <3> DEFINE x == Score!Min(s.coverages)
    <3>1. x \in Nat
      <4>1. s.coverages \subseteq Nat
        BY SessionFits
      <4> QED
        BY <2>2, <4>1, LeastFits
    <3>2. Covered(s) = Score!gradeRatio(IF x > 0 THEN Score!Ratio(Budgets.coverage, x) ELSE Score!Endless)
      BY <2>2 DEF Covered
    <3> HIDE DEF x
    <3>3. CASE x > 0
      <4>1. x \in Nat \ {0} /\ Budgets.coverage \in Nat
        BY <3>1, <3>3, BudgetsFit
      <4> QED
        BY <3>2, <3>3, <4>1, RatioBounded DEF Grades
    <3>4. CASE ~(x > 0)
      <4>1. Covered(s) = Score!gradeRatio(500)
        BY <3>2, <3>4 DEF Score!Endless
      <4> QED
        BY <4>1, CurveBounded DEF Grades
    <3> QED
      BY <3>3, <3>4
  <2> QED
    BY <2>1, <2>2
<1>4. Drifted(s) \in Grades
  <2>1. CASE s.drifts = {}
    BY <2>1 DEF Drifted, Grades
  <2>2. CASE s.drifts # {}
    <3> DEFINE x == Score!Max(s.drifts)
    <3>1. x \in Nat
      <4>1. s.drifts \subseteq Nat /\ IsFiniteSet(s.drifts)
        BY SessionFits
      <4> QED
        BY <2>2, <4>1, LargestFits
    <3>2. Drifted(s) = Score!gradeRatio(IF Budgets.drift > 0 THEN Score!Ratio(x, Budgets.drift) ELSE 0)
      BY <2>2 DEF Drifted
    <3> HIDE DEF x
    <3>3. CASE Budgets.drift > 0
      <4>1. Budgets.drift \in Nat \ {0}
        BY <3>3, BudgetsFit
      <4> QED
        BY <3>1, <3>2, <3>3, <4>1, RatioBounded DEF Grades
    <3>4. CASE ~(Budgets.drift > 0)
      BY <3>2, <3>4, CurveBounded DEF Grades
    <3> QED
      BY <3>3, <3>4
  <2> QED
    BY <2>1, <2>2
<1>5. DOMAIN g = 1..3 /\ g[1] = Painted(s) /\ g[2] = Covered(s) /\ g[3] = Drifted(s)
  OBVIOUS
<1> HIDE DEF g
<1>6. \A i \in 1..3 : g[i] \in Grades
  <2>1. \A i \in 1..3 : i = 1 \/ i = 2 \/ i = 3
    OBVIOUS
  <2> QED
    BY <1>2, <1>3, <1>4, <1>5, <2>1
<1> QED
  BY <1>1, <1>5, <1>6, WorstBounded

(* The grade of the interaction is a mean of three. *)
LEMMA InteractionBounded ==
  ASSUME NEW s \in Sessions
  PROVE  Score!interactionScore(s) \in 0..Best
<1> DEFINE g == <<Journeyed(s), Answered(s), Dropped(s)>>
<1>1. Score!interactionScore(s) = Score!MeanOf(g, Score!Alike)
  BY DEF Score!interactionScore, Journeyed, Answered, Dropped
<1>2. Journeyed(s) \in 0..Best /\ Journeyed(s) # NoOne
  BY ScoreAssumption DEF Journeyed, Best
<1>3. Answered(s) \in Grades
  <2>1. s.p95 \in Nat \cup {NoOne} /\ Score!Min({Budgets.p95, Budgets.tap}) \in Nat \ {0}
    BY SessionFits, BudgetsFit, Least2
  <2> QED
    BY <2>1, GradedBounded DEF Answered
<1>4. Dropped(s) \in Grades
  <2>1. s.dropped \in Nat \cup {NoOne} /\ Budgets.dropped \in Nat
    BY SessionFits, BudgetsFit
  <2>2. CASE Budgets.dropped > 0
    <3>1. Budgets.dropped \in Nat \ {0}
      BY <2>1, <2>2
    <3> QED
      BY <2>1, <2>2, <3>1, GradedBounded DEF Dropped
  <2>3. CASE ~(Budgets.dropped > 0)
    <3>1. Dropped(s) = IF Score!Measured(s.dropped) THEN Score!gradeRatio(0) ELSE NoOne
      BY <2>3 DEF Dropped
    <3> QED
      BY <3>1, CurveBounded DEF Grades
  <2> QED
    BY <2>2, <2>3
<1>5. DOMAIN g = 1..3 /\ g[1] = Journeyed(s) /\ g[2] = Answered(s) /\ g[3] = Dropped(s)
  OBVIOUS
<1> HIDE DEF g
<1>6. \A i \in 1..3 : Score!Alike[i] \in Nat \ {0} /\ g[i] \in Grades
  <2>1. \A i \in 1..3 : i = 1 \/ i = 2 \/ i = 3
    OBVIOUS
  <2>2. Score!Alike[1] \in Nat \ {0} /\ Score!Alike[2] \in Nat \ {0} /\ Score!Alike[3] \in Nat \ {0}
    BY DEF Score!Alike
  <2> QED
    BY <1>2, <1>3, <1>4, <1>5, <2>1, <2>2 DEF Grades
<1>7. 3 \in Nat /\ 1 \in 1..3 /\ g[1] # NoOne
  BY <1>2, <1>5
<1> QED
  BY <1>1, <1>5, <1>6, <1>7, MeanBounded

(* The grade of the comfort is the middle one of three. *)
LEMMA ComfortBounded ==
  ASSUME NEW s \in Sessions, NEW worst \in Nat
  PROVE  Score!comfortScore(Score!evaluateComfort(s, worst)) \in Grades
<1> DEFINE g == [i \in 1..3 |-> Score!evaluateComfort(s, worst)[i].grade]
<1>1. Score!comfortScore(Score!evaluateComfort(s, worst)) = Middle(g)
  BY DEF Score!comfortScore, Middle
<1>2. /\ g[1] = Score!sustainedPacing(worst).grade
      /\ g[2] = Score!xrFallback(s).grade
      /\ g[3] = Score!responsiveness(s).grade
      /\ DOMAIN g = 1..3
  BY DEF Score!evaluateComfort
<1> HIDE DEF g
<1>3. g[1] \in Grades
  <2>1. CASE worst = 0
    BY <1>2, <2>1 DEF Score!sustainedPacing, Score!NotApplicable, Grades
  <2>2. CASE worst # 0
    <3>1. FloorMs \in Nat \ {0} /\ worst <= worst
      BY ScoreAssumption
    <3>2. worst \div FloorMs \in Nat
      BY <3>1, DivGrows
    <3>3. Score!sustainedPacing(worst).grade = Score!gradeRatio(worst \div FloorMs)
      BY <2>2 DEF Score!sustainedPacing
    <3> QED
      BY <1>2, <3>2, <3>3, CurveBounded DEF Grades
  <2> QED
    BY <2>1, <2>2
<1>4. g[2] \in Grades
  BY <1>2 DEF Score!xrFallback, Score!NotApplicable, Grades, Best
<1>5. g[3] \in Grades
  <2>1. s.p95 \in Nat \cup {NoOne} /\ Budgets.comfort \in Nat \ {0}
    BY SessionFits, BudgetsFit
  <2>2. g[3] = IF Score!Measured(s.p95)
               THEN Score!gradeRatio(Score!Ratio(s.p95, Budgets.comfort)) ELSE NoOne
    BY <1>2 DEF Score!responsiveness, Score!NotApplicable
  <2> QED
    BY <2>1, <2>2, GradedBounded
<1>6. \A i \in 1..3 : Score!Alike[i] \in Nat \ {0} /\ g[i] \in Grades
  <2>1. \A i \in 1..3 : i = 1 \/ i = 2 \/ i = 3
    OBVIOUS
  <2>2. Score!Alike[1] \in Nat \ {0} /\ Score!Alike[2] \in Nat \ {0} /\ Score!Alike[3] \in Nat \ {0}
    BY DEF Score!Alike
  <2> QED
    BY <1>3, <1>4, <1>5, <2>1, <2>2
<1>7. Score!MeasuredIn(g) = {i \in 1..3 : g[i] # NoOne}
  BY <1>2 DEF Score!MeasuredIn, Score!Measured
<1>8. CASE Score!MeasuredIn(g) = {}
  BY <1>1, <1>8 DEF Middle, Grades
<1>9. CASE Score!MeasuredIn(g) # {}
  <2>1. PICK k \in 1..3 : g[k] # NoOne
    BY <1>7, <1>9
  <2>2. 3 \in Nat
    OBVIOUS
  <2>3. Score!MeanOf(g, Score!Alike) \in 0..Best
    BY <1>2, <1>6, <2>1, <2>2, MeanBounded
  <2> QED
    BY <1>1, <1>9, <2>3 DEF Middle, Grades
<1> QED
  BY <1>8, <1>9

(* A score is one of a hundred. *)
LEMMA ScoreBounded ==
  ASSUME NEW s \in Sessions, NEW worst \in Nat
  PROVE  Score!scoreTrace(s, worst) \in 0..100
<1> DEFINE g == <<Score!businessScore(s), Score!visualScore(s), Score!interactionScore(s),
                  Score!comfortScore(Score!evaluateComfort(s, worst))>>
           caps == Score!collectCaps(s, Score!evaluateComfort(s, worst))
           x == Score!MeanOf(g, Score!SCORE_WEIGHTS) \div 100
           A == {x} \cup caps
<1>1. Score!scoreTrace(s, worst) = Score!Min(A)
  BY DEF Score!scoreTrace
<1>2. caps \subseteq 0..100
  BY DEF Score!collectCaps
<1>3. /\ DOMAIN g = 1..4 /\ g[1] = Score!businessScore(s) /\ g[2] = Score!visualScore(s)
      /\ g[3] = Score!interactionScore(s) /\ g[4] = Score!comfortScore(Score!evaluateComfort(s, worst))
  OBVIOUS
<1> HIDE DEF g, caps
<1>4. g[1] \in 0..Best /\ g[2] \in Grades /\ g[3] \in Grades /\ g[4] \in Grades
  BY <1>3, BusinessBounded, VisualBounded, InteractionBounded, ComfortBounded DEF Grades
<1>5. \A i \in 1..4 : Score!SCORE_WEIGHTS[i] \in Nat \ {0} /\ g[i] \in Grades
  <2>1. \A i \in 1..4 : i = 1 \/ i = 2 \/ i = 3 \/ i = 4
    OBVIOUS
  <2>2. /\ Score!SCORE_WEIGHTS[1] \in Nat \ {0} /\ Score!SCORE_WEIGHTS[2] \in Nat \ {0}
        /\ Score!SCORE_WEIGHTS[3] \in Nat \ {0} /\ Score!SCORE_WEIGHTS[4] \in Nat \ {0}
    BY DEF Score!SCORE_WEIGHTS
  <2> QED
    BY <1>4, <2>1, <2>2 DEF Grades
<1>6. x \in 0..100
  <2>1. 4 \in Nat /\ 1 \in 1..4 /\ g[1] # NoOne
    BY <1>4, ScoreAssumption, BestFits
  <2>2. Score!MeanOf(g, Score!SCORE_WEIGHTS) \in 0..Best
    BY <1>3, <1>5, <2>1, MeanBounded
  <2>3. \A y \in 0..Best : y \in Nat /\ y <= 100 * 100 /\ 100 \in Nat \ {0} /\ 100 \in Nat
    BY DEF Best
  <2> QED
    BY <2>2, <2>3, DivBounded
<1> HIDE DEF x
<1>7. A \subseteq Nat /\ A # {} /\ A \subseteq 0..100
  BY <1>2, <1>6
<1> HIDE DEF A
<1>8. Score!Min(A) \in A
  BY <1>7, LeastFits
<1> QED
  BY <1>1, <1>7, <1>8

-----------------------------------------------------------------------------
(* No more frames are seen than a session has. *)

FramesTyped ==
    /\ frames \in Seq(Durations) /\ Len(frames) <= MaxFrames
    /\ graded = NoOne \/ (graded.score \in 0..100 /\ graded.agrees \in BOOLEAN)

(* The window lies in the frames. *)
LEMMA ScoreTypes == ScoreInv /\ FramesTyped => Score!TypeOK
<1> SUFFICES ASSUME ScoreInv, FramesTyped
             PROVE  Score!TypeOK
  OBVIOUS
<1>1. Len(frames) \in 0..MaxFrames /\ MaxFrames \in Nat \ {0}
  BY ScoreAssumption DEF FramesTyped
<1>2. frames \in [1..Len(frames) -> Durations]
  BY DEF FramesTyped
<1>3. frames \in Score!SeqOf(Durations, MaxFrames)
  BY <1>1, <1>2 DEF Score!SeqOf
<1>4. window.start \in 1..MaxFrames /\ window.worst \in Nat
  <2>1. /\ window.worst \in Nat /\ window.start \in 1..(Len(frames) + 1)
        /\ \A i \in 1..(window.start - 1) : i < Len(frames)
    BY DEF ScoreInv, WindowFits
  <2>2. CASE window.start = 1
    BY <1>1, <2>1, <2>2
  <2>3. CASE window.start # 1
    <3>1. window.start - 1 \in 1..(window.start - 1)
      BY <1>1, <2>1, <2>3
    <3>2. window.start - 1 < Len(frames)
      BY <2>1, <3>1
    <3> QED
      BY <1>1, <2>1, <3>2
  <2> QED
    BY <2>2, <2>3
<1> QED
  BY <1>3, <1>4 DEF ScoreInv, FramesTyped, Score!TypeOK

(* There are no frames at first, and no score. *)
LEMMA FramesStart == Score!Init => FramesTyped
BY ScoreAssumption DEF Score!Init, FramesTyped

(* A frame comes where one may, and a score has its bounds. *)
LEMMA FramesStep == ScoreInv /\ FramesTyped /\ Score!Next => FramesTyped'
<1> SUFFICES ASSUME ScoreInv, FramesTyped, Score!Next
             PROVE  FramesTyped'
  OBVIOUS
<1>1. ASSUME NEW d \in Durations, Score!Sample(d)
      PROVE  FramesTyped'
  <2>1. Len(frames) < MaxFrames /\ frames' = Append(frames, d) /\ graded' = graded
    BY <1>1 DEF Score!Sample
  <2>2. frames' \in Seq(Durations) /\ Len(frames') = Len(frames) + 1 /\ Len(frames) \in Nat
    BY <2>1 DEF FramesTyped
  <2> QED
    BY <2>1, <2>2, ScoreAssumption DEF FramesTyped
<1>2. ASSUME NEW outcome \in {"pass", "degraded", "fail", "inconclusive"}, Score!Grade(outcome)
      PROVE  FramesTyped'
  <2> DEFINE score == Score!scoreTrace(session, window.worst)
  <2>1. /\ frames' = frames
        /\ graded' = [score  |-> score,
                      agrees |-> score >= Score!Bands[outcome][1] /\ score <= Score!Bands[outcome][2]]
    BY <1>2 DEF Score!Grade
  <2>2. session \in Sessions /\ window.worst \in Nat
    BY DEF ScoreInv, WindowFits
  <2>3. score \in 0..100
    BY <2>2, ScoreBounded
  <2> HIDE DEF score
  <2>4. graded'.score \in 0..100 /\ graded'.agrees \in BOOLEAN
    BY <2>1, <2>3
  <2> QED
    BY <2>1, <2>4 DEF FramesTyped
<1> QED
  BY <1>1, <1>2 DEF Score!Next

-----------------------------------------------------------------------------
(* A sequence is of whatever all its elements are. *)
LEMMA SameTyped ==
  ASSUME NEW S, NEW T, NEW s \in Seq(S), \A i \in 1..Len(s) : s[i] \in T
  PROVE  s \in Seq(T)
<1>1. s = [i \in 1..Len(s) |-> s[i]] /\ Len(s) \in Nat
  OBVIOUS
<1> QED
  BY <1>1

(* The preflight. *)

Bytes == [url : PageLinks, bytes : Sizes \cup {-1, 0}]

(* The bytes of the assets whose size is known add up to a number.         *)
LEMMA BytesAdded ==
  ASSUME sized \in Seq(Bytes)
  PROVE  Probe!knownBytes \in Nat
<1> DEFINE L == Len(sized)
           b(n) == IF sized[n].bytes = -1 THEN 0 ELSE sized[n].bytes
           Adds(g, k) == g = [n \in 0..k |-> IF n = 0 THEN 0 ELSE g[n - 1] + b(n)]
           S == {k \in Nat : \E g : Adds(g, k)}
<1>0. L \in Nat /\ \A n \in 1..L : b(n) \in Nat
  <2>1. ASSUME NEW n \in 1..L
        PROVE  b(n) \in Nat
    <3>1. sized[n] \in Bytes
      OBVIOUS
    <3>2. PICK x \in Sizes \cup {-1, 0} : x = sized[n].bytes
      BY <3>1 DEF Bytes
    <3>3. x # -1 => x \in Nat
      BY PreflightAssumption
    <3> QED
      BY ONLY <3>2, <3>3
  <2> QED
    BY <2>1
<1> HIDE DEF b
<1>1. 0 \in S
  <2>1. \A n \in 0..0 : n = 0
    OBVIOUS
  <2>2. Adds([n \in 0..0 |-> 0], 0)
    BY <2>1
  <2> QED
    BY <2>2
<1>2. ASSUME NEW k \in S
      PROVE  k + 1 \in S
  <2>1. PICK g : Adds(g, k)
    BY <1>2
  <2> DEFINE h == [n \in 0..(k + 1) |-> IF n = k + 1 THEN g[k] + b(k + 1) ELSE g[n]]
  <2>2. \A n \in 0..(k + 1) : h[n] = IF n = 0 THEN 0 ELSE h[n - 1] + b(n)
    <3> TAKE n \in 0..(k + 1)
    <3>1. CASE n = k + 1
      BY <3>1
    <3>2. CASE n # k + 1
      <4>1. n \in 0..k /\ h[n] = g[n] /\ (n # 0 => h[n - 1] = g[n - 1])
        BY <3>2
      <4>2. g[n] = IF n = 0 THEN 0 ELSE g[n - 1] + b(n)
        BY <2>1, <4>1
      <4> QED
        BY <4>1, <4>2
    <3> QED
      BY <3>1, <3>2
  <2>3. Adds(h, k + 1)
    BY <2>2
  <2> HIDE DEF h, Adds
  <2>4. k + 1 \in Nat /\ \E f : Adds(f, k + 1)
    BY <2>3
  <2> QED
    BY <2>4
<1>3. S = Nat
  <2> HIDE DEF Adds
  <2>1. S \subseteq Nat
    OBVIOUS
  <2> HIDE DEF S
  <2> QED
    BY <1>1, <1>2, <2>1, SetInduction
<1> DEFINE sum == CHOOSE g : Adds(g, L)
<1>4. Adds(sum, L)
  <2>1. \E g : Adds(g, L)
    BY <1>0, <1>3
  <2> HIDE DEF Adds
  <2> QED
    BY ONLY <2>1
<1>5. Probe!knownBytes = sum[L]
  BY DEF Probe!knownBytes, Probe!Unknown, b
<1> HIDE DEF sum
<1>6. sum[0] = 0 /\ \A n \in 1..L : sum[n] = sum[n - 1] + b(n)
  BY <1>0, <1>4
<1> DEFINE T == {k \in Nat : k <= L => sum[k] \in Nat}
<1>7. 0 \in T
  BY <1>6
<1>8. ASSUME NEW k \in T
      PROVE  k + 1 \in T
  <2> SUFFICES ASSUME k + 1 <= L
               PROVE  sum[k + 1] \in Nat
    OBVIOUS
  <2>1. k \in Nat /\ k + 1 \in 1..L /\ (k + 1) - 1 = k /\ sum[k] \in Nat
    BY <1>0, <1>8
  <2>2. sum[k + 1] = sum[k] + b(k + 1) /\ b(k + 1) \in Nat
    BY <1>0, <1>6, <2>1
  <2> QED
    BY <2>1, <2>2
<1>9. T \subseteq Nat
  OBVIOUS
<1>10. L \in T
  <2> HIDE DEF T
  <2>1. T = Nat
    BY <1>7, <1>8, <1>9, SetInduction
  <2> QED
    BY <1>0, <2>1
<1> QED
  BY <1>0, <1>5, <1>10

(* The page and where it redirected, whom the preflight asked, and what    *)
(* servers stated.                                                         *)
Judged == Probe!ToSet(Chosen) \cup Landings

ProbeTyped ==
    /\ stage \in {"check", "fetch", "recheck", "measure", "reported", "failed"}
    /\ visited \in Seq(Landings) /\ Len(visited) >= 1 /\ (stage = "recheck" => Len(visited) >= 2)
    /\ asked \subseteq [url : Judged, answer : {"public", "private", "unasked"}]
    /\ stated \in [Probe!ToSet(Chosen) -> SUBSET Sizes]
    /\ report \in [count : Nat, totalBytes : Nat, unknownBytes : Nat, truncated : BOOLEAN]

(* The invariant has the types of the rest. *)
LEMMA PreflightTypes == PreflightInv /\ ProbeTyped => Probe!TypeOK
<1> SUFFICES ASSUME PreflightInv, ProbeTyped
             PROVE  Probe!TypeOK
  OBVIOUS
<1>1. asset \in [n : 1..(Len(Chosen) + 1), step : {"lookup", "head", "get"}]
  BY DEF PreflightInv, MeasuredInv
<1>2. sized \in Seq([url : Probe!ToSet(Chosen), bytes : Sizes \cup {-1, 0}])
  <2>1. /\ sized \in Seq(Bytes) /\ Len(sized) = asset.n - 1 /\ asset.n \in 1..(Len(Chosen) + 1)
        /\ \A i \in 1..Len(sized) : sized[i].url = Chosen[i]
    BY DEF PreflightInv, MeasuredInv, Bytes
  <2>2. ASSUME NEW i \in 1..Len(sized)
        PROVE  sized[i] \in [url : Probe!ToSet(Chosen), bytes : Sizes \cup {-1, 0}]
    <3>1. i \in 1..Len(Chosen) /\ sized[i] \in Bytes
      BY <2>1, ChosenFits
    <3>2. sized[i].url \in Probe!ToSet(Chosen)
      BY <2>1, <3>1 DEF Probe!ToSet
    <3> QED
      BY <3>1, <3>2 DEF Bytes
  <2> QED
    BY <2>1, <2>2, SameTyped
<1> QED
  BY <1>1, <1>2 DEF ProbeTyped, Judged, Chosen, Probe!TypeOK, Probe!Unknown

(* The preflight starts with one address, and asked nobody. *)
LEMMA ProbeStart == Probe!Init => ProbeTyped
<1> SUFFICES ASSUME Probe!Init
             PROVE  ProbeTyped
  OBVIOUS
<1>1. PICK p \in Landings : visited = <<p>>
  BY DEF Probe!Init
<1>2. visited \in Seq(Landings) /\ Len(visited) = 1
  BY <1>1
<1>3. stated \in [Probe!ToSet(Chosen) -> SUBSET Sizes]
  BY DEF Probe!Init, Chosen
<1> QED
  BY <1>2, <1>3 DEF Probe!Init, Probe!NoReport, ProbeTyped

(* A step of the preflight asks only for the page or one of its assets.    *)
LEMMA ProbeStep == PreflightInv /\ ProbeTyped /\ Probe!Next => ProbeTyped'
<1> SUFFICES ASSUME PreflightInv, ProbeTyped, Probe!Next
             PROVE  ProbeTyped'
  OBVIOUS
<1> USE DEF ProbeTyped
<1>1. Chosen' = Chosen /\ Judged' = Judged
  BY DEF Chosen, Judged, Probe!urls, Probe!extractAssetUrls
<1> DEFINE clear == IF AllowPrivate THEN "unasked" ELSE "public"
<1>2. clear \in {"public", "private", "unasked"}
  OBVIOUS
<1>3. \A i \in 1..Len(visited) : visited[i] \in Judged
  BY DEF Judged
<1>4. \A i \in 1..Len(Chosen) : Chosen[i] \in Judged /\ Chosen[i] \in Probe!ToSet(Chosen)
  BY DEF Judged, Probe!ToSet
<1>5. ASSUME Probe!Fail
      PROVE  ProbeTyped'
  BY <1>1, <1>5 DEF Probe!Fail
<1>6. ASSUME Probe!CheckTarget, ~Probe!Fail
      PROVE  ProbeTyped'
  <2>1. /\ stage' = "fetch" /\ asked' = {[url |-> visited[1], answer |-> clear]}
        /\ UNCHANGED <<visited, stated, report>>
    BY <1>6 DEF Probe!CheckTarget
  <2>2. visited[1] \in Judged
    BY <1>3
  <2> HIDE DEF clear
  <2> QED
    BY <1>1, <1>2, <2>1, <2>2
<1>7. ASSUME Probe!FetchPage, ~Probe!Fail
      PROVE  ProbeTyped'
  <2>1. PICK p \in Landings : visited' = Append(visited, p) /\ stage' = "recheck"
                                /\ UNCHANGED <<asked, stated, report>>
    BY <1>7 DEF Probe!FetchPage
  <2>2. visited' \in Seq(Landings) /\ Len(visited') = Len(visited) + 1 /\ Len(visited) \in Nat
    BY <2>1
  <2> QED
    BY <1>1, <2>1, <2>2
<1>8. ASSUME Probe!RecheckTarget, ~Probe!Fail
      PROVE  ProbeTyped'
  <2>1. /\ stage = "recheck" /\ stage' = "measure"
        /\ asked' = asked \cup {[url |-> visited[2], answer |-> clear]}
        /\ UNCHANGED <<visited, stated, report>>
    BY <1>8 DEF Probe!RecheckTarget
  <2>2. visited[2] \in Judged
    BY <1>3, <2>1
  <2> HIDE DEF clear
  <2> QED
    BY <1>1, <1>2, <2>1, <2>2
<1>9. ASSUME NEW step, Probe!Measuring(step)
      PROVE  Chosen[asset.n] \in Judged /\ Chosen[asset.n] \in Probe!ToSet(Chosen)
  <2>1. asset.n \in 1..Len(Chosen)
    BY <1>9, ChosenFits DEF Probe!Measuring, PreflightInv, MeasuredInv, Chosen
  <2> QED
    BY <1>4, <2>1
<1>10. ASSUME Probe!LookupAsset
       PROVE  ProbeTyped'
  <2>1. UNCHANGED <<stage, visited, stated, report>>
    BY <1>10 DEF Probe!LookupAsset
  <2>2. asked' = asked \/ asked' = asked \cup {[url |-> Chosen[asset.n], answer |-> clear]}
    BY <1>10 DEF Probe!LookupAsset, Probe!Passes, Chosen
  <2>3. Chosen[asset.n] \in Judged
    BY <1>9, <1>10 DEF Probe!LookupAsset
  <2> HIDE DEF clear
  <2> QED
    BY <1>1, <1>2, <2>1, <2>2, <2>3
<1>11. ASSUME Probe!HeadAsset \/ Probe!RangedByte
       PROVE  ProbeTyped'
  <2>1. UNCHANGED <<stage, visited, asked, report>>
    BY <1>11 DEF Probe!HeadAsset, Probe!RangedByte
  <2>2. stated' = stated \/ \E n \in Sizes :
           stated' = [stated EXCEPT ![Chosen[asset.n]] = @ \cup {n}]
    BY <1>11 DEF Probe!HeadAsset, Probe!RangedByte, Chosen
  <2>3. Chosen[asset.n] \in Probe!ToSet(Chosen)
    BY <1>9, <1>11 DEF Probe!HeadAsset, Probe!RangedByte
  <2>4. stated' \in [Probe!ToSet(Chosen) -> SUBSET Sizes]
    BY <2>2, <2>3
  <2> QED
    BY <1>1, <2>1, <2>4
<1>12. ASSUME Probe!Report
       PROVE  ProbeTyped'
  <2>1. /\ stage' = "reported" /\ UNCHANGED <<visited, asked, stated>>
        /\ report' = [count |-> Len(sized), totalBytes |-> Probe!knownBytes,
                      unknownBytes |-> Probe!estimateUnknown, truncated |-> Len(Harvest) > MaxAssets]
    BY <1>12 DEF Probe!Report, Harvest
  <2>2. sized \in Seq(Bytes) /\ Len(sized) \in Nat
    BY DEF PreflightInv, MeasuredInv, Bytes
  <2>3. Probe!knownBytes \in Nat
    BY <2>2, BytesAdded
  <2>4. Probe!estimateUnknown \in Nat
    BY <2>2, EstimateCounts DEF Bytes
  <2>5. report' \in [count : Nat, totalBytes : Nat, unknownBytes : Nat, truncated : BOOLEAN]
    BY <2>1, <2>2, <2>3, <2>4
  <2> QED
    BY <1>1, <2>1, <2>5
<1> QED
  BY <1>5, <1>6, <1>7, <1>8, <1>10, <1>11, <1>12 DEF Probe!Next
=============================================================================
