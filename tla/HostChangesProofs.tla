-------------------------- MODULE HostChangesProofs --------------------------
(***************************************************************************)
(* What changes to the host keep, for any number of workers, commands,     *)
(* keys, entries, ports, ranges, installations, rotations and sessions:    *)
(* edits of authorized_keys and the crontab change what they name and      *)
(* nothing else, web ports stay reachable, a binary that runs is left, an  *)
(* acknowledged rotation is on disk, and a shell has an owner.             *)
(*                                                                         *)
(* What the loops over the lines of a file do is proved by the least       *)
(* number of lines at which it would fail, so the first two sections say   *)
(* so for files of every length.                                           *)
(***************************************************************************)
EXTENDS HostChanges, FiniteSetTheorems, SequenceTheorems,
        WellFoundedInduction, TLAPS

-----------------------------------------------------------------------------
(* The lines of a file.                                                    *)

\* The least counterexample: a set of naturals that is not empty has a least
\* member.
LEMMA NatMin ==
  ASSUME NEW T \in SUBSET Nat, T # {}
  PROVE  \E n \in T : \A m \in T : n <= m
<1> DEFINE R == OpToRel(<, Nat)
<1>1. IsWellFoundedOn(R, Nat)
  BY NatLessThanWellFounded
<1>2. \A x, y \in Nat : y < x => <<y, x>> \in R
  BY DEF OpToRel
<1> HIDE DEF R
<1>3. PICK n \in T : \A y \in T : ~ (<<y, n>> \in R)
  BY <1>1, WFMin
<1>4. \A y \in T : ~ (y < n)
  BY <1>2, <1>3
<1> QED BY <1>4

\* Induction up to a bound, for a set instead of a predicate
LEMMA UpToBound ==
  ASSUME NEW max \in Nat, NEW T, 0 \in T,
         \A n \in 1..max : n - 1 \in T => n \in T
  PROVE  \A n \in 0..max : n \in T
<1> DEFINE Rest == {n \in 0..max : n \notin T}
<1> SUFFICES ASSUME Rest # {} PROVE FALSE
  OBVIOUS
<1>1. PICK n \in Rest : \A m \in Rest : n <= m
  <2>1. Rest \in SUBSET Nat
    OBVIOUS
  <2> HIDE DEF Rest
  <2> QED BY <2>1, NatMin
<1>2. n \in 1..max /\ n - 1 \in 0..max /\ ~(n <= n - 1)
  BY <1>1
<1>3. n - 1 \in T
  BY <1>1, <1>2
<1> QED BY <1>1, <1>2, <1>3

\* One round of the loop, as Kept defines it.
KeptStep(f, file, places, n) ==
  IF n = 0 THEN <<>>
  ELSE IF n \in places THEN Append(f[n - 1], file[n])
  ELSE f[n - 1]

\* The recursive function that Kept is defined with exists.
LEMMA UpToExists ==
  ASSUME NEW file, Len(file) \in Nat, NEW places
  PROVE  \E f : f = [i \in 0..Len(file) |-> KeptStep(f, file, places, i)]
<1> DEFINE T == {n \in 0..Len(file) :
                   \E f : f = [i \in 0..n |-> KeptStep(f, file, places, i)]}
<1>1. 0 \in T
  <2>1. [i \in 0..0 |-> <<>>] =
          [i \in 0..0 |-> KeptStep([j \in 0..0 |-> <<>>], file, places, i)]
    BY DEF KeptStep
  <2> QED BY <2>1
<1>2. ASSUME NEW n \in 1..Len(file), n - 1 \in T
      PROVE  n \in T
  <2>1. PICK f : f = [i \in 0..(n - 1) |-> KeptStep(f, file, places, i)]
    BY <1>2
  <2> DEFINE g == [i \in 0..n |->
                     IF i < n THEN f[i] ELSE KeptStep(f, file, places, n)]
  <2>2. \A i \in 0..n : g[i] = KeptStep(g, file, places, i)
    <3>1. TAKE i \in 0..n
    <3>2. CASE i = n
      <4>1. g[i - 1] = f[n - 1] /\ i # 0
        BY <3>2
      <4> QED BY <3>2, <4>1 DEF KeptStep
    <3>3. CASE i < n /\ i # 0
      <4>1. g[i] = f[i] /\ g[i - 1] = f[i - 1]
        BY <3>3
      <4>2. f[i] = KeptStep(f, file, places, i)
        BY <2>1, <3>3
      <4> QED BY <3>3, <4>1, <4>2 DEF KeptStep
    <3>4. CASE i = 0 /\ i < n
      <4>1. g[i] = f[i] /\ f[i] = KeptStep(f, file, places, i)
        BY <2>1, <3>4
      <4> QED BY <3>4, <4>1 DEF KeptStep
    <3> QED BY <3>2, <3>3, <3>4
  <2>3. g = [i \in 0..n |-> g[i]]
    OBVIOUS
  <2>4. g = [i \in 0..n |-> KeptStep(g, file, places, i)]
    <3> HIDE DEF g
    <3> QED BY <2>2, <2>3
  <2> HIDE DEF g
  <2> QED BY <2>4
<1> HIDE DEF T
<1>3. \A n \in 0..Len(file) : n \in T
  BY <1>1, <1>2, UpToBound
<1>4. Len(file) \in T
  BY <1>3
<1> QED BY <1>4 DEF T

\* UpTo(f, s, P): f is the function Kept's definition builds.
UpTo(f, file, places) ==
  f = [i \in 0..Len(file) |-> KeptStep(f, file, places, i)]

\* So Kept is what that function makes of all the lines.
LEMMA KeptIsUpTo ==
  ASSUME NEW file, Len(file) \in Nat, NEW places
  PROVE  \E f : /\ UpTo(f, file, places)
                /\ Kept(file, places) = f[Len(file)]
<1> DEFINE P(f) == f = [i \in 0..Len(file) |-> 
             IF i = 0 THEN <<>>
             ELSE IF i \in places THEN Append(f[i - 1], file[i])
             ELSE f[i - 1]]
           F == CHOOSE f : P(f)
<1>1. \E f : P(f)
  BY UpToExists DEF KeptStep
<1>2. Kept(file, places) = F[Len(file)]
  BY DEF Kept
<1>3. P(F)
  <2> HIDE DEF P
  <2> QED BY <1>1
<1>4. UpTo(F, file, places)
  <2> HIDE DEF F
  <2> QED BY <1>3 DEF UpTo, KeptStep
<1> HIDE DEF F
<1> QED BY <1>2, <1>4

\* Its equations.
LEMMA UpToStep ==
  ASSUME NEW file, Len(file) \in Nat, NEW places, NEW f,
         UpTo(f, file, places)
  PROVE  /\ f[0] = <<>>
         /\ \A n \in 1..Len(file) :
              /\ n \in places => f[n] = Append(f[n - 1], file[n])
              /\ n \notin places => f[n] = f[n - 1]
<1>1. \A n \in 0..Len(file) : f[n] = KeptStep(f, file, places, n)
  BY DEF UpTo
<1>2. f[0] = KeptStep(f, file, places, 0)
  BY <1>1
<1>3. ASSUME NEW n \in 1..Len(file)
      PROVE  f[n] = KeptStep(f, file, places, n) /\ n # 0
  BY <1>1
<1> QED BY <1>2, <1>3 DEF KeptStep

\* After n rounds it holds the chosen lines among the first n, in order.
LEMMA UpToShape ==
  ASSUME NEW S, NEW file \in Seq(S), NEW places, NEW f,
         UpTo(f, file, places)
  PROVE  \A n \in 0..Len(file) :
           /\ f[n] \in Seq(S)
           /\ \E from \in [1..Len(f[n]) -> places \cap (1..n)] :
                /\ \A i \in 1..Len(f[n]) : f[n][i] = file[from[i]]
                /\ \A i, j \in 1..Len(f[n]) : i < j => from[i] < from[j]
                /\ \A k \in places \cap (1..n) :
                     \E i \in 1..Len(f[n]) : from[i] = k
<1> DEFINE Good(n, from) ==
             /\ from \in [1..Len(f[n]) -> places \cap (1..n)]
             /\ \A i \in 1..Len(f[n]) : f[n][i] = file[from[i]]
             /\ \A i, j \in 1..Len(f[n]) : i < j => from[i] < from[j]
             /\ \A k \in places \cap (1..n) :
                  \E i \in 1..Len(f[n]) : from[i] = k
           T == {n \in 0..Len(file) :
                   f[n] \in Seq(S) /\ \E from : Good(n, from)}
<1>0. Len(file) \in Nat
  OBVIOUS
<1>a. /\ f[0] = <<>>
      /\ \A n \in 1..Len(file) :
              /\ n \in places => f[n] = Append(f[n - 1], file[n])
              /\ n \notin places => f[n] = f[n - 1]
  BY <1>0, UpToStep
<1>1. 0 \in T
  <2>1. f[0] \in Seq(S) /\ Len(f[0]) = 0
    BY <1>a
  <2>2. Good(0, <<>>)
    BY <2>1
  <2> QED BY <1>0, <2>1, <2>2
<1>2. ASSUME NEW n \in 1..Len(file), n - 1 \in T
      PROVE  n \in T
  <2>1. PICK from : Good(n - 1, from)
    BY <1>2
  <2>2. f[n - 1] \in Seq(S) /\ file[n] \in S /\ n \in Nat /\ n \in 0..Len(file)
    BY <1>2
  <2>3. CASE n \notin places
    <3>1. f[n] = f[n - 1] /\ places \cap (1..n) = places \cap (1..(n - 1))
      BY <1>a, <2>3
    <3>2. Good(n, from)
      BY <2>1, <3>1
    <3> HIDE DEF Good
    <3> QED BY <2>2, <3>1, <3>2
  <2>4. CASE n \in places
    <3> DEFINE old == f[n - 1]
               g == [i \in 1..(Len(old) + 1) |->
                       IF i = Len(old) + 1 THEN n ELSE from[i]]
    <3>1. /\ f[n] = Append(old, file[n])
          /\ f[n] \in Seq(S) /\ Len(f[n]) = Len(old) + 1 /\ Len(old) \in Nat
          /\ \A i \in 1..Len(old) : f[n][i] = old[i]
          /\ f[n][Len(old) + 1] = file[n]
      <4>1. f[n] = Append(old, file[n])
        BY <1>a, <2>4
      <4>2. old \in Seq(S) /\ file[n] \in S
        BY <2>2
      <4> HIDE DEF old
      <4> QED BY <4>1, <4>2
    <3>2. /\ g[Len(old) + 1] = n
          /\ \A i \in 1..Len(old) : g[i] = from[i] /\ g[i] \in 1..(n - 1)
                                    /\ g[i] \in places
      BY <2>1, <3>1
    <3>3. g \in [1..Len(f[n]) -> places \cap (1..n)]
      <4>1. \A i \in 1..(Len(old) + 1) : g[i] \in places \cap (1..n)
        <5> TAKE i \in 1..(Len(old) + 1)
        <5>1. CASE i = Len(old) + 1
          BY <2>2, <2>4, <3>2, <5>1
        <5>2. CASE i # Len(old) + 1
          <6>1. i \in 1..Len(old)
            BY <3>1, <5>2
          <6> HIDE DEF g
          <6>2. g[i] \in 1..(n - 1) /\ g[i] \in places
            BY <3>2, <6>1
          <6>3. 1..(n - 1) \subseteq 1..n
            BY <2>2
          <6> QED BY <6>2, <6>3
        <5> QED BY <5>1, <5>2
      <4>2. g \in [1..(Len(old) + 1) -> places \cap (1..n)]
        BY <4>1
      <4> QED BY <3>1, <4>2
    <3> HIDE DEF g
    <3>4. \A i \in 1..Len(f[n]) : f[n][i] = file[g[i]]
      BY <2>1, <3>1, <3>2
    <3>5. \A i, j \in 1..Len(f[n]) : i < j => g[i] < g[j]
      <4> TAKE i, j \in 1..Len(f[n])
      <4> HAVE i < j
      <4>1. i \in 1..Len(old) /\ (j \in 1..Len(old) \/ j = Len(old) + 1)
        BY <3>1
      <4>2. CASE j \in 1..Len(old)
        BY <2>1, <3>2, <4>1, <4>2
      <4>3. CASE j = Len(old) + 1
        BY <2>2, <3>2, <4>1, <4>3
      <4> QED BY <4>1, <4>2, <4>3
    <3>6. \A k \in places \cap (1..n) : \E i \in 1..Len(f[n]) : g[i] = k
      <4> TAKE k \in places \cap (1..n)
      <4>1. CASE k = n
        BY <3>1, <3>2, <4>1
      <4>2. CASE k # n
        <5>1. k \in places \cap (1..(n - 1))
          BY <4>2
        <5>2. PICK i \in 1..Len(old) : from[i] = k
          BY <2>1, <5>1
        <5>3. g[i] = k
          BY <3>2, <5>2
        <5>4. i \in 1..Len(f[n])
          BY <3>1
        <5> QED BY <5>3, <5>4
      <4> QED BY <4>1, <4>2
    <3>7. Good(n, g)
      BY <3>3, <3>4, <3>5, <3>6
    <3> HIDE DEF Good
    <3> QED BY <2>2, <3>1, <3>7
  <2> QED BY <2>3, <2>4
<1>3. \A n \in 0..Len(file) : n \in T
  <2> HIDE DEF T
  <2> QED BY <1>0, <1>1, <1>2, UpToBound
<1> QED BY <1>3

\* The lines kept are the chosen ones, each once, and in their order.
LEMMA KeptShape ==
  ASSUME NEW S, NEW file \in Seq(S), NEW places
  PROVE  /\ Kept(file, places) \in Seq(S)
         /\ \E from \in [1..Len(Kept(file, places))
                           -> places \cap (1..Len(file))] :
              /\ \A i \in 1..Len(Kept(file, places)) :
                   Kept(file, places)[i] = file[from[i]]
              /\ \A i, j \in 1..Len(Kept(file, places)) :
                   i < j => from[i] < from[j]
              /\ \A k \in places \cap (1..Len(file)) :
                   \E i \in 1..Len(Kept(file, places)) : from[i] = k
<1>1. Len(file) \in Nat /\ Len(file) \in 0..Len(file)
  OBVIOUS
<1>2. PICK f : UpTo(f, file, places) /\ Kept(file, places) = f[Len(file)]
  BY <1>1, KeptIsUpTo
<1> DEFINE all == Len(file)
           after == Kept(file, places)
<1>3. f[all] = after /\ all \in 0..Len(file)
  BY <1>1, <1>2
<1> HIDE DEF all, after
<1>4. /\ f[all] \in Seq(S)
      /\ \E from \in [1..Len(f[all]) -> places \cap (1..all)] :
           /\ \A i \in 1..Len(f[all]) : f[all][i] = file[from[i]]
           /\ \A i, j \in 1..Len(f[all]) : i < j => from[i] < from[j]
           /\ \A k \in places \cap (1..all) :
                \E i \in 1..Len(f[all]) : from[i] = k
  BY <1>2, <1>3, UpToShape
<1> QED BY <1>3, <1>4 DEF all, after

\* The part of s that starts after a is t, and P chooses there what Q chooses.
ShiftOf(s, P, t, Q, a) ==
  /\ a + Len(t) <= Len(s)
  /\ \A i \in 1..Len(t) : s[a + i] = t[i] /\ (a + i \in P <=> i \in Q)

\* From a on, f appends to f[a] what g gathers.
Follows(f, a, g, m) == \A n \in 0..m : f[a + n] = f[a] \o g[n]

\* The loop over a whole file, from where its second part starts, is the loop
\* over that part.
LEMMA UpToShift ==
  ASSUME NEW S, NEW s \in Seq(S), NEW t \in Seq(S), NEW a \in Nat,
         NEW P, NEW Q, NEW f, NEW g,
         UpTo(f, s, P), UpTo(g, t, Q), ShiftOf(s, P, t, Q, a)
  PROVE  Follows(f, a, g, Len(t))
<1> DEFINE T == {n \in 0..Len(t) : f[a + n] = f[a] \o g[n]}
<1>0. Len(t) \in Nat /\ Len(s) \in Nat /\ a + Len(t) <= Len(s)
  BY DEF ShiftOf
<1>a. /\ f[0] = <<>>
      /\ \A n \in 1..Len(s) :
           /\ n \in P => f[n] = Append(f[n - 1], s[n])
           /\ n \notin P => f[n] = f[n - 1]
  BY <1>0, UpToStep
<1>b. /\ g[0] = <<>>
      /\ \A n \in 1..Len(t) :
           /\ n \in Q => g[n] = Append(g[n - 1], t[n])
           /\ n \notin Q => g[n] = g[n - 1]
  BY <1>0, UpToStep
<1>c. \A n \in 0..Len(s) : f[n] \in Seq(S)
  BY UpToShape
<1>d. \A n \in 0..Len(t) : g[n] \in Seq(S)
  BY UpToShape
<1>1. 0 \in T
  <2>1. f[a] \in Seq(S) /\ a + 0 = a
    BY <1>0, <1>c
  <2>2. f[a] \o <<>> = f[a]
    BY <2>1
  <2>3. f[a + 0] = f[a] \o g[0]
    BY <1>b, <2>1, <2>2
  <2>4. 0 \in 0..Len(t)
    BY <1>0
  <2> QED BY <2>3, <2>4
<1>2. ASSUME NEW n \in 1..Len(t), n - 1 \in T
      PROVE  n \in T
  <2>1. f[a + (n - 1)] = f[a] \o g[n - 1]
    BY <1>2
  <2>2. /\ a + n \in 1..Len(s) /\ (a + n) - 1 = a + (n - 1)
        /\ n - 1 \in 0..Len(t) /\ a \in 0..Len(s) /\ n \in 0..Len(t)
    BY <1>0
  <2>3. s[a + n] = t[n] /\ (a + n \in P <=> n \in Q) /\ t[n] \in S
    BY DEF ShiftOf
  <2>4. f[a] \in Seq(S) /\ g[n - 1] \in Seq(S)
    BY <1>c, <1>d, <2>2
  <2>5. CASE n \in Q
    <3>1. f[a + n] = Append(f[a + (n - 1)], t[n])
      BY <1>a, <2>2, <2>3, <2>5
    <3>2. g[n] = Append(g[n - 1], t[n])
      BY <1>b, <2>5
    <3>3. Append(f[a] \o g[n - 1], t[n]) = f[a] \o Append(g[n - 1], t[n])
      <4> DEFINE x == f[a]
                 y == g[n - 1]
                 e == t[n]
      <4>1. x \in Seq(S)
        BY <2>4
      <4>2. y \in Seq(S)
        BY <2>4
      <4>3. e \in S
        BY <2>3
      <4> HIDE DEF x, y, e
      <4>4. Append(x \o y, e) = x \o Append(y, e)
        <5> DEFINE l == Append(x \o y, e)
                   r == x \o Append(y, e)
        <5>1. x \o y \in Seq(S) /\ Append(y, e) \in Seq(S)
          BY <4>1, <4>2, <4>3
        <5>2. /\ l \in Seq(S) /\ Len(l) = Len(x) + Len(y) + 1
              /\ \A i \in 1..Len(l) :
                   l[i] = IF i <= Len(x) THEN x[i]
                          ELSE IF i <= Len(x) + Len(y) THEN y[i - Len(x)]
                          ELSE e
          BY <4>1, <4>2, <4>3, <5>1
        <5>3. /\ r \in Seq(S) /\ Len(r) = Len(x) + Len(y) + 1
              /\ \A i \in 1..Len(r) :
                   r[i] = IF i <= Len(x) THEN x[i]
                          ELSE IF i <= Len(x) + Len(y) THEN y[i - Len(x)]
                          ELSE e
          BY <4>1, <4>2, <4>3, <5>1
        <5> HIDE DEF l, r
        <5>4. l = r
          BY <5>2, <5>3
        <5> QED BY <5>4 DEF l, r
      <4> QED BY <4>4 DEF x, y, e
    <3> QED BY <2>1, <2>2, <3>1, <3>2, <3>3
  <2>6. CASE n \notin Q
    <3>1. f[a + n] = f[a + (n - 1)] /\ g[n] = g[n - 1]
      BY <1>a, <1>b, <2>2, <2>3, <2>6
    <3> QED BY <2>1, <2>2, <3>1
  <2> QED BY <2>5, <2>6
<1>3. \A n \in 0..Len(t) : n \in T
  <2> HIDE DEF T
  <2> QED BY <1>0, <1>1, <1>2, UpToBound
<1> QED BY <1>3 DEF Follows

\* R chooses from s what P chooses, and from t, which follows, what Q chooses.
KeptInParts(s, P, t, Q, R) == Kept(s \o t, R) = Kept(s, P) \o Kept(t, Q)

\* Two parts of a file can be filtered one by one.
LEMMA KeptOfConcat ==
  ASSUME NEW S, NEW s \in Seq(S), NEW t \in Seq(S), NEW P, NEW Q, NEW R,
         \A i \in 1..Len(s) : i \in R <=> i \in P,
         \A i \in 1..Len(t) : Len(s) + i \in R <=> i \in Q
  PROVE  KeptInParts(s, P, t, Q, R)
<1> DEFINE u == s \o t
<1>1. /\ u \in Seq(S) /\ Len(u) = Len(s) + Len(t)
      /\ Len(s) \in Nat /\ Len(t) \in Nat /\ Len(u) \in Nat
      /\ \A i \in 1..Len(s) : u[i] = s[i]
      /\ \A i \in 1..Len(t) : u[Len(s) + i] = t[i]
  OBVIOUS
<1> HIDE DEF u
<1>2. PICK f : UpTo(f, u, R) /\ Kept(u, R) = f[Len(u)]
  BY <1>1, KeptIsUpTo
<1>3. PICK g : UpTo(g, s, P) /\ Kept(s, P) = g[Len(s)]
  BY <1>1, KeptIsUpTo
<1>4. PICK h : UpTo(h, t, Q) /\ Kept(t, Q) = h[Len(t)]
  BY <1>1, KeptIsUpTo
<1>5. \A n \in 0..Len(t) : f[Len(s) + n] = f[Len(s)] \o h[n]
  <2>1. ShiftOf(u, R, t, Q, Len(s))
    BY <1>1 DEF ShiftOf
  <2>2. Follows(f, Len(s), h, Len(t))
    BY <1>1, <1>2, <1>4, <2>1, UpToShift
  <2> QED BY <2>2 DEF Follows
<1>6. \A n \in 0..Len(s) : f[0 + n] = f[0] \o g[n]
  <2>1. ShiftOf(u, R, s, P, 0)
    BY <1>1 DEF ShiftOf
  <2>2. 0 \in Nat
    OBVIOUS
  <2>3. Follows(f, 0, g, Len(s))
    BY <1>1, <1>2, <1>3, <2>1, <2>2, UpToShift
  <2> QED BY <2>3 DEF Follows
<1>7. f[0] = <<>> /\ g[Len(s)] \in Seq(S)
  <2>1. f[0] = <<>>
    BY <1>1, <1>2, UpToStep
  <2>2. \A n \in 0..Len(s) : g[n] \in Seq(S)
    BY <1>3, UpToShape
  <2> QED BY <1>1, <2>1, <2>2
<1>8. f[Len(s)] = g[Len(s)]
  <2>1. f[0 + Len(s)] = <<>> \o g[Len(s)] /\ 0 + Len(s) = Len(s)
    BY <1>1, <1>6, <1>7
  <2>2. <<>> \o g[Len(s)] = g[Len(s)]
    BY <1>7
  <2> QED BY <2>1, <2>2
<1>9. Kept(u, R) = Kept(s, P) \o Kept(t, Q)
  <2>1. f[Len(s) + Len(t)] = f[Len(s)] \o h[Len(t)]
    <3>1. Len(t) \in 0..Len(t)
      BY <1>1
    <3> QED BY <1>5, <3>1
  <2> QED BY <1>1, <1>2, <1>3, <1>4, <1>8, <2>1
<1> QED BY <1>9 DEF u, KeptInParts

\* When all are chosen nothing changes.
LEMMA KeptAll ==
  ASSUME NEW S, NEW s \in Seq(S), NEW P, 1..Len(s) \subseteq P
  PROVE  Kept(s, P) = s
<1>1. PICK f : UpTo(f, s, P) /\ Kept(s, P) = f[Len(s)]
  BY KeptIsUpTo
<1> DEFINE T == {n \in 0..Len(s) :
                   Len(f[n]) = n /\ \A i \in 1..n : f[n][i] = s[i]}
<1>a. /\ f[0] = <<>>
      /\ \A n \in 1..Len(s) : f[n] = Append(f[n - 1], s[n])
  BY <1>1, UpToStep
<1>c. \A n \in 0..Len(s) : f[n] \in Seq(S)
  BY <1>1, UpToShape
<1>2. 0 \in T
  BY <1>a
<1>3. ASSUME NEW n \in 1..Len(s), n - 1 \in T
      PROVE  n \in T
  <2>1. f[n - 1] \in Seq(S) /\ Len(f[n - 1]) = n - 1 /\ f[n] = Append(f[n - 1], s[n])
        /\ (\A i \in 1..(n - 1) : f[n - 1][i] = s[i]) /\ s[n] \in S
        /\ n \in Nat /\ n \in 0..Len(s)
    <3>1. n - 1 \in 0..Len(s) /\ n \in Nat /\ n \in 0..Len(s) /\ s[n] \in S
      OBVIOUS
    <3>2. f[n - 1] \in Seq(S) /\ f[n] = Append(f[n - 1], s[n])
      BY <1>a, <1>c, <3>1
    <3> QED BY <1>3, <3>1, <3>2
  <2>2. Len(f[n]) = n /\ f[n][n] = s[n]
        /\ \A i \in 1..(n - 1) : f[n][i] = f[n - 1][i]
    BY <2>1
  <2>3. \A i \in 1..n : f[n][i] = s[i]
    <3> TAKE i \in 1..n
    <3>1. CASE i = n
      BY <2>2, <3>1
    <3>2. CASE i # n
      <4>1. i \in 1..(n - 1)
        BY <2>1, <3>2
      <4> QED BY <2>1, <2>2, <4>1
    <3> QED BY <3>1, <3>2
  <2> QED BY <2>1, <2>2, <2>3
<1>4. \A n \in 0..Len(s) : n \in T
  <2> HIDE DEF T
  <2>1. Len(s) \in Nat
    OBVIOUS
  <2> QED BY <1>2, <1>3, <2>1, UpToBound
<1>5. Len(s) \in 0..Len(s)
  OBVIOUS
<1>6. /\ Len(f[Len(s)]) = Len(s) /\ f[Len(s)] \in Seq(S)
      /\ \A i \in 1..Len(s) : f[Len(s)][i] = s[i]
  BY <1>4, <1>5, <1>c
<1> DEFINE q == f[Len(s)]
<1>7. q = s
  <2>1. Len(q) = Len(s) /\ q \in Seq(S) /\ \A i \in 1..Len(s) : q[i] = s[i]
    BY <1>6
  <2> HIDE DEF q
  <2> QED BY <2>1
<1> QED BY <1>1, <1>7

-----------------------------------------------------------------------------
(* AuthorizedKeys: what an edit makes of the file (sshkeys.go), and types.  *)

LEMMA WithoutKeyShape ==
  ASSUME NEW file \in Seq(AllLines), NEW key
  PROVE  /\ WithoutKey(file, key) \in Seq(AllLines)
         /\ Carries(WithoutKey(file, key), key) = {}
         /\ Carries(file, key) = {} => WithoutKey(file, key) = file
<1> DEFINE P == {i \in 1..Len(file) : file[i].key # key}
           after == Kept(file, P)
<1>1. after = WithoutKey(file, key)
  BY DEF WithoutKey
<1>2. \A i \in P : i \in 1..Len(file) /\ file[i].key # key
  OBVIOUS
<1>3. Carries(file, key) = {} => 1..Len(file) \subseteq P
  BY DEF Carries
<1> HIDE DEF P
<1>4. after \in Seq(AllLines)
  BY KeptShape
<1>5. PICK from \in [1..Len(after) -> P \cap (1..Len(file))] :
        \A i \in 1..Len(after) : after[i] = file[from[i]]
  BY KeptShape
<1>6. Carries(file, key) = {} => after = file
  BY <1>3, KeptAll
<1> HIDE DEF after
<1>7. Carries(after, key) = {}
  BY <1>2, <1>5 DEF Carries
<1> QED BY <1>1, <1>4, <1>6, <1>7

\* Removing a key from two parts of a file, or from the whole.
WithoutInParts(s, t, key) ==
  WithoutKey(s \o t, key) = WithoutKey(s, key) \o WithoutKey(t, key)

LEMMA WithoutKeyOfConcat ==
  ASSUME NEW s \in Seq(AllLines), NEW t \in Seq(AllLines), NEW key
  PROVE  WithoutInParts(s, t, key)
<1> DEFINE P == {i \in 1..Len(s) : s[i].key # key}
           Q == {i \in 1..Len(t) : t[i].key # key}
           u == s \o t
           R == {i \in 1..Len(u) : u[i].key # key}
<1>1. \A i \in 1..Len(s) : i \in R <=> i \in P
  OBVIOUS
<1>2. \A i \in 1..Len(t) : Len(s) + i \in R <=> i \in Q
  OBVIOUS
<1>3. Kept(s \o t, R) = Kept(s, P) \o Kept(t, Q)
  <2> HIDE DEF P, Q, R
  <2>1. KeptInParts(s, P, t, Q, R)
    BY <1>1, <1>2, KeptOfConcat
  <2> QED BY <2>1 DEF KeptInParts
<1> QED BY <1>3 DEF WithoutKey, WithoutInParts

LEMMA WithoutKeyOfOne ==
  ASSUME NEW line \in AllLines
  PROVE  WithoutKey(<<line>>, line.key) = <<>>
<1> DEFINE one == <<line>>
           after == WithoutKey(one, line.key)
<1>1. one \in Seq(AllLines) /\ Len(one) = 1 /\ one[1] = line
  OBVIOUS
<1> DEFINE P == {i \in 1..Len(one) : one[i].key # line.key}
<1>2. P = {}
  BY <1>1
<1>3. after = Kept(one, P)
  BY DEF WithoutKey
<1> HIDE DEF P, one
<1>4. after \in Seq(AllLines)
  BY <1>1, <1>3, KeptShape
<1>5. PICK from \in [1..Len(after) -> P \cap (1..Len(one))] : TRUE
  BY <1>1, <1>3, KeptShape
<1> HIDE DEF after
<1>6. after = <<>>
  <2>1. Len(after) \in Nat
    BY <1>4
  <2>2. 1 \notin 1..Len(after)
    BY <1>2, <1>5
  <2>3. Len(after) = 0
    BY <2>1, <2>2
  <2> QED BY <1>4, <2>3
<1> QED BY <1>6 DEF after, one

\* x is what is above its line i, that line, and what is below.
SplitAt(x, i) ==
  /\ SubSeq(x, 1, i - 1) \in Seq(AllLines)
  /\ SubSeq(x, i + 1, Len(x)) \in Seq(AllLines)
  /\ x = SubSeq(x, 1, i - 1) \o <<x[i]>> \o SubSeq(x, i + 1, Len(x))

LEMMA LinesSplit ==
  ASSUME NEW x \in Seq(AllLines), NEW i \in 1..Len(x)
  PROVE  SplitAt(x, i)
<1> DEFINE above == SubSeq(x, 1, i - 1)
           below == SubSeq(x, i + 1, Len(x))
           top == above \o <<x[i]>>
           all == top \o below
<1>1. /\ above \in Seq(AllLines) /\ Len(above) = i - 1
      /\ \A j \in 1..(i - 1) : above[j] = x[j]
  OBVIOUS
<1>2. /\ below \in Seq(AllLines) /\ Len(below) = Len(x) - i
      /\ \A j \in 1..(Len(x) - i) : below[j] = x[i + j]
  OBVIOUS
<1>3. x[i] \in AllLines /\ i \in Nat /\ Len(x) \in Nat
  OBVIOUS
<1> HIDE DEF above, below
<1>4. /\ top \in Seq(AllLines) /\ Len(top) = i
      /\ \A j \in 1..i : top[j] = x[j]
  <2> DEFINE e == x[i]
  <2>a. e \in AllLines
    BY <1>3
  <2> HIDE DEF e
  <2>b. top = above \o <<e>>
    BY DEF e
  <2>c. /\ top \in Seq(AllLines) /\ Len(top) = Len(above) + 1
        /\ \A j \in 1..Len(above) : top[j] = above[j]
        /\ top[Len(above) + 1] = e
    BY <1>1, <2>a, <2>b
  <2> HIDE DEF top
  <2>1. /\ top \in Seq(AllLines) /\ Len(top) = i
        /\ \A j \in 1..(i - 1) : top[j] = above[j]
        /\ top[i] = x[i]
    BY <1>1, <1>3, <2>c DEF e
  <2> QED BY <1>1, <1>3, <2>1
<1> HIDE DEF top
<1>5. all \in Seq(AllLines) /\ Len(all) = Len(x)
  <2>a. top \in Seq(AllLines) /\ below \in Seq(AllLines)
    BY <1>2, <1>4
  <2>b. top \o below \in Seq(AllLines)
    BY ONLY <2>a
  <2>c. Len(top \o below) = Len(top) + Len(below)
    BY ONLY <2>a
  <2>1. all \in Seq(AllLines) /\ Len(all) = Len(top) + Len(below)
    BY <2>b, <2>c
  <2> HIDE DEF all
  <2> QED BY <1>2, <1>3, <1>4, <2>1
<1>6. \A j \in 1..Len(x) : all[j] = x[j]
  <2> TAKE j \in 1..Len(x)
  <2>1. CASE j <= i
    <3>1. all[j] = top[j]
      BY <1>2, <1>4, <2>1
    <3> QED BY <1>3, <1>4, <2>1, <3>1
  <2>2. CASE j > i
    <3>1. all[j] = below[j - i] /\ j - i \in 1..(Len(x) - i) /\ i + (j - i) = j
      BY <1>2, <1>3, <1>4, <2>2
    <3> QED BY <1>2, <3>1
  <2>3. j \in Nat
    OBVIOUS
  <2> HIDE DEF all
  <2> QED BY <1>3, <2>1, <2>2, <2>3
<1> HIDE DEF all
<1>7. all = x
  BY <1>5, <1>6
<1> QED BY <1>1, <1>2, <1>7 DEF SplitAt, all, top, above, below

\* The line Upsert replaces is the first of its key.
LEMMA FirstCarries ==
  ASSUME NEW file \in Seq(AllLines), NEW key, Carries(file, key) # {}
  PROVE  LET first == CHOOSE i \in Carries(file, key) :
                        \A j \in Carries(file, key) : i <= j
         IN  /\ first \in 1..Len(file) /\ file[first].key = key
             /\ \A j \in 1..(first - 1) : file[j].key # key
<1> DEFINE T == Carries(file, key)
           first == CHOOSE i \in T : \A j \in T : i <= j
<1>1. T \in SUBSET Nat
  BY DEF Carries
<1>2. \A i \in T : i \in 1..Len(file) /\ file[i].key = key
  BY DEF Carries
<1>3. \A i \in 1..Len(file) : file[i].key = key => i \in T
  BY DEF Carries
<1> HIDE DEF T
<1>4. \E i \in T : \A j \in T : i <= j
  BY <1>1, NatMin DEF T
<1>5. first \in T /\ \A j \in T : first <= j
  BY <1>4
<1> HIDE DEF first
<1>6. \A j \in 1..(first - 1) : file[j].key # key
  <2> TAKE j \in 1..(first - 1)
  <2>1. j \in 1..Len(file) /\ ~(first <= j)
    BY <1>2, <1>5
  <2> QED BY <1>3, <1>5, <2>1
<1> QED BY <1>2, <1>5, <1>6 DEF first, T

\* A file that already holds the line, and the key nowhere else, is left alone.
LEMMA UpsertFixes ==
  ASSUME NEW x \in Seq(AllLines), NEW line \in KeyLines, NEW i \in 1..Len(x),
         Carries(x, line.key) = {i}, x[i] = line
  PROVE  Upsert(x, line) = x
<1> DEFINE first == CHOOSE j \in Carries(x, line.key) :
                      \A k \in Carries(x, line.key) : j <= k
           below == SubSeq(x, i + 1, Len(x))
<1>1. first = i
  OBVIOUS
<1>2. Upsert(x, line) = SubSeq(x, 1, first - 1) \o <<line>>
        \o WithoutKey(SubSeq(x, first + 1, Len(x)), line.key)
  BY DEF Upsert
<1>3. below \in Seq(AllLines) /\ Carries(below, line.key) = {}
  <2>1. /\ below \in Seq(AllLines) /\ Len(below) = Len(x) - i
        /\ \A j \in 1..(Len(x) - i) : below[j] = x[i + j]
    OBVIOUS
  <2> HIDE DEF below
  <2>2. \A j \in 1..Len(x) : j # i => x[j].key # line.key
    BY DEF Carries
  <2>3. \A j \in 1..(Len(x) - i) : i + j \in 1..Len(x) /\ i + j # i
    OBVIOUS
  <2> QED BY <2>1, <2>2, <2>3 DEF Carries
<1>4. WithoutKey(below, line.key) = below
  BY <1>3, WithoutKeyShape
<1>5. x = SubSeq(x, 1, i - 1) \o <<line>> \o below
  BY LinesSplit DEF SplitAt
<1> HIDE DEF first
<1> QED BY <1>1, <1>2, <1>4, <1>5

\* The line takes the place of the first of its key, or the end.
LEMMA UpsertShape ==
  ASSUME NEW file \in Seq(AllLines), NEW line \in KeyLines
  PROVE  /\ Upsert(file, line) \in Seq(AllLines)
         /\ WithoutKey(Upsert(file, line), line.key)
              = WithoutKey(file, line.key)
         /\ \E i \in 1..Len(Upsert(file, line)) :
              /\ Carries(Upsert(file, line), line.key) = {i}
              /\ Upsert(file, line)[i] = line
<1> DEFINE key == line.key
           one == <<line>>
           after == Upsert(file, line)
<1>1. line \in AllLines /\ one \in Seq(AllLines) /\ Len(one) = 1 /\ one[1] = line
  BY DEF KeyLines, AllLines
<1>2. WithoutKey(one, key) = <<>>
  BY <1>1, WithoutKeyOfOne
<1>3. CASE Carries(file, key) = {}
  <2>1. after = file \o one
    BY <1>1, <1>3 DEF Upsert
  <2>2. /\ after \in Seq(AllLines) /\ Len(after) = Len(file) + 1
        /\ \A i \in 1..Len(file) : after[i] = file[i]
        /\ after[Len(file) + 1] = line
    BY <1>1, <2>1
  <2>3. WithoutKey(after, key) = WithoutKey(file, key)
    <3>1. WithoutKey(file \o one, key) = WithoutKey(file, key) \o WithoutKey(one, key)
      BY <1>1, WithoutKeyOfConcat DEF WithoutInParts
    <3>2. WithoutKey(file, key) \in Seq(AllLines)
      BY WithoutKeyShape
    <3> DEFINE rest == WithoutKey(file, key)
    <3>3. rest \o <<>> = rest
      <4> HIDE DEF rest
      <4> QED BY <3>2 DEF rest
    <3> QED BY <1>2, <2>1, <3>1, <3>3
  <2> HIDE DEF after, one
  <2>4. Carries(after, key) = {Len(file) + 1}
    <3>1. \A i \in 1..Len(file) : file[i].key # key
      BY <1>3 DEF Carries
    <3>2. Len(file) \in Nat
      OBVIOUS
    <3> QED BY <2>2, <3>1, <3>2 DEF Carries
  <2>5. Len(file) + 1 \in 1..Len(after)
    BY <2>2
  <2> QED BY <2>2, <2>3, <2>4, <2>5 DEF after
<1>4. CASE Carries(file, key) # {}
  <2> DEFINE first == CHOOSE i \in Carries(file, key) :
                        \A j \in Carries(file, key) : i <= j
             above == SubSeq(file, 1, first - 1)
             old == <<file[first]>>
             below == SubSeq(file, first + 1, Len(file))
             rest == WithoutKey(below, key)
  <2>1. /\ first \in 1..Len(file) /\ file[first].key = key
        /\ \A j \in 1..(first - 1) : file[j].key # key
    BY <1>4, FirstCarries
  <2>2. after = above \o one \o rest
    BY <1>4 DEF Upsert
  <2> HIDE DEF first
  <2>3. above \in Seq(AllLines) /\ below \in Seq(AllLines)
        /\ file = above \o old \o below
    BY <2>1, LinesSplit DEF SplitAt
  <2>4. /\ Len(above) = first - 1 /\ \A j \in 1..(first - 1) : above[j] = file[j]
    BY <2>1
  <2>5. old \in Seq(AllLines) /\ WithoutKey(old, key) = <<>>
    <3>1. file[first] \in AllLines
      BY <2>1
    <3>2. WithoutKey(<<file[first]>>, file[first].key) = <<>>
      BY <3>1, WithoutKeyOfOne
    <3> QED BY <2>1, <3>1, <3>2
  <2>6. rest \in Seq(AllLines) /\ Carries(rest, key) = {}
        /\ WithoutKey(rest, key) = rest
    <3>1. rest \in Seq(AllLines) /\ Carries(rest, key) = {}
      BY <2>3, WithoutKeyShape
    <3> HIDE DEF rest
    <3> QED BY <3>1, WithoutKeyShape
  <2> HIDE DEF above, old, below, rest, one, after
  <2>7. Carries(above, key) = {}
    BY <2>1, <2>4 DEF Carries
  <2>8. WithoutKey(above, key) = above
    BY <2>3, <2>7, WithoutKeyShape
  <2>9. ASSUME NEW mid \in Seq(AllLines), WithoutKey(mid, key) = <<>>,
               NEW end \in Seq(AllLines), WithoutKey(end, key) = rest
        PROVE  WithoutKey(above \o mid \o end, key) = above \o rest
    <3> DEFINE top == above \o mid
    <3>1. top \in Seq(AllLines)
      BY <2>3
    <3>2. WithoutKey(above \o mid, key) = WithoutKey(above, key) \o WithoutKey(mid, key)
      <4>1. WithoutInParts(above, mid, key)
        BY <2>3, WithoutKeyOfConcat
      <4> QED BY <4>1 DEF WithoutInParts
    <3>3. WithoutKey(top, key) = above
      <4>1. above \o <<>> = above
        BY <2>3
      <4> QED BY <2>8, <2>9, <3>2, <4>1
    <3> HIDE DEF top
    <3>4. WithoutKey(top \o end, key) = WithoutKey(top, key) \o WithoutKey(end, key)
      <4>1. WithoutInParts(top, end, key)
        BY <3>1, WithoutKeyOfConcat
      <4> QED BY <4>1 DEF WithoutInParts
    <3>5. WithoutKey(top \o end, key) = above \o rest
      BY <2>9, <3>3, <3>4
    <3> QED BY <3>5 DEF top
  <2>10. WithoutKey(after, key) = above \o rest
    BY <1>1, <1>2, <2>2, <2>6, <2>9
  <2>11. WithoutKey(file, key) = above \o rest
    <3>1. WithoutKey(below, key) = rest
      BY DEF rest
    <3>2. WithoutKey(above \o old \o below, key) = above \o rest
      BY <2>3, <2>5, <2>9, <3>1
    <3> QED BY <2>3, <3>2
  <2>12. /\ after \in Seq(AllLines) /\ Len(after) = first + Len(rest)
         /\ after[first] = line
         /\ \A j \in 1..(first - 1) : after[j] = above[j]
         /\ \A j \in 1..Len(rest) : after[first + j] = rest[j]
    <3> DEFINE top == above \o one
    <3>1. /\ top \in Seq(AllLines) /\ Len(top) = first
          /\ top[first] = line
          /\ \A j \in 1..(first - 1) : top[j] = above[j]
      <4>1. above \in Seq(AllLines) /\ one \in Seq(AllLines)
        BY <1>1, <2>3
      <4>2. top \in Seq(AllLines)
        BY ONLY <4>1
      <4>3. Len(top) = Len(above) + Len(one)
        BY ONLY <4>1
      <4>4. \A j \in 1..Len(above) : top[j] = above[j]
        BY ONLY <4>1
      <4>5. \A j \in 1..Len(one) : top[Len(above) + j] = one[j]
        BY ONLY <4>1
      <4>6. first \in Nat /\ 1 \in 1..1
        BY <2>1
      <4> HIDE DEF top
      <4> QED BY <1>1, <2>4, <4>2, <4>3, <4>4, <4>5, <4>6
    <3>2. after = top \o rest
      BY <2>2
    <3> HIDE DEF top
    <3>3. /\ after \in Seq(AllLines) /\ Len(after) = Len(top) + Len(rest)
          /\ \A j \in 1..Len(top) : after[j] = top[j]
          /\ \A j \in 1..Len(rest) : after[Len(top) + j] = rest[j]
      <4>1. top \in Seq(AllLines) /\ rest \in Seq(AllLines)
        BY <2>6, <3>1
      <4>2. top \o rest \in Seq(AllLines)
        BY ONLY <4>1
      <4>3. Len(top \o rest) = Len(top) + Len(rest)
        BY ONLY <4>1
      <4>4. \A j \in 1..Len(top) : (top \o rest)[j] = top[j]
        BY ONLY <4>1
      <4>5. \A j \in 1..Len(rest) : (top \o rest)[Len(top) + j] = rest[j]
        BY ONLY <4>1
      <4> QED BY <3>2, <4>2, <4>3, <4>4, <4>5
    <3>4. first \in Nat /\ first > 0
      BY <2>1
    <3> QED BY <3>1, <3>3, <3>4
  <2>13. Carries(after, key) = {first}
    <3>1. \A j \in 1..Len(rest) : rest[j].key # key
      BY <2>6 DEF Carries
    <3>2. \A j \in 1..(first - 1) : after[j].key # key
      BY <2>1, <2>4, <2>12
    <3>3. first \in Nat /\ first > 0 /\ Len(rest) \in Nat
      BY <2>1, <2>6
    <3>4. \A j \in 1..Len(after) : j # first => after[j].key # key
      <4> TAKE j \in 1..Len(after)
      <4>1. CASE j < first
        BY <3>2, <3>3, <4>1
      <4>2. CASE j > first
        <5>1. j - first \in 1..Len(rest) /\ first + (j - first) = j
          BY <2>12, <3>3, <4>2
        <5> QED BY <2>12, <3>1, <5>1
      <4> QED BY <3>3, <4>1, <4>2
    <3>5. first \in 1..Len(after) /\ after[first].key = key
      BY <2>12, <3>3
    <3> QED BY <3>4, <3>5 DEF Carries
  <2>14. first \in 1..Len(after)
    BY <2>13 DEF Carries
  <2> QED BY <2>10, <2>11, <2>12, <2>13, <2>14 DEF after
<1> QED BY <1>3, <1>4

\* What becomes of a file that a command edits: its key is there once, with the
\* line it was given, or not at all, and every other line is left as it was.
ExactEdit(op, line, file, after) ==
  /\ after \in Seq(AllLines)
  /\ WithoutKey(after, line.key) = WithoutKey(file, line.key)
  /\ op = "add" =>
       \E i \in 1..Len(after) :
         Carries(after, line.key) = {i} /\ after[i] = line
  /\ op = "remove" => Carries(after, line.key) = {}
  /\ Edited(op, line, after) = after

(* An edit does no less and no more than its command says, whatever the    *)
(* file holds, duplicates and lines that are no key included; and a second *)
(* edit of the same kind changes nothing, so a command may be sent again   *)
(* (authorizedKeysUpsert and authorizedKeysRemove, sshkeys.go:150-199).    *)
THEOREM EditIsExact ==
  ASSUME NEW file \in Seq(AllLines), NEW line \in KeyLines,
         NEW op \in {"add", "remove", "list"}
  PROVE  ExactEdit(op, line, file, Edited(op, line, file))
<1> DEFINE after == Edited(op, line, file)
           Exact == /\ after \in Seq(AllLines)
                    /\ WithoutKey(after, line.key) = WithoutKey(file, line.key)
                    /\ op = "add" => \E i \in 1..Len(after) :
                         Carries(after, line.key) = {i} /\ after[i] = line
                    /\ op = "remove" => Carries(after, line.key) = {}
                    /\ Edited(op, line, after) = after
<1>1. ASSUME op = "add" PROVE Exact
  <2>1. after = Upsert(file, line)
    BY <1>1 DEF Edited
  <2> HIDE DEF after
  <2>2. /\ after \in Seq(AllLines)
        /\ WithoutKey(after, line.key) = WithoutKey(file, line.key)
    BY <2>1, UpsertShape
  <2>3. PICK i \in 1..Len(after) :
          Carries(after, line.key) = {i} /\ after[i] = line
    BY <2>1, UpsertShape
  <2>4. Upsert(after, line) = after
    BY <2>2, <2>3, UpsertFixes
  <2>5. Edited(op, line, after) = after
    BY <1>1, <2>4 DEF Edited
  <2> QED BY <1>1, <2>2, <2>3, <2>5
<1>2. ASSUME op = "remove" PROVE Exact
  <2>1. after = WithoutKey(file, line.key)
    BY <1>2 DEF Edited
  <2> HIDE DEF after
  <2>2. after \in Seq(AllLines) /\ Carries(after, line.key) = {}
    BY <2>1, WithoutKeyShape
  <2>3. WithoutKey(after, line.key) = after
    BY <2>2, WithoutKeyShape
  <2>4. Edited(op, line, after) = after
    BY <1>2, <2>3 DEF Edited
  <2> QED BY <1>2, <2>1, <2>2, <2>3, <2>4
<1>3. ASSUME op = "list" PROVE Exact
  <2>1. \A x : Edited(op, line, x) = x
    BY <1>3 DEF Edited
  <2> QED BY <1>3, <2>1
<1>4. Exact
  BY <1>1, <1>2, <1>3
<1> QED BY <1>4 DEF ExactEdit

\* The types of AuthorizedKeys, with what they rest on.
LEMMA KeyTypeInit == KeyInit => KeyTypeOK /\ KeyTempInv
<1> SUFFICES ASSUME KeyInit
             PROVE  KeyTypeOK /\ KeyTempInv
  OBVIOUS
<1>1. (CHOOSE l \in KeyLines : TRUE) \in KeyLines
  <2>1. PICK k \in KeyMaterial, r \in Renderings : TRUE
    BY KeysAssumption DEF KeysAssumption
  <2>2. [key |-> k, text |-> r] \in KeyLines
    BY DEF KeyLines
  <2> QED BY <2>2
<1>2. authFile \in Seq(AllLines) /\ <<>> \in Seq(AllLines)
  BY KeysAssumption DEF KeyInit, KeysAssumption
<1>3. KeyTypeOK
  BY KeysAssumption, <1>1, <1>2
     DEF KeyInit, KeyTypeOK, KeySteps, KeysAssumption
<1> QED BY <1>3 DEF KeyInit, KeyTempInv

\* An edit gives lines again, and a temporary file that is dropped was there.
LEMMA KeyTypeNext ==
  KeyInv /\ KeyTypeOK /\ KeyTempInv /\ [KeyNext]_keyVars
    => KeyTypeOK' /\ KeyTempInv'
<1> SUFFICES ASSUME KeyInv, KeyTypeOK, KeyTempInv, [KeyNext]_keyVars
             PROVE  KeyTypeOK' /\ KeyTempInv'
  OBVIOUS
<1> DEFINE Goal == KeyTypeOK' /\ KeyTempInv'
<1>0. <<>> \in Seq(AllLines)
  OBVIOUS
<1> USE <1>0 DEF KeyTypeOK, KeyTempInv, KeySteps, KeyAt, KeyFinish
<1>1. ASSUME NEW w \in KeyWorkers, KeyStart(w) PROVE Goal
  <2>1. keyLeft' \in 0..MaxKeyCmds
    BY KeysAssumption, <1>1 DEF KeyStart, KeysAssumption
  <2>2. keyOp' \in [KeyWorkers -> {"add", "remove", "list"}]
        /\ keyLine' \in [KeyWorkers -> KeyLines]
    BY <1>1 DEF KeyStart
  <2> QED BY <1>1, <2>1, <2>2 DEF KeyStart
<1>2. ASSUME NEW w \in KeyWorkers, LockKeys(w) PROVE Goal
  BY <1>2 DEF LockKeys
<1>3. ASSUME NEW w \in KeyWorkers, LookupUser(w) PROVE Goal
  <2>1. userExists' \in BOOLEAN
    BY <1>3 DEF LookupUser
  <2>2. KeyTypeOK'
    BY <1>3, <2>1 DEF LookupUser
  <2>3. KeyTempInv'
    BY <1>3 DEF LookupUser
  <2> QED BY <2>2, <2>3
<1>4. ASSUME NEW w \in KeyWorkers, ReadKeys(w) PROVE Goal
  <2>1. KeyTypeOK'
    BY <1>4 DEF ReadKeys
  <2>2. KeyTempInv'
    BY <1>4 DEF ReadKeys
  <2> QED BY <2>1, <2>2
<1>5. ASSUME NEW w \in KeyWorkers, MakeTemp(w) PROVE Goal
  <2>1. keyTemps' \in Nat /\ (keyTemps' = keyTemps \/ keyTemps' > keyTemps)
    BY <1>5 DEF MakeTemp
  <2>2. KeyTypeOK'
    BY <1>5, <2>1 DEF MakeTemp
  <2>3. ASSUME NEW v \in KeyWorkers, keyStep'[v] \in {"fill", "rename"}
        PROVE  keyTemps' > 0
    <3>1. CASE v = w
      <4>1. keyTemps' = keyTemps + 1
        BY <1>5, <2>3, <3>1 DEF MakeTemp
      <4> QED BY <2>1, <4>1
    <3>2. CASE v # w
      <4>1. keyStep[v] \in {"fill", "rename"}
        BY <1>5, <2>3, <3>2 DEF MakeTemp
      <4> QED BY <2>1, <4>1
    <3> QED BY <3>1, <3>2
  <2> QED BY <2>2, <2>3
\* The worker that lets go of a temporary file is the only one that has one.
<1>6. ASSUME NEW w \in KeyWorkers, keyStep[w] \in {"fill", "rename"}
      PROVE  /\ keyTemps > 0
             /\ \A v \in KeyWorkers : v # w => keyStep[v] \notin {"fill", "rename"}
  BY <1>6 DEF KeyInv, Locked
<1>7. ASSUME NEW w \in KeyWorkers, FillTemp(w) PROVE Goal
  <2>1. keyTemps > 0 /\ keyTemps \in Nat /\ keyTemps' \in {keyTemps, keyTemps - 1}
    BY <1>6, <1>7 DEF FillTemp, DropTemp
  <2>2. keyTemps' \in Nat
    BY <2>1
  <2>3. KeyTypeOK'
    BY <1>7, <2>2 DEF FillTemp, DropTemp
  <2>4. ASSUME NEW v \in KeyWorkers, keyStep'[v] \in {"fill", "rename"}
        PROVE  keyTemps' = keyTemps
    BY <1>6, <1>7, <2>4 DEF FillTemp, DropTemp
  <2> QED BY <2>1, <2>3, <2>4
<1>8. ASSUME NEW w \in KeyWorkers, RenameTemp(w) PROVE Goal
  <2>1. keySeen[w] \in Seq(AllLines) /\ keyLine[w] \in KeyLines
        /\ keyOp[w] \in {"add", "remove", "list"}
    OBVIOUS
  <2>2. Edited(keyOp[w], keyLine[w], keySeen[w]) \in Seq(AllLines)
    BY <2>1, EditIsExact DEF ExactEdit
  <2>3. authFile' \in Seq(AllLines)
    BY <1>8, <2>2 DEF RenameTemp
  <2>4. keyTemps > 0 /\ keyTemps \in Nat /\ keyTemps' \in {keyTemps, keyTemps - 1}
    BY <1>6, <1>8 DEF RenameTemp, DropTemp
  <2>5. keyTemps' \in Nat
    BY <2>4
  <2>6. KeyTypeOK'
    BY <1>8, <2>3, <2>5 DEF RenameTemp, DropTemp
  <2>7. ASSUME NEW v \in KeyWorkers
        PROVE  keyStep'[v] \notin {"fill", "rename"}
    BY <1>6, <1>8 DEF RenameTemp, DropTemp
  <2> QED BY <2>6, <2>7
<1>9. CASE KeyCrash
  BY <1>9 DEF KeyCrash
<1>10. CASE UNCHANGED keyVars
  BY <1>10 DEF keyVars
<1> QED BY <1>1, <1>2, <1>3, <1>4, <1>5, <1>7, <1>8, <1>9, <1>10 DEF KeyNext

-----------------------------------------------------------------------------
(* Crontab: what a command makes of the table (cron_linux.go).             *)

\* A rewrite leaves the table a table, with no entry twice, and touches
\* nothing but entries of the two identifiers and comments.
Spares(cmd, table, after) ==
  /\ after \in Seq(CronLines)
  /\ Unique(after)
  /\ \A line \in CronLines :
       line.kind = "entry" /\ line.id # cmd.id /\ line.id # cmd.to =>
         ((\E i \in 1..Len(table) : table[i] = line)
            <=> (\E j \in 1..Len(after) : after[j] = line))

\* Entries and names are lines of a table.
LEMMA CronLineShape ==
        /\ NameLine \in CronLines /\ NameLine.kind = "name"
        /\ \A id \in EntryIds, on \in BOOLEAN :
             /\ Entry(id, on) \in CronLines
             /\ Entry(id, on).kind = "entry" /\ Entry(id, on).id = id
             /\ Entry(id, on).on = on
<1>1. (CHOOSE id \in EntryIds : TRUE) \in EntryIds
  BY CronAssumption DEF CronAssumption
<1> QED BY <1>1 DEF NameLine, CronLines, Entry

\* Added appends one entry that is not there yet, below its name.
LEMMA AddSpares ==
  ASSUME NEW cmd \in CronCmds, NEW table \in Seq(CronLines),
         Unique(table), Places(table, cmd.id) = {}
  PROVE  /\ Spares(cmd, table, Added(cmd, table))
         /\ \E i \in 1..Len(Added(cmd, table)) :
              Added(cmd, table)[i] = Entry(cmd.id, TRUE)
<1> DEFINE mid == IF cmd.name = "set" THEN <<NameLine>> ELSE <<>>
           e == Entry(cmd.id, TRUE)
           after == table \o mid \o <<e>>
<1>1. /\ e \in CronLines /\ e.kind = "entry" /\ e.id = cmd.id
      /\ NameLine \in CronLines /\ NameLine.kind = "name"
  BY CronLineShape DEF CronCmds
<1>2. /\ mid \in Seq(CronLines) /\ Len(mid) \in 0..1
      /\ \A i \in 1..Len(mid) : mid[i] = NameLine
  BY <1>1
<1> HIDE DEF mid, e
<1>3. /\ after \in Seq(CronLines) /\ Len(table) \in Nat
      /\ Len(after) = Len(table) + Len(mid) + 1
      /\ \A i \in 1..Len(table) : after[i] = table[i]
      /\ \A i \in 1..Len(mid) : after[Len(table) + i] = mid[i]
      /\ after[Len(table) + Len(mid) + 1] = e
  BY <1>1, <1>2
<1>4. after = Added(cmd, table)
  BY DEF Added, mid, e
<1> HIDE DEF after
<1>5. \A j \in 1..Len(after) :
        \/ j \in 1..Len(table) /\ after[j] = table[j]
        \/ after[j] = NameLine
        \/ j = Len(after) /\ after[j] = e
  <2> TAKE j \in 1..Len(after)
  <2>1. CASE j <= Len(table)
    BY <1>3, <2>1
  <2>2. CASE j > Len(table) /\ j <= Len(table) + Len(mid)
    <3>1. j - Len(table) \in 1..Len(mid) /\ j = Len(table) + (j - Len(table))
      BY <1>2, <1>3, <2>2
    <3> QED BY <1>2, <1>3, <3>1
  <2>3. CASE j = Len(table) + Len(mid) + 1
    BY <1>3, <2>3
  <2> QED BY <1>2, <1>3, <2>1, <2>2, <2>3
<1>6. \A i \in 1..Len(table) :
        table[i].kind = "entry" => table[i].id # cmd.id
  BY DEF Places, Is
<1>7. Unique(after)
  BY <1>1, <1>5, <1>6 DEF Unique
<1>8. ASSUME NEW line \in CronLines, line.kind = "entry", line.id # cmd.id
      PROVE  (\E i \in 1..Len(table) : table[i] = line)
               <=> (\E j \in 1..Len(after) : after[j] = line)
  <2>1. ASSUME NEW i \in 1..Len(table), table[i] = line
        PROVE  \E j \in 1..Len(after) : after[j] = line
    BY <1>2, <1>3, <2>1
  <2>2. ASSUME NEW j \in 1..Len(after), after[j] = line
        PROVE  \E i \in 1..Len(table) : table[i] = line
    BY <1>1, <1>5, <1>8, <2>2
  <2> QED BY <2>1, <2>2
<1>9. \E i \in 1..Len(after) : after[i] = e
  BY <1>2, <1>3
<1> QED BY <1>3, <1>4, <1>7, <1>8, <1>9 DEF Spares, e

\* Removed takes the entry out.
LEMMA RemoveSpares ==
  ASSUME NEW cmd \in CronCmds, NEW table \in Seq(CronLines), Unique(table)
  PROVE  /\ Spares(cmd, table, Removed(cmd, table))
         /\ Places(Removed(cmd, table), cmd.id) = {}
<1> DEFINE rest == (1..Len(table)) \ Places(table, cmd.id)
           after == Kept(table, rest)
<1> HIDE DEF rest
<1>1. after \in Seq(CronLines)
  BY KeptShape
<1>2. PICK from \in [1..Len(after) -> rest \cap (1..Len(table))] :
        /\ \A i \in 1..Len(after) : after[i] = table[from[i]]
        /\ \A i, j \in 1..Len(after) : i < j => from[i] < from[j]
        /\ \A k \in rest \cap (1..Len(table)) :
             \E i \in 1..Len(after) : from[i] = k
  BY KeptShape
<1>3. after = Removed(cmd, table)
  BY DEF Removed, rest
<1>4. \A i \in 1..Len(table) : i \in rest <=> ~Is(table[i], cmd.id)
  BY DEF Places, rest
<1> HIDE DEF after
<1>5. Unique(after)
  <2> SUFFICES ASSUME NEW i \in 1..Len(after), NEW j \in 1..Len(after),
                      after[i].kind = "entry", after[j].kind = "entry",
                      after[i].id = after[j].id, i # j
               PROVE  FALSE
    BY DEF Unique
  <2>1. from[i] \in 1..Len(table) /\ from[j] \in 1..Len(table)
    BY <1>2
  <2>2. from[i] = from[j]
    BY <1>2, <2>1 DEF Unique
  <2>3. Len(after) \in Nat /\ (i < j \/ j < i)
    BY <1>1
  <2>4. from[i] < from[j] \/ from[j] < from[i]
    BY <1>2, <2>3
  <2>5. from[i] \in Nat /\ from[j] \in Nat
    BY <2>1
  <2> QED BY <2>2, <2>4, <2>5
<1>6. ASSUME NEW line \in CronLines, line.kind = "entry", line.id # cmd.id
      PROVE  (\E i \in 1..Len(table) : table[i] = line)
               <=> (\E j \in 1..Len(after) : after[j] = line)
  <2>1. ASSUME NEW i \in 1..Len(table), table[i] = line
        PROVE  \E j \in 1..Len(after) : after[j] = line
    <3>1. i \in rest \cap (1..Len(table))
      BY <1>4, <1>6, <2>1 DEF Is
    <3> QED BY <1>2, <2>1, <3>1
  <2>2. ASSUME NEW j \in 1..Len(after), after[j] = line
        PROVE  \E i \in 1..Len(table) : table[i] = line
    BY <1>2, <2>2
  <2> QED BY <2>1, <2>2
<1>7. \A j \in 1..Len(after) : ~Is(after[j], cmd.id)
  BY <1>2, <1>4
<1> QED BY <1>1, <1>3, <1>5, <1>6, <1>7 DEF Spares, Places

\* Toggled changes the entry and no other line.
LEMMA ToggleSpares ==
  ASSUME NEW cmd \in CronCmds, NEW table \in Seq(CronLines),
         Unique(table), Places(table, cmd.id) # {}
  PROVE  /\ Spares(cmd, table, Toggled(cmd, table))
         /\ \E i \in 1..Len(Toggled(cmd, table)) :
              Toggled(cmd, table)[i] = Entry(cmd.id, cmd.on)
<1> DEFINE e == Entry(cmd.id, cmd.on)
           after == [i \in 1..Len(table) |->
                       IF Is(table[i], cmd.id) THEN e ELSE table[i]]
<1>1. e \in CronLines /\ e.kind = "entry" /\ e.id = cmd.id
  BY CronLineShape DEF CronCmds
<1>2. after = Toggled(cmd, table)
  BY DEF Toggled, e
<1> HIDE DEF e
<1>3. /\ after \in Seq(CronLines) /\ Len(after) = Len(table)
      /\ Len(table) \in Nat
      /\ \A i \in 1..Len(table) :
           after[i] = IF Is(table[i], cmd.id) THEN e ELSE table[i]
  BY <1>1
<1> HIDE DEF after
<1>4. \A i \in 1..Len(table) :
        after[i].kind = table[i].kind
          /\ (table[i].kind = "entry" => after[i].id = table[i].id)
  BY <1>1, <1>3 DEF Is
<1>5. Unique(after)
  BY <1>3, <1>4 DEF Unique
<1>6. ASSUME NEW line \in CronLines, line.kind = "entry", line.id # cmd.id
      PROVE  (\E i \in 1..Len(table) : table[i] = line)
               <=> (\E j \in 1..Len(after) : after[j] = line)
  BY <1>1, <1>3, <1>6 DEF Is
<1>7. PICK i \in 1..Len(table) : Is(table[i], cmd.id)
  BY DEF Places
<1>8. i \in 1..Len(after) /\ after[i] = e
  BY <1>3, <1>7
<1> QED BY <1>2, <1>3, <1>5, <1>6, <1>8 DEF Spares, e

\* The entry is where it was among the others; a comment right above it may
\* have gone, another may have come.
LEMMA UpdateSpares ==
  ASSUME NEW cmd \in CronCmds, NEW table \in Seq(CronLines),
         Unique(table), Places(table, cmd.id) # {},
         cmd.to # cmd.id => Places(table, cmd.to) = {}
  PROVE  /\ Spares(cmd, table, Updated(cmd, table))
         /\ \E i \in 1..Len(table), j \in 1..Len(Updated(cmd, table)) :
              /\ Is(table[i], cmd.id)
              /\ Updated(cmd, table)[j] = Entry(cmd.to, table[i].on)
         /\ cmd.to # cmd.id => Places(Updated(cmd, table), cmd.id) = {}
<1> DEFINE at == CHOOSE i \in Places(table, cmd.id) : TRUE
           named == at > 1 /\ table[at - 1].kind = "name"
           rename == cmd.name = "set" \/ (cmd.name = "keep" /\ named)
           cut == IF named THEN at - 2 ELSE at - 1
           mid == IF rename THEN <<NameLine>> ELSE <<>>
           e == Entry(cmd.to, table[at].on)
           above == SubSeq(table, 1, cut)
           below == SubSeq(table, at + 1, Len(table))
           after == above \o mid \o <<e>> \o below
<1>1. at \in 1..Len(table) /\ Is(table[at], cmd.id) /\ Len(table) \in Nat
  <2>1. at \in Places(table, cmd.id)
    OBVIOUS
  <2> HIDE DEF at
  <2> QED BY <2>1 DEF Places
<1>2. after = Updated(cmd, table)
  BY DEF Updated
<1> HIDE DEF at
<1>3. /\ e \in CronLines /\ e.kind = "entry" /\ e.id = cmd.to
      /\ NameLine \in CronLines /\ NameLine.kind = "name"
  <2>1. table[at] \in CronLines /\ cmd.to \in EntryIds
    BY <1>1 DEF CronCmds
  <2>2. table[at].on \in BOOLEAN
    BY <2>1 DEF CronLines
  <2> QED BY <2>1, <2>2, CronLineShape
<1>4. /\ mid \in Seq(CronLines) /\ Len(mid) \in 0..1
      /\ \A i \in 1..Len(mid) : mid[i] = NameLine
  BY <1>3
<1>5. cut \in 0..(at - 1) /\ at - 2 <= cut
      /\ (cut # at - 1 => cut = at - 2 /\ table[at - 1].kind = "name")
  BY <1>1
<1> HIDE DEF cut, mid, e, named, rename
<1>6. /\ above \in Seq(CronLines) /\ Len(above) = cut
      /\ \A i \in 1..cut : above[i] = table[i]
  BY <1>1, <1>5
<1>7. /\ below \in Seq(CronLines) /\ Len(below) = Len(table) - at
      /\ \A i \in 1..(Len(table) - at) : below[i] = table[at + i]
  BY <1>1
<1> HIDE DEF above, below
<1> DEFINE k == cut + Len(mid) + 1
<1>8. /\ after \in Seq(CronLines)
      /\ Len(after) = k + (Len(table) - at)
      /\ \A i \in 1..cut : after[i] = table[i]
      /\ \A i \in 1..Len(mid) : after[cut + i] = NameLine
      /\ after[k] = e
      /\ \A i \in 1..(Len(table) - at) : after[k + i] = table[at + i]
  <2> DEFINE front == above \o mid \o <<e>>
  <2>1. /\ front \in Seq(CronLines) /\ Len(front) = k
        /\ \A i \in 1..cut : front[i] = table[i]
        /\ \A i \in 1..Len(mid) : front[cut + i] = NameLine
        /\ front[k] = e
    <3> DEFINE top == above \o mid
    <3>1. /\ top \in Seq(CronLines) /\ Len(top) = cut + Len(mid)
          /\ \A i \in 1..cut : top[i] = table[i]
          /\ \A i \in 1..Len(mid) : top[cut + i] = NameLine
      <4>1. above \in Seq(CronLines) /\ mid \in Seq(CronLines)
        BY <1>4, <1>6
      <4>2. top \in Seq(CronLines)
        BY ONLY <4>1
      <4>3. Len(top) = Len(above) + Len(mid)
        BY ONLY <4>1
      <4>4. \A i \in 1..Len(above) : top[i] = above[i]
        BY ONLY <4>1
      <4>5. \A i \in 1..Len(mid) : top[Len(above) + i] = mid[i]
        BY ONLY <4>1
      <4> HIDE DEF top
      <4> QED BY <1>4, <1>6, <4>2, <4>3, <4>4, <4>5
    <3>2. front = top \o <<e>>
      OBVIOUS
    <3> HIDE DEF top, front
    <3>3. /\ front \in Seq(CronLines) /\ Len(front) = Len(top) + 1
          /\ \A i \in 1..Len(top) : front[i] = top[i]
          /\ front[Len(top) + 1] = e
      BY <1>3, <3>1, <3>2
    <3>4. cut \in Nat /\ Len(mid) \in Nat
      BY <1>1, <1>4, <1>5
    <3>5. \A i \in 1..cut : i \in 1..Len(top)
      BY <3>1, <3>4
    <3>6. \A i \in 1..Len(mid) : cut + i \in 1..Len(top)
      BY <3>1, <3>4
    <3> QED BY <3>1, <3>3, <3>5, <3>6
  <2>2. after = front \o below
    OBVIOUS
  <2>3. k \in Nat /\ cut \in Nat /\ Len(mid) \in Nat /\ cut < k /\ cut + Len(mid) < k
    BY <1>1, <1>4, <1>5
  <2> HIDE DEF front, k, after
  <2>4. /\ after \in Seq(CronLines) /\ Len(after) = k + (Len(table) - at)
        /\ \A i \in 1..k : after[i] = front[i]
        /\ \A i \in 1..(Len(table) - at) : after[k + i] = below[i]
    <3> DEFINE n == Len(table) - at
    <3>1. n \in Nat /\ Len(below) = n
      BY <1>1, <1>7
    <3>2. front \in Seq(CronLines) /\ below \in Seq(CronLines)
      BY <1>7, <2>1
    <3> HIDE DEF n
    <3>3. /\ after \in Seq(CronLines) /\ Len(after) = Len(front) + n
          /\ \A i \in 1..Len(front) : after[i] = front[i]
          /\ \A i \in 1..n : after[Len(front) + i] = below[i]
      <4>1. front \o below \in Seq(CronLines)
        BY ONLY <3>2
      <4>2. Len(front \o below) = Len(front) + n
        BY ONLY <3>1, <3>2
      <4>3. \A i \in 1..Len(front) : (front \o below)[i] = front[i]
        BY ONLY <3>2
      <4>4. \A i \in 1..n : (front \o below)[Len(front) + i] = below[i]
        BY ONLY <3>1, <3>2
      <4> QED BY <2>2, <4>1, <4>2, <4>3, <4>4
    <3>4. Len(front) = k
      BY <2>1
    <3> QED BY <3>3, <3>4 DEF n
  <2>5. /\ k \in 1..k
        /\ \A i \in 1..cut : i \in 1..k
        /\ \A i \in 1..Len(mid) : cut + i \in 1..k
    BY <2>3
  <2> QED BY <1>7, <2>1, <2>4, <2>5
<1>9. k \in Nat /\ cut \in Nat /\ at \in Nat /\ Len(mid) \in Nat
      /\ k = cut + Len(mid) + 1
  BY <1>1, <1>4, <1>5
<1> HIDE DEF after, k
<1> DEFINE p == [j \in 1..Len(after) |->
                   IF j <= cut THEN j ELSE IF j < k THEN 0
                   ELSE at + (j - k)]
<1>10. ASSUME NEW j \in 1..Len(after)
       PROVE  /\ p[j] = 0 => after[j] = NameLine
              /\ p[j] # 0 => p[j] \in 1..Len(table)
              /\ p[j] = at => j = k
              /\ p[j] # 0 /\ p[j] # at => after[j] = table[p[j]]
  <2>1. CASE j <= cut
    <3>1. p[j] = j /\ j \in 1..cut
      BY <2>1
    <3> QED BY <1>1, <1>5, <1>8, <3>1
  <2>2. CASE cut < j /\ j < k
    <3>1. p[j] = 0 /\ j - cut \in 1..Len(mid) /\ j = cut + (j - cut)
      BY <1>9, <2>2
    <3> QED BY <1>1, <1>8, <3>1
  <2>3. CASE j = k
    <3>1. p[j] = at
      BY <1>9, <2>3
    <3> QED BY <1>1, <2>3, <3>1
  <2>4. CASE k < j
    <3>1. j \in Nat /\ Len(after) = k + (Len(table) - at)
      BY <1>8
    <3>2. j - k \in 1..(Len(table) - at) /\ j = k + (j - k)
      BY <1>1, <1>9, <2>4, <3>1
    <3>3. p[j] = at + (j - k)
      BY <1>9, <2>4, <3>1
    <3>4. after[j] = table[p[j]]
      <4>1. after[k + (j - k)] = table[at + (j - k)]
        BY <1>8, <3>2
      <4> QED BY <3>2, <3>3, <4>1
    <3>5. p[j] \in 1..Len(table) /\ p[j] # at /\ p[j] # 0
      <4> DEFINE d == j - k
      <4>1. d \in 1..(Len(table) - at) /\ p[j] = at + d
        BY <3>2, <3>3
      <4> HIDE DEF d, p
      <4> QED BY <1>1, <1>9, <4>1
    <3> QED BY <3>4, <3>5
  <2> QED BY <1>9, <2>1, <2>2, <2>3, <2>4
<1>11. \A i, j \in 1..Len(after) : p[i] = p[j] /\ p[i] # 0 => i = j
  <2>1. cut < at /\ Len(after) \in Nat
    BY <1>1, <1>5, <1>8
  <2>2. ASSUME NEW m \in 1..Len(after)
        PROVE  /\ m \in Nat
               /\ m <= cut => p[m] = m /\ p[m] < at
               /\ cut < m /\ m < k => p[m] = 0
               /\ k <= m => p[m] = at + (m - k) /\ at <= p[m]
    BY <1>9, <2>1
  <2> HIDE DEF p
  <2> TAKE i, j \in 1..Len(after)
  <2> HAVE p[i] = p[j] /\ p[i] # 0
  <2>3. CASE i <= cut /\ j <= cut
    BY <2>2, <2>3
  <2>4. CASE i <= cut /\ k <= j
    <3>1. p[i] = i /\ i < at /\ i \in Nat /\ at <= p[j] /\ at \in Nat
      BY <1>9, <2>2, <2>4
    <3> QED BY <3>1
  <2>5. CASE k <= i /\ j <= cut
    <3>1. p[j] = j /\ j < at /\ j \in Nat /\ at <= p[i] /\ at \in Nat
      BY <1>9, <2>2, <2>5
    <3> QED BY <3>1
  <2>6. CASE k <= i /\ k <= j
    <3>1. at + (i - k) = at + (j - k) /\ {i, j, k, at} \subseteq Nat
      BY <1>9, <2>2, <2>6
    <3> QED BY <3>1
  <2>7. ~(cut < i /\ i < k) /\ ~(cut < j /\ j < k)
    BY <2>2
  <2> QED BY <1>9, <2>2, <2>3, <2>4, <2>5, <2>6, <2>7
<1> HIDE DEF p
<1>12. \A j \in 1..Len(table) :
         table[j].kind = "entry" /\ j # at => table[j].id # cmd.id /\ table[j].id # cmd.to
  BY <1>1 DEF Unique, Places, Is
<1>13. Unique(after)
  <2> SUFFICES ASSUME NEW i \in 1..Len(after), NEW j \in 1..Len(after),
                      after[i].kind = "entry", after[j].kind = "entry",
                      after[i].id = after[j].id
               PROVE  i = j
    BY DEF Unique
  <2>1. p[i] \in 1..Len(table) /\ p[j] \in 1..Len(table)
    BY <1>3, <1>10
  <2>2. CASE p[i] # at /\ p[j] # at
    <3>1. p[i] = p[j]
      <4>1. after[i] = table[p[i]] /\ after[j] = table[p[j]]
        BY <1>10, <2>1, <2>2
      <4> QED BY <2>1, <4>1 DEF Unique
    <3> QED BY <1>11, <2>1, <3>1
  <2>3. CASE p[i] = at /\ p[j] # at
    <3>1. after[i] = e
      <4>1. i = k
        BY <1>10, <2>3
      <4> QED BY <1>8, <4>1
    <3>2. after[j] = table[p[j]]
      BY <1>10, <2>1, <2>3
    <3> QED BY <1>3, <1>12, <2>1, <2>3, <3>1, <3>2
  <2>4. CASE p[i] # at /\ p[j] = at
    <3>1. after[j] = e
      BY <1>8, <1>10, <2>4
    <3>2. after[i] = table[p[i]]
      BY <1>10, <2>1, <2>4
    <3> QED BY <1>3, <1>12, <2>1, <2>4, <3>1, <3>2
  <2>5. CASE p[i] = at /\ p[j] = at
    BY <1>10, <2>5
  <2> QED BY <2>2, <2>3, <2>4, <2>5
<1>14. ASSUME NEW line \in CronLines, line.kind = "entry",
              line.id # cmd.id, line.id # cmd.to
       PROVE  (\E i \in 1..Len(table) : table[i] = line)
                <=> (\E j \in 1..Len(after) : after[j] = line)
  <2>1. ASSUME NEW i \in 1..Len(table), table[i] = line
        PROVE  \E j \in 1..Len(after) : after[j] = line
    <3>1. i # at /\ (cut # at - 1 => i # at - 1)
      <4>1. i # at
        BY <1>1, <1>14, <2>1 DEF Is
      <4>2. ASSUME cut # at - 1 PROVE i # at - 1
        <5>1. table[at - 1].kind = "name"
          BY <1>5, <4>2
        <5> QED BY <1>14, <2>1, <5>1
      <4> QED BY <4>1, <4>2
    <3>2. i <= cut \/ i > at
      BY <1>5, <1>9, <3>1
    <3>3. CASE i <= cut
      <4>1. i \in 1..cut /\ i \in 1..Len(after)
        BY <1>1, <1>8, <1>9, <3>3
      <4> QED BY <1>8, <2>1, <4>1
    <3>4. CASE i > at
      <4>1. /\ i - at \in 1..(Len(table) - at) /\ at + (i - at) = i
            /\ k + (i - at) \in 1..Len(after)
        BY <1>1, <1>8, <1>9, <3>4
      <4>2. after[k + (i - at)] = table[at + (i - at)]
        BY <1>8, <4>1
      <4> QED BY <2>1, <4>1, <4>2
    <3> QED BY <3>2, <3>3, <3>4
  <2>2. ASSUME NEW j \in 1..Len(after), after[j] = line
        PROVE  \E i \in 1..Len(table) : table[i] = line
    <3>1. p[j] # 0
      BY <1>3, <1>10, <1>14, <2>2
    <3>2. p[j] # at
      BY <1>3, <1>8, <1>10, <1>14, <2>2
    <3> QED BY <1>10, <2>2, <3>1, <3>2
  <2> QED BY <2>1, <2>2
<1>15. k \in 1..Len(after) /\ after[k] = e
  BY <1>1, <1>8, <1>9
<1>16. Spares(cmd, table, after)
  BY <1>8, <1>13, <1>14 DEF Spares
<1>17. after[k] = Entry(cmd.to, table[at].on)
  BY <1>15 DEF e
<1>18. ASSUME cmd.to # cmd.id PROVE Places(after, cmd.id) = {}
  <2> SUFFICES ASSUME NEW j \in 1..Len(after), Is(after[j], cmd.id)
               PROVE  FALSE
    BY DEF Places
  <2>1. p[j] # 0
    BY <1>3, <1>10 DEF Is
  <2>2. p[j] # at
    BY <1>3, <1>8, <1>10, <1>18 DEF Is
  <2>3. after[j] = table[p[j]] /\ p[j] \in 1..Len(table)
    BY <1>10, <2>1, <2>2
  <2> QED BY <1>12, <2>2, <2>3 DEF Is
<1> QED BY <1>1, <1>2, <1>15, <1>16, <1>17, <1>18

\* No rewrite that is not refused does more than its command says.
LEMMA RewriteSpares ==
  ASSUME NEW cmd \in CronCmds, NEW table \in Seq(CronLines),
         Unique(table), ~Refused(cmd, table)
  PROVE  Spares(cmd, table, Rewritten(cmd, table))
<1>1. cmd.verb \in {"add", "update", "remove", "toggle"}
  BY DEF CronCmds
<1>2. CASE cmd.verb = "add"
  <2>1. Places(table, cmd.id) = {}
    BY <1>2 DEF Refused
  <2>2. Spares(cmd, table, Added(cmd, table))
    BY <2>1, AddSpares
  <2>3. Rewritten(cmd, table) = Added(cmd, table)
    BY <1>2 DEF Rewritten
  <2> QED BY <2>2, <2>3
<1>3. CASE cmd.verb = "remove"
  <2>1. Spares(cmd, table, Removed(cmd, table))
    BY RemoveSpares
  <2>2. Rewritten(cmd, table) = Removed(cmd, table)
    BY <1>3 DEF Rewritten
  <2> QED BY <2>1, <2>2
<1>4. CASE cmd.verb = "toggle"
  <2>1. Places(table, cmd.id) # {}
    BY <1>4 DEF Refused
  <2>2. Spares(cmd, table, Toggled(cmd, table))
    BY <2>1, ToggleSpares
  <2>3. Rewritten(cmd, table) = Toggled(cmd, table)
    BY <1>4 DEF Rewritten
  <2> QED BY <2>2, <2>3
<1>5. CASE cmd.verb = "update"
  <2>1. /\ Places(table, cmd.id) # {}
        /\ cmd.to # cmd.id => Places(table, cmd.to) = {}
    BY <1>5 DEF Refused
  <2>2. Spares(cmd, table, Updated(cmd, table))
    BY <2>1, UpdateSpares
  <2>3. Rewritten(cmd, table) = Updated(cmd, table)
    BY <1>5 DEF Rewritten
  <2> QED BY <2>2, <2>3
<1> QED BY <1>1, <1>2, <1>3, <1>4, <1>5

(* A cron command does what it says to the table it has read, whatever that *)
(* holds: add writes the entry and is refused from then on, so a retry     *)
(* makes no second row; remove leaves nothing of it; toggle sets it; update *)
(* moves it to its new identifier, as enabled or disabled as it was, and   *)
(* the old one is gone.  No other entry is touched (cron_linux.go:101-240, *)
(* cron_parse.go).                                                         *)
THEOREM RewriteIsExact ==
  ASSUME NEW cmd \in CronCmds, NEW table \in Seq(CronLines),
         Unique(table), ~Refused(cmd, table)
  PROVE  LET after == Rewritten(cmd, table) IN
         /\ Spares(cmd, table, after)
         /\ cmd.verb = "add" =>
              /\ \E i \in 1..Len(after) : after[i] = Entry(cmd.id, TRUE)
              /\ Refused(cmd, after)
         /\ cmd.verb = "remove" => Refused(cmd, after)
         /\ cmd.verb = "toggle" =>
              \E i \in 1..Len(after) : after[i] = Entry(cmd.id, cmd.on)
         /\ cmd.verb = "update" =>
              /\ \E i \in 1..Len(table), j \in 1..Len(after) :
                   /\ Is(table[i], cmd.id)
                   /\ after[j] = Entry(cmd.to, table[i].on)
              /\ cmd.to # cmd.id => Refused(cmd, after)
<1> DEFINE after == Rewritten(cmd, table)
<1>1. Spares(cmd, table, after)
  BY RewriteSpares
<1>2. ASSUME cmd.verb = "add"
      PROVE  /\ \E i \in 1..Len(after) : after[i] = Entry(cmd.id, TRUE)
             /\ Refused(cmd, after)
  <2>1. after = Added(cmd, table) /\ Places(table, cmd.id) = {}
    BY <1>2 DEF Rewritten, Refused
  <2> HIDE DEF after
  <2>2. PICK i \in 1..Len(after) : after[i] = Entry(cmd.id, TRUE)
    BY <2>1, AddSpares
  <2>3. i \in Places(after, cmd.id)
    <3>1. Is(Entry(cmd.id, TRUE), cmd.id)
      BY DEF Is, Entry
    <3> QED BY <2>2, <3>1 DEF Places
  <2> QED BY <1>2, <2>2, <2>3 DEF Refused
<1>3. ASSUME cmd.verb = "remove" PROVE Refused(cmd, after)
  <2>1. after = Removed(cmd, table)
    BY <1>3 DEF Rewritten
  <2> HIDE DEF after
  <2>2. Places(after, cmd.id) = {}
    BY <2>1, RemoveSpares
  <2> QED BY <1>3, <2>2 DEF Refused
<1>4. ASSUME cmd.verb = "toggle"
      PROVE  \E i \in 1..Len(after) : after[i] = Entry(cmd.id, cmd.on)
  <2>1. after = Toggled(cmd, table) /\ Places(table, cmd.id) # {}
    BY <1>4 DEF Rewritten, Refused
  <2> HIDE DEF after
  <2> QED BY <2>1, ToggleSpares
<1>5. ASSUME cmd.verb = "update"
      PROVE  /\ \E i \in 1..Len(table), j \in 1..Len(after) :
                  /\ Is(table[i], cmd.id)
                  /\ after[j] = Entry(cmd.to, table[i].on)
             /\ cmd.to # cmd.id => Refused(cmd, after)
  <2>1. /\ after = Updated(cmd, table) /\ Places(table, cmd.id) # {}
        /\ cmd.to # cmd.id => Places(table, cmd.to) = {}
    BY <1>5 DEF Rewritten, Refused
  <2> HIDE DEF after
  <2>2. /\ \E i \in 1..Len(table), j \in 1..Len(after) :
             /\ Is(table[i], cmd.id)
             /\ after[j] = Entry(cmd.to, table[i].on)
        /\ cmd.to # cmd.id => Places(after, cmd.id) = {}
    BY <2>1, UpdateSpares
  <2> QED BY <1>5, <2>2 DEF Refused
<1> HIDE DEF after
<1>6. /\ Spares(cmd, table, after)
      /\ cmd.verb = "add" =>
           /\ \E i \in 1..Len(after) : after[i] = Entry(cmd.id, TRUE)
           /\ Refused(cmd, after)
      /\ cmd.verb = "remove" => Refused(cmd, after)
      /\ cmd.verb = "toggle" =>
           \E i \in 1..Len(after) : after[i] = Entry(cmd.id, cmd.on)
      /\ cmd.verb = "update" =>
           /\ \E i \in 1..Len(table), j \in 1..Len(after) :
                /\ Is(table[i], cmd.id)
                /\ after[j] = Entry(cmd.to, table[i].on)
           /\ cmd.to # cmd.id => Refused(cmd, after)
  BY <1>1, <1>2, <1>3, <1>4, <1>5
<1> QED BY <1>6 DEF after

LEMMA CronInvInit == CronInit => CronTypeOK /\ CronInv
<1> SUFFICES ASSUME CronInit PROVE CronTypeOK /\ CronInv
  OBVIOUS
<1>1. (CHOOSE c \in CronCmds : TRUE) \in CronCmds
  <2>1. PICK id \in EntryIds : TRUE
    BY CronAssumption DEF CronAssumption
  <2>2. [verb |-> "add", id |-> id, to |-> id, name |-> "keep", on |-> TRUE]
          \in CronCmds
    BY DEF CronCmds
  <2> QED BY <2>2
<1>2. crontab \in Seq(CronLines) /\ Unique(crontab)
  BY CronAssumption DEF CronInit, CronAssumption
<1>3. CronTypeOK
  <2>1. <<>> \in Seq(CronLines)
    OBVIOUS
  <2> QED BY CronAssumption, <1>1, <1>2, <2>1
       DEF CronInit, CronTypeOK, CronAssumption
<1>4. CrontabSafe
  BY <1>2 DEF CronInit, CrontabSafe, KeepsUnnamed
<1> QED BY <1>3, <1>4 DEF CronInit, CronInv

\* What is installed is a table: the rewrite of one without doubles.
LEMMA CronTypeNext ==
  CronTypeOK /\ CronInv /\ [CronNext]_cronVars => CronTypeOK'
<1> SUFFICES ASSUME CronTypeOK, CronInv, [CronNext]_cronVars
             PROVE  CronTypeOK'
  OBVIOUS
<1> USE DEF CronTypeOK
<1>1. ASSUME NEW w \in CronWorkers, CronStart(w) PROVE CronTypeOK'
  <2>1. PICK cmd \in CronCmds :
          /\ cronCmd' = [cronCmd EXCEPT ![w] = cmd]
          /\ cronNamed' = cronNamed \cup {cmd.id, cmd.to}
    BY <1>1 DEF CronStart
  <2>2. cmd.id \in EntryIds /\ cmd.to \in EntryIds
    BY DEF CronCmds
  <2>3. cronLeft' \in 0..MaxCronCmds
    BY CronAssumption, <1>1 DEF CronStart, CronAssumption
  <2> QED BY <1>1, <2>1, <2>2, <2>3 DEF CronStart
<1>2. ASSUME NEW w \in CronWorkers, ReadCrontab(w) PROVE CronTypeOK'
  <2>1. ~Refused(cronCmd[w], crontab) =>
          Rewritten(cronCmd[w], crontab) \in Seq(CronLines)
    <3>1. cronCmd[w] \in CronCmds /\ crontab \in Seq(CronLines) /\ Unique(crontab)
      BY DEF CronInv, CrontabSafe
    <3> QED BY <3>1, RewriteSpares DEF Spares
  <2> QED BY <1>2, <2>1 DEF ReadCrontab
<1>3. ASSUME NEW w \in CronWorkers, WriteCrontab(w) PROVE CronTypeOK'
  <2>1. <<>> \in Seq(CronLines)
    OBVIOUS
  <2> QED BY <1>3, <2>1 DEF WriteCrontab
<1>4. CASE CronCrash
  <2>1. <<>> \in Seq(CronLines)
    OBVIOUS
  <2> QED BY <1>4, <2>1 DEF CronCrash
<1>5. CASE UNCHANGED cronVars
  BY <1>5 DEF cronVars
<1> QED BY <1>1, <1>2, <1>3, <1>4, <1>5 DEF CronNext

\* A rewrite of a table that keeps the entries nobody named keeps them, as its
\* own identifiers are named.
LEMMA RewriteKeepsUnnamed ==
  ASSUME CronTypeOK, NEW cmd \in CronCmds, {cmd.id, cmd.to} \subseteq cronNamed,
         NEW table, NEW after,
         Spares(cmd, table, after), KeepsUnnamed(table)
  PROVE  KeepsUnnamed(after)
<1> SUFFICES ASSUME NEW i \in 1..Len(cronFirst),
                    cronFirst[i].kind = "entry",
                    cronFirst[i].id \notin cronNamed
             PROVE  \E j \in 1..Len(after) : after[j] = cronFirst[i]
  BY DEF KeepsUnnamed
<1>1. cronFirst[i] \in CronLines
  BY DEF CronTypeOK
<1>2. \E j \in 1..Len(table) : table[j] = cronFirst[i]
  BY DEF KeepsUnnamed
<1> QED BY <1>1, <1>2 DEF Spares

\* What is installed was read from a table that had the property, however long
\* ago, and rewritten for entries that have been named.
LEMMA CronInvNext ==
  CronTypeOK /\ CronInv /\ [CronNext]_cronVars => CronInv'
<1> SUFFICES ASSUME CronTypeOK, CronInv, [CronNext]_cronVars
             PROVE  CronInv'
  OBVIOUS
<1>1. ASSUME NEW w \in CronWorkers, CronStart(w) PROVE CronInv'
  <2>1. PICK cmd \in CronCmds :
          /\ cronCmd' = [cronCmd EXCEPT ![w] = cmd]
          /\ cronNamed' = cronNamed \cup {cmd.id, cmd.to}
    BY <1>1 DEF CronStart
  <2>2. CrontabSafe'
    BY <1>1, <2>1 DEF CronStart, CronInv, CrontabSafe, KeepsUnnamed
  <2>3. ASSUME NEW v \in CronWorkers
        PROVE  /\ cronStep'[v] = "install" =>
                    Unique(cronSeen'[v]) /\ KeepsUnnamed(cronSeen[v])'
               /\ cronStep'[v] # "idle" =>
                    {cronCmd'[v].id, cronCmd'[v].to} \subseteq cronNamed'
    BY <1>1, <2>1 DEF CronStart, CronInv, CronTypeOK, KeepsUnnamed
  <2> QED BY <2>2, <2>3 DEF CronInv
<1>2. ASSUME NEW w \in CronWorkers, ReadCrontab(w) PROVE CronInv'
  <2>1. CrontabSafe'
    BY <1>2 DEF ReadCrontab, CronInv, CrontabSafe, KeepsUnnamed
  <2>2. ASSUME NEW v \in CronWorkers
        PROVE  /\ cronStep'[v] = "install" =>
                    Unique(cronSeen'[v]) /\ KeepsUnnamed(cronSeen'[v])
               /\ cronStep'[v] # "idle" =>
                    {cronCmd'[v].id, cronCmd'[v].to} \subseteq cronNamed'
    <3>1. CASE v # w
      BY <1>2, <3>1 DEF ReadCrontab, CronInv, CronTypeOK
    <3>2. CASE v = w /\ cronStep'[w] # "install"
      BY <1>2, <3>2 DEF ReadCrontab, CronInv, CronTypeOK
    <3>3. CASE v = w /\ cronStep'[w] = "install"
      <4>1. /\ ~Refused(cronCmd[w], crontab)
            /\ cronSeen'[w] = Rewritten(cronCmd[w], crontab)
        BY <1>2, <3>3 DEF ReadCrontab, CronTypeOK
      <4>2. /\ cronCmd[w] \in CronCmds /\ crontab \in Seq(CronLines)
            /\ Unique(crontab) /\ KeepsUnnamed(crontab)
            /\ {cronCmd[w].id, cronCmd[w].to} \subseteq cronNamed
        BY <1>2 DEF ReadCrontab, CronInv, CrontabSafe, CronTypeOK
      <4>3. Spares(cronCmd[w], crontab, cronSeen'[w])
        BY <4>1, <4>2, RewriteSpares
      <4>4. KeepsUnnamed(cronSeen'[w])
        BY <4>2, <4>3, RewriteKeepsUnnamed
      <4> QED BY <1>2, <3>3, <4>2, <4>3, <4>4 DEF ReadCrontab, Spares
    <3> QED BY <3>1, <3>2, <3>3
  <2> QED BY <1>2, <2>1, <2>2 DEF CronInv, KeepsUnnamed, ReadCrontab
<1>3. ASSUME NEW w \in CronWorkers, WriteCrontab(w) PROVE CronInv'
  <2>1. CrontabSafe'
    BY <1>3 DEF WriteCrontab, CronInv, CrontabSafe, KeepsUnnamed
  <2>2. ASSUME NEW v \in CronWorkers
        PROVE  /\ cronStep'[v] = "install" =>
                    v # w /\ cronStep[v] = "install" /\ cronSeen'[v] = cronSeen[v]
               /\ cronStep'[v] # "idle" =>
                    v # w /\ cronStep[v] # "idle" /\ cronCmd'[v] = cronCmd[v]
                      /\ cronNamed' = cronNamed
    BY <1>3 DEF WriteCrontab, CronTypeOK
  <2> QED BY <1>3, <2>1, <2>2 DEF CronInv, KeepsUnnamed, WriteCrontab
<1>4. CASE CronCrash
  BY <1>4 DEF CronCrash, CronInv, CrontabSafe, KeepsUnnamed
<1>5. CASE UNCHANGED cronVars
  BY <1>5 DEF cronVars, CronInv, CrontabSafe, KeepsUnnamed
<1> QED BY <1>1, <1>2, <1>3, <1>4, <1>5 DEF CronNext

-----------------------------------------------------------------------------
USE KeysAssumption, LockAssumption, UpdateAssumption, CredsAssumption,
    TermAssumption, LinkAssumption

-----------------------------------------------------------------------------
(* AuthorizedKeys.                                                         *)

LEMMA KeyInvInit == KeyInit => KeyInv
BY DEF KeysAssumption, KeyInit, KeyInv, KeySteps, Locked

\* A worker that holds the mutex is the only one past the lock.
LEMMA KeyInvNext == KeyInv /\ [KeyNext]_keyVars => KeyInv'
<1> SUFFICES ASSUME KeyInv, [KeyNext]_keyVars PROVE KeyInv'
  OBVIOUS
<1> USE DEF KeysAssumption, KeyInv, KeyAt, KeyFinish, DropTemp, KeySteps,
            Locked
<1>1. ASSUME NEW w \in KeyWorkers, KeyStart(w) PROVE KeyInv'
  BY <1>1 DEF KeyStart
<1>2. ASSUME NEW w \in KeyWorkers, LockKeys(w) PROVE KeyInv'
  BY <1>2 DEF LockKeys
<1>3. ASSUME NEW w \in KeyWorkers, LookupUser(w) PROVE KeyInv'
  BY <1>3 DEF LookupUser
<1>4. ASSUME NEW w \in KeyWorkers, ReadKeys(w) PROVE KeyInv'
  BY <1>4 DEF ReadKeys
<1>5. ASSUME NEW w \in KeyWorkers, MakeTemp(w) PROVE KeyInv'
  BY <1>5 DEF MakeTemp
<1>6. ASSUME NEW w \in KeyWorkers, FillTemp(w) PROVE KeyInv'
  BY <1>6 DEF FillTemp
<1>7. ASSUME NEW w \in KeyWorkers, RenameTemp(w) PROVE KeyInv'
  BY <1>7 DEF RenameTemp
<1>8. CASE KeyCrash
  BY <1>8 DEF KeyCrash
<1>9. CASE UNCHANGED keyVars
  BY <1>9 DEF keyVars
<1> QED
  BY <1>1, <1>2, <1>3, <1>4, <1>5, <1>6, <1>7, <1>8, <1>9 DEF KeyNext

\* Only the rename changes the file, and by KeyInv what it edits is what the
\* file holds.
LEMMA KeyEditIsFresh ==
  KeyInv /\ [KeyNext]_keyVars =>
    [authFile' # authFile =>
       \E w \in KeyWorkers :
         authFile' = Edited(keyOp[w], keyLine[w], authFile)]_keyVars
<1> SUFFICES ASSUME KeyInv, [KeyNext]_keyVars, authFile' # authFile
             PROVE  \E w \in KeyWorkers :
                      authFile' = Edited(keyOp[w], keyLine[w], authFile)
  OBVIOUS
<1>1. PICK w \in KeyWorkers : RenameTemp(w)
  BY DEF KeyNext, keyVars, KeyStart, LockKeys, LookupUser, ReadKeys,
         MakeTemp, FillTemp, KeyCrash
<1>2. keySeen[w] = authFile
  BY <1>1 DEF KeyInv, RenameTemp
<1> QED
  BY <1>1, <1>2 DEF RenameTemp, DropTemp
-----------------------------------------------------------------------------
(* OriginLock.                                                             *)

\* What is still to be allowed are rules for Cloudflare, what is still to be
\* reopened rules for everyone.
LockLoops ==
  \A w \in LockWorkers :
    /\ lockStep[w] = "allow" => lockTodo[w] \subseteq Ranges \X Ports
    /\ lockStep[w] = "reopen" => lockTodo[w] \subseteq {"tcp"} \X Ports

LEMMA LockTypeInit == LockInit => LockTypeOK /\ LockLoops
<1> SUFFICES ASSUME LockInit PROVE LockTypeOK /\ LockLoops
  OBVIOUS
<1> USE LockAssumption DEF LockAssumption, LockInit
<1>1. public \subseteq Forms \X Ports
  OBVIOUS
<1>2. LockTypeOK
  <2>1. tagged \subseteq Ranges \X Ports /\ entangled \in BOOLEAN
    OBVIOUS
  <2>2. /\ lockStep \in [LockWorkers -> ApplySteps \cup RemoveSteps \cup {"idle"}]
        /\ lockPorts \in [LockWorkers -> SUBSET Ports]
        /\ lockTodo \in [LockWorkers -> SUBSET ((Ranges \cup Forms) \X Ports)]
        /\ lockLeft \in 0..MaxLocks
    OBVIOUS
  <2> QED BY <1>1, <2>1, <2>2 DEF LockTypeOK
<1> QED BY <1>2 DEF LockLoops

LEMMA LockTypeNext ==
  LockTypeOK /\ LockLoops /\ [LockNext]_lockVars => (LockTypeOK /\ LockLoops)'
<1> SUFFICES ASSUME LockTypeOK, LockLoops, [LockNext]_lockVars
             PROVE  LockTypeOK' /\ LockLoops'
  OBVIOUS
<1> DEFINE Goal == LockTypeOK' /\ LockLoops'
           Rules == (Ranges \cup Forms) \X Ports
<1>0. /\ \A rs \in SUBSET Ports : Ranges \X rs \subseteq Ranges \X Ports
      /\ \A rs \in SUBSET Ports : {"tcp"} \X rs \subseteq {"tcp"} \X Ports
      /\ \A rs \in SUBSET Ports, fs \in SUBSET Forms : fs \X rs \subseteq Rules
      /\ Ranges \X Ports \subseteq Rules
      /\ {"tcp"} \X Ports \subseteq Forms \X Ports
      /\ Forms \X Ports \subseteq Rules
      /\ "tcp" \in Forms
  BY DEF Forms
<1>a. /\ tagged \subseteq Ranges \X Ports /\ public \subseteq Forms \X Ports
      /\ lockStep \in [LockWorkers -> ApplySteps \cup RemoveSteps \cup {"idle"}]
      /\ lockPorts \in [LockWorkers -> SUBSET Ports]
      /\ lockTodo \in [LockWorkers -> SUBSET Rules]
      /\ lockLeft \in 0..MaxLocks /\ entangled \in BOOLEAN
  BY DEF LockTypeOK
<1> DEFINE TypedNext ==
             /\ tagged' \subseteq Ranges \X Ports
             /\ public' \subseteq Forms \X Ports
             /\ lockStep' \in [LockWorkers -> ApplySteps \cup RemoveSteps \cup {"idle"}]
             /\ lockPorts' \in [LockWorkers -> SUBSET Ports]
             /\ lockTodo' \in [LockWorkers -> SUBSET Rules]
             /\ lockLeft' \in 0..MaxLocks /\ entangled' \in BOOLEAN
           LoopsNext ==
             \A v \in LockWorkers :
               /\ lockStep'[v] = "allow" => lockTodo'[v] \subseteq Ranges \X Ports
               /\ lockStep'[v] = "reopen" => lockTodo'[v] \subseteq {"tcp"} \X Ports
<1>b. TypedNext /\ LoopsNext => Goal
  BY DEF LockTypeOK, LockLoops
<1>c. /\ \A v \in LockWorkers :
           /\ lockStep[v] = "allow" => lockTodo[v] \subseteq Ranges \X Ports
           /\ lockStep[v] = "reopen" => lockTodo[v] \subseteq {"tcp"} \X Ports
  BY DEF LockLoops
<1> HIDE DEF Rules
<1> USE <1>0, <1>a, <1>c DEF At, Todo, LockGoOn, LockFinish, ApplySteps, RemoveSteps
<1>1. ASSUME NEW w \in LockWorkers, LockStart(w) PROVE TypedNext /\ LoopsNext
  <2>1. lockLeft' \in 0..MaxLocks
    BY <1>1, LockAssumption DEF LockStart, LockAssumption
  <2>2. entangled' \in BOOLEAN
    BY <1>1 DEF LockStart
  <2>3. PICK step \in {"apply", "remove"}, ps \in SUBSET Ports \ {{}} :
          At(w, step) /\ lockPorts' = [lockPorts EXCEPT ![w] = ps]
    BY <1>1 DEF LockStart
  <2> QED BY <1>1, <2>1, <2>2, <2>3 DEF LockStart
<1>2. ASSUME NEW w \in LockWorkers, Preflight(w) PROVE TypedNext /\ LoopsNext
  <2>1. CASE lockStep[w] = "apply" /\ At(w, "allow")
             /\ Todo(w, Ranges \X lockPorts[w]) /\ LockGoOn
    <3>1. Ranges \X lockPorts[w] \subseteq Ranges \X Ports
      OBVIOUS
    <3> QED BY <1>2, <2>1, <3>1 DEF Preflight
  <2>2. CASE lockStep[w] = "remove" /\ At(w, "reopen")
             /\ Todo(w, {"tcp"} \X lockPorts[w]) /\ LockGoOn
    <3>1. {"tcp"} \X lockPorts[w] \subseteq {"tcp"} \X Ports
      OBVIOUS
    <3> QED BY <1>2, <2>2, <3>1 DEF Preflight
  <2>3. CASE LockFinish(w)
    BY <1>2, <2>3 DEF Preflight
  <2> QED BY <1>2, <2>1, <2>2, <2>3 DEF Preflight
<1>3. ASSUME NEW w \in LockWorkers, Allow(w) PROVE TypedNext /\ LoopsNext
  BY <1>3 DEF Allow
<1>4. ASSUME NEW w \in LockWorkers, AllAllowed(w) PROVE TypedNext /\ LoopsNext
  <2>1. PICK forms \in {Forms, Forms \ {"profile"}} :
          Todo(w, forms \X lockPorts[w])
    BY <1>4 DEF AllAllowed
  <2>2. forms \X lockPorts[w] \subseteq Rules
    OBVIOUS
  <2> QED BY <1>4, <2>1, <2>2 DEF AllAllowed
<1>5. ASSUME NEW w \in LockWorkers, ClosePublic(w) PROVE TypedNext /\ LoopsNext
  BY <1>5 DEF ClosePublic
<1>6. ASSUME NEW w \in LockWorkers, Reopen(w) PROVE TypedNext /\ LoopsNext
  BY <1>6 DEF Reopen
<1>7. ASSUME NEW w \in LockWorkers, ShowAdded(w) PROVE TypedNext /\ LoopsNext
  BY <1>7 DEF ShowAdded
<1>8. ASSUME NEW w \in LockWorkers, Untag(w) PROVE TypedNext /\ LoopsNext
  BY <1>8 DEF Untag
<1>9. ASSUME NEW w \in LockWorkers, LockDone(w) PROVE TypedNext /\ LoopsNext
  BY <1>9 DEF LockDone
<1>10. ASSUME LockCrash PROVE TypedNext /\ LoopsNext
  BY <1>10 DEF LockCrash
<1>11. ASSUME UNCHANGED lockVars PROVE TypedNext /\ LoopsNext
  BY <1>11 DEF lockVars
<1> QED
  <2> HIDE DEF TypedNext, LoopsNext, Goal
  <2>1. TypedNext /\ LoopsNext
   BY <1>1, <1>2, <1>3, <1>4, <1>5, <1>6, <1>7, <1>8, <1>9, <1>10, <1>11
     DEF LockNext
  <2> QED BY <2>1, <1>b DEF Goal

LEMMA OriginInvInit == LockInit => OriginInv
<1> SUFFICES ASSUME LockInit PROVE OriginInv
  OBVIOUS
<1>1. PortsStayReachable
  BY LockAssumption
     DEF LockAssumption, LockInit, PortsStayReachable, Reachable
<1> QED
  BY <1>1 DEF LockInit, OriginInv, ApplySteps, RemoveSteps

\* The three parts of OriginInv.
Disentangled ==
  \A v, w \in LockWorkers :
    ~(lockStep[v] \in ApplySteps /\ lockStep[w] \in RemoveSteps)

LockWorkerOK(w) ==
  /\ lockStep[w] = "allow" =>
       \A r \in Ranges, p \in lockPorts[w] :
          <<r, p>> \in tagged \/ <<r, p>> \in lockTodo[w]
  /\ lockStep[w] = "close" =>
       \A r \in Ranges, p \in lockPorts[w] : <<r, p>> \in tagged
  /\ lockStep[w] = "close" =>
       \A rule \in lockTodo[w] : rule[2] \in lockPorts[w]
  /\ lockStep[w] \in RemoveSteps =>
       \A rule \in tagged : rule[2] \in lockPorts[w]
  /\ lockStep[w] = "reopen" =>
       \A p \in lockPorts[w] :
          <<"tcp", p>> \in public \/ <<"tcp", p>> \in lockTodo[w]
  /\ lockStep[w] = "untag" =>
       \A p \in lockPorts[w] : <<"tcp", p>> \in public

LEMMA OriginInvParts ==
  OriginInv <=> \/ entangled
                \/ /\ PortsStayReachable /\ Disentangled
                   /\ \A w \in LockWorkers : LockWorkerOK(w)
BY DEF OriginInv, Disentangled, LockWorkerOK

LEMMA OriginInvNext ==
  LockTypeOK /\ OriginInv /\ [LockNext]_lockVars => OriginInv'
<1> SUFFICES ASSUME LockTypeOK, OriginInv, [LockNext]_lockVars, ~entangled'
             PROVE  OriginInv'
  BY DEF OriginInv
<1>0. /\ lockStep \in [LockWorkers -> ApplySteps \cup RemoveSteps \cup {"idle"}]
      /\ DOMAIN lockPorts = LockWorkers /\ DOMAIN lockTodo = LockWorkers
  BY DEF LockTypeOK
<1>1. ~entangled
  BY DEF LockNext, LockStart, Preflight, Allow, AllAllowed, ClosePublic,
         Reopen, ShowAdded, Untag, LockDone, LockCrash, lockVars
<1>2. /\ PortsStayReachable /\ Disentangled
      /\ \A w \in LockWorkers : LockWorkerOK(w)
  BY <1>1, OriginInvParts
<1> USE <1>0 DEF At, Todo, LockGoOn, LockFinish, ApplySteps, RemoveSteps
<1>3. Disentangled'
  <2>1. ASSUME NEW w \in LockWorkers, LockStart(w) PROVE Disentangled'
    <3>1. PICK step \in {"apply", "remove"}, ps \in SUBSET Ports \ {{}} :
            /\ lockStep' = [lockStep EXCEPT ![w] = step]
            /\ lockPorts' = [lockPorts EXCEPT ![w] = ps]
            /\ ~Entangles(step, ps)
      BY <2>1 DEF LockStart
    <3>2. /\ lockStep'[w] = step /\ lockPorts'[w] = ps /\ tagged' = tagged
          /\ \A v \in LockWorkers : v # w =>
               lockStep'[v] = lockStep[v] /\ lockPorts'[v] = lockPorts[v]
      BY <2>1, <3>1 DEF LockStart
    <3> QED BY <1>2, <3>1, <3>2 DEF Entangles, Disentangled
  <2>2. CASE \E w \in LockWorkers : Preflight(w)
    BY <1>2, <2>2 DEF Preflight, Disentangled
  <2>3. CASE \E w \in LockWorkers :
               \/ Allow(w) \/ AllAllowed(w) \/ ClosePublic(w) \/ Reopen(w)
               \/ ShowAdded(w) \/ Untag(w) \/ LockDone(w)
    BY <1>2, <2>3 DEF Allow, AllAllowed, ClosePublic, Reopen, ShowAdded,
                      Untag, LockDone, Disentangled
  <2>4. CASE LockCrash \/ UNCHANGED lockVars
    BY <1>2, <2>4 DEF LockCrash, lockVars, Disentangled
  <2> QED  BY <2>1, <2>2, <2>3, <2>4 DEF LockNext
<1>4. PortsStayReachable'
  <2>1. CASE \E w \in LockWorkers : ClosePublic(w)
    <3>1. PICK w \in LockWorkers : ClosePublic(w)
      BY <2>1
    <3>2. PICK rule \in lockTodo[w] :
            /\ public' \in {public, public \ {rule}} /\ tagged' = tagged
      BY <3>1 DEF ClosePublic
    <3>3. lockStep[w] = "close" /\ LockWorkerOK(w)
      BY <1>2, <3>1 DEF ClosePublic
    <3>4. rule[2] \in lockPorts[w]
      BY <3>3 DEF LockWorkerOK
    <3>5. ASSUME NEW p \in Ports PROVE Reachable(p)'
      <4>1. CASE p = rule[2]
        BY <3>2, <3>3, <3>4, <4>1 DEF LockWorkerOK, Reachable
      <4>2. CASE p # rule[2]
        <5>1. \A form : <<form, p>> # rule
          BY <4>2
        <5> QED  BY <1>2, <3>2, <5>1 DEF PortsStayReachable, Reachable
      <4> QED  BY <4>1, <4>2
    <3> QED  BY <3>5 DEF PortsStayReachable
  <2>2. CASE \E w \in LockWorkers : Untag(w)
    <3>1. PICK w \in LockWorkers : Untag(w)
      BY <2>2
    <3>2. PICK rule \in lockTodo[w] :
            /\ tagged' \in {tagged, tagged \ {rule}} /\ public' = public
      BY <3>1 DEF Untag
    <3>3. lockStep[w] = "untag" /\ LockWorkerOK(w)
      BY <1>2, <3>1 DEF Untag
    <3>4. ASSUME NEW p \in Ports PROVE Reachable(p)'
      <4>1. CASE p \in lockPorts[w]
        <5>1. <<"tcp", p>> \in public'
          BY <3>2, <3>3, <4>1 DEF LockWorkerOK
        <5> QED  BY <5>1 DEF Reachable, Forms
      <4>2. CASE p \notin lockPorts[w]
        <5>1. ASSUME NEW r \in Ranges, <<r, p>> \in tagged
              PROVE  <<r, p>> \in tagged'
          <6>1. <<r, p>>[2] \in lockPorts[w]
            BY <3>3, <5>1 DEF LockWorkerOK
          <6> QED  BY <4>2, <6>1
        <5> QED  BY <1>2, <3>2, <5>1 DEF PortsStayReachable, Reachable
      <4> QED  BY <4>1, <4>2
    <3> QED  BY <3>4 DEF PortsStayReachable
  <2>3. CASE \E w \in LockWorkers :
               LockStart(w) \/ Preflight(w) \/ Allow(w) \/ AllAllowed(w)
                 \/ Reopen(w) \/ ShowAdded(w) \/ LockDone(w)
    <3>1. tagged \subseteq tagged' /\ public \subseteq public'
      BY <2>3 DEF LockStart, Preflight, Allow, AllAllowed, Reopen, ShowAdded,
                  LockDone
    <3> QED  BY <1>2, <3>1 DEF PortsStayReachable, Reachable
  <2>4. CASE LockCrash \/ UNCHANGED lockVars
    BY <1>2, <2>4 DEF LockCrash, lockVars, PortsStayReachable, Reachable
  <2> QED  BY <2>1, <2>2, <2>3, <2>4 DEF LockNext
<1>5. ASSUME NEW v \in LockWorkers PROVE LockWorkerOK(v)'
  <2>0. LockWorkerOK(v)
    BY <1>2
  <2> USE DEF LockWorkerOK
  <2>1. ASSUME NEW w \in LockWorkers, LockStart(w) PROVE LockWorkerOK(v)'
    <3>1. PICK step \in {"apply", "remove"}, ps \in SUBSET Ports \ {{}} :
            /\ lockStep' = [lockStep EXCEPT ![w] = step]
            /\ lockPorts' = [lockPorts EXCEPT ![w] = ps]
            /\ entangled' = (entangled \/ Entangles(step, ps))
      BY <2>1 DEF LockStart
    <3>2. UNCHANGED <<tagged, public, lockTodo>>
      BY <2>1 DEF LockStart
    <3>3. CASE v # w
      BY <2>0, <3>1, <3>2, <3>3
    <3>4. CASE v = w
      BY <3>1, <3>2, <3>4 DEF Entangles
    <3> QED  BY <3>3, <3>4
  <2>2. ASSUME NEW w \in LockWorkers, Preflight(w) PROVE LockWorkerOK(v)'
    BY <2>0, <2>2 DEF Preflight
  <2>3. ASSUME NEW w \in LockWorkers, Allow(w) PROVE LockWorkerOK(v)'
    BY <1>2, <2>0, <2>3 DEF Allow, Disentangled
  <2>4. ASSUME NEW w \in LockWorkers, AllAllowed(w) PROVE LockWorkerOK(v)'
    BY <2>0, <2>4 DEF AllAllowed
  <2>5. ASSUME NEW w \in LockWorkers, ClosePublic(w) PROVE LockWorkerOK(v)'
    BY <1>2, <2>0, <2>5 DEF ClosePublic, Disentangled
  <2>6. ASSUME NEW w \in LockWorkers, Reopen(w) PROVE LockWorkerOK(v)'
    BY <2>0, <2>6 DEF Reopen
  <2>7. ASSUME NEW w \in LockWorkers, ShowAdded(w) PROVE LockWorkerOK(v)'
    BY <2>0, <2>7 DEF ShowAdded
  <2>8. ASSUME NEW w \in LockWorkers, Untag(w) PROVE LockWorkerOK(v)'
    BY <1>2, <2>0, <2>8 DEF Untag, Disentangled
  <2>9. ASSUME NEW w \in LockWorkers, LockDone(w) PROVE LockWorkerOK(v)'
    BY <2>0, <2>9 DEF LockDone
  <2>10. CASE LockCrash \/ UNCHANGED lockVars
    BY <2>0, <2>10 DEF LockCrash, lockVars
  <2> QED
    BY <2>1, <2>2, <2>3, <2>4, <2>5, <2>6, <2>7, <2>8, <2>9, <2>10
       DEF LockNext
<1> QED
  BY <1>3, <1>4, <1>5 DEF OriginInv, Disentangled, LockWorkerOK
-----------------------------------------------------------------------------
(* BinaryUpdate.                                                           *)

LEMMA UpdateInvInit == UpdateInit => UpdateTypeOK /\ UpdateInv
<1> SUFFICES ASSUME UpdateInit PROVE UpdateTypeOK /\ UpdateInv
  OBVIOUS
<1> USE DEF UpdateAssumption, UpdateInit, InstSteps, Inodes
<1>0. 0 \in Inodes /\ Inodes = 0..MaxInstalls
  OBVIOUS
<1>1. UpdateTypeOK
  <2>1. content \in [Inodes -> {"unused", "partial", "bad", "whole"}]
    BY <1>0
  <2>2. instStep \in [Installers -> InstSteps]
    OBVIOUS
  <2>3. /\ intact \in [Installers -> BOOLEAN]
        /\ target \in [Installers -> Inodes \cup {NoFile}]
    OBVIOUS
  <2>4. /\ {bin, backup, running} \subseteq Inodes \cup {NoFile}
        /\ execBit \subseteq Inodes /\ begun \in 0..MaxInstalls
    BY <1>0
  <2>5. contended \in BOOLEAN
    OBVIOUS
  <2> QED  BY <2>1, <2>2, <2>3, <2>4, <2>5 DEF UpdateTypeOK
<1>2. Runnable(bin)  BY DEF Runnable
<1>3. UpdateInv  BY <1>2 DEF UpdateInv, AtWork
<1> QED  BY <1>1, <1>3

LEMMA UpdateTypeNext ==
  UpdateTypeOK /\ [UpdateNext]_updateVars => UpdateTypeOK'
<1> SUFFICES ASSUME UpdateTypeOK, [UpdateNext]_updateVars
             PROVE  UpdateTypeOK'
  OBVIOUS
<1> USE DEF UpdateAssumption, UpdateTypeOK, InstSteps, InstAt, Files
<1>1. ASSUME NEW i \in Installers, Begin(i) PROVE UpdateTypeOK'
  BY <1>1 DEF Begin, Begins
<1>2. ASSUME NEW i \in Installers,
             Download(i) \/ Verify(i) \/ RemoveBackup(i) \/ MoveAside(i)
      PROVE  UpdateTypeOK'
  BY <1>2 DEF Download, Verify, RemoveBackup, MoveAside
<1>3. ASSUME NEW i \in Installers, CreateBinary(i) PROVE UpdateTypeOK'
  BY <1>3 DEF CreateBinary, Restore
<1>4. ASSUME NEW i \in Installers, CopyEnds(i) PROVE UpdateTypeOK'
  BY <1>4 DEF CopyEnds, Restore
<1>5. ASSUME NEW i \in Installers, MakeExecutable(i) PROVE UpdateTypeOK'
  BY <1>5 DEF MakeExecutable, Restore
<1>6. ASSUME NEW i \in Installers, RestartAgent(i) PROVE UpdateTypeOK'
  BY <1>6 DEF RestartAgent, Reboot
<1>7. CASE UpdateCrash \/ UNCHANGED updateVars
  BY <1>7 DEF UpdateCrash, Reboot, updateVars
<1>8. CASE CheckAndNotify
  BY <1>8 DEF CheckAndNotify
<1>9. CASE CheckForUpdate
  <2>1. Checker \in Installers
    OBVIOUS
  <2>2. instStep' \in [Installers -> InstSteps]
    BY <1>9, <2>1 DEF CheckForUpdate, Begins
  <2>3. begun' \in 0..MaxInstalls
    BY <1>9 DEF CheckForUpdate, Begins
  <2>4. contended' \in BOOLEAN
    BY <1>9 DEF CheckForUpdate, Begins
  <2>5. UNCHANGED <<Files, running, intact, target>>
    BY <1>9 DEF CheckForUpdate, Begins
  <2> QED  BY <2>2, <2>3, <2>4, <2>5
<1> QED
  BY <1>1, <1>2, <1>3, <1>4, <1>5, <1>6, <1>7, <1>8, <1>9 DEF UpdateNext

\* Only one installer is at work, so what it has found or made is still there
\* when it goes on.
LEMMA UpdateInvNext ==
  UpdateTypeOK /\ UpdateInv /\ [UpdateNext]_updateVars => UpdateInv'
<1> SUFFICES ASSUME UpdateTypeOK, UpdateInv, [UpdateNext]_updateVars,
                    ~contended'
             PROVE  UpdateInv'
  BY DEF UpdateInv
<1>0. ~contended
  BY DEF UpdateNext, Begin, Begins, CheckAndNotify, CheckForUpdate, Download,
         Verify, RemoveBackup, MoveAside, CreateBinary, CopyEnds, MakeExecutable, RestartAgent, UpdateCrash,
         updateVars
<1> USE <1>0 DEF UpdateAssumption, UpdateTypeOK, UpdateInv, Runnable, InstSteps,
                 InstAt, Files, AtWork
<1>1. ASSUME NEW i \in Installers, Begins(i), running # NoFile
      PROVE  UpdateInv'
  <2>1. \A j \in Installers : instStep[j] \in {"idle", "check"}
    BY <1>1 DEF Begins
  <2>2. \A j \in Installers :
          instStep'[j] = IF j = i THEN "download" ELSE instStep[j]
    BY <1>1, <2>1 DEF Begins
  <2>3. Runnable(bin)
    BY <1>1, <2>1
  <2> QED  BY <1>1, <2>1, <2>2, <2>3 DEF Begins
<1>2. ASSUME NEW i \in Installers, Download(i) PROVE UpdateInv'
  BY <1>2 DEF Download
<1>3. ASSUME NEW i \in Installers, Verify(i) PROVE UpdateInv'
  BY <1>3 DEF Verify
<1>4. ASSUME NEW i \in Installers, RemoveBackup(i) PROVE UpdateInv'
  BY <1>4 DEF RemoveBackup
<1>5. ASSUME NEW i \in Installers, MoveAside(i) PROVE UpdateInv'
  BY <1>5 DEF MoveAside
<1>6. ASSUME NEW i \in Installers, CreateBinary(i) PROVE UpdateInv'
  BY <1>6 DEF CreateBinary, Restore
<1>7. ASSUME NEW i \in Installers, CopyEnds(i) PROVE UpdateInv'
  <2>1. /\ instStep[i] = "copy" /\ intact[i] /\ running # NoFile
        /\ Runnable(backup) /\ backup # target[i]
        /\ bin = target[i] /\ bin # NoFile
        /\ \A j \in Installers : j # i => target[j] = NoFile
    BY <1>7 DEF CopyEnds
  <2>2. CASE InstAt(i, "chmod")
    <3>0. \A j \in Installers \ {i} : target[j] # target[i]
      BY <2>1
    <3>1. UNCHANGED <<bin, backup, execBit, running, intact>>
      BY <1>7, <2>1, <2>2 DEF CopyEnds, Restore
    <3>2. /\ content'[backup] = "whole" /\ bin' # NoFile
          /\ content' = [content EXCEPT ![bin] = "whole"]
      BY <1>7, <2>1, <2>2, <3>0 DEF CopyEnds, Restore
    <3>3. \A j \in Installers :
            /\ j # i => instStep'[j] \in {"idle", "check"}
            /\ instStep'[i] = "chmod"
            /\ target'[j] = NoFile
      BY <1>7, <2>1, <2>2 DEF CopyEnds, Restore
    <3>4. content'[bin'] = "whole" /\ backup' # NoFile /\ backup' \in execBit'
      BY <2>1, <3>1, <3>2
    <3> QED  BY <2>1, <3>1, <3>2, <3>3, <3>4
  <2>3. CASE Restore(i) /\ UNCHANGED content
    BY <1>7, <2>1, <2>3 DEF CopyEnds, Restore
  <2> QED  BY <1>7, <2>2, <2>3 DEF CopyEnds
<1>8. ASSUME NEW i \in Installers, MakeExecutable(i) PROVE UpdateInv'
  BY <1>8 DEF MakeExecutable, Restore
<1>9. ASSUME NEW i \in Installers, RestartAgent(i) PROVE UpdateInv'
  BY <1>9 DEF RestartAgent, Reboot
<1>10. CASE UpdateCrash
  BY <1>10 DEF UpdateCrash, Reboot
<1>11. CASE UNCHANGED updateVars
  BY <1>11 DEF updateVars
<1>12. CASE CheckAndNotify
  BY <1>12 DEF CheckAndNotify
<1>13. CASE CheckForUpdate
  <2>1. running # NoFile
    BY <1>13 DEF CheckForUpdate
  <2>2. CASE Begins(Checker)
    BY <1>1, <2>1, <2>2
  <2>3. CASE InstAt(Checker, "idle")
              /\ UNCHANGED <<Files, running, intact, target, begun, contended>>
    BY <1>13, <2>3 DEF CheckForUpdate
  <2> QED  BY <1>13, <2>2, <2>3 DEF CheckForUpdate
<1> QED
  BY <1>1, <1>2, <1>3, <1>4, <1>5, <1>6, <1>7, <1>8, <1>9, <1>10, <1>11,
     <1>12, <1>13 DEF UpdateNext, Begin

LEMMA UpdateInvKeepsBinary == UpdateTypeOK /\ UpdateInv => BinaryRecoverable
BY DEF UpdateTypeOK, UpdateInv, BinaryRecoverable, InstSteps
-----------------------------------------------------------------------------
(* Credentials.                                                            *)

LEMMA CredTypeInit == CredInit => CredTypeOK
<1> SUFFICES ASSUME CredInit PROVE CredTypeOK
  OBVIOUS
<1> USE CredsAssumption DEF CredsAssumption
<1>1. 0 \in Versions /\ 0 \in 0..MaxRestarts
  BY DEF Versions
<1>2. rotMsg \in [version : Versions, signer : Versions]
  BY <1>1 DEF CredInit
<1>3. rotStep \in {"idle", "migrate"}
  BY DEF CredInit
<1> QED BY <1>1, <1>2, <1>3 DEF CredInit, CredTypeOK

\* An acknowledgement carries the version of the rotation it answers.
LEMMA CredTypeNext ==
  CredTypeOK /\ CredInv /\ [CredNext]_credVars => CredTypeOK'
<1> SUFFICES ASSUME CredTypeOK, CredInv, [CredNext]_credVars
             PROVE  CredTypeOK'
  OBVIOUS
<1> USE CredsAssumption DEF CredsAssumption, CredTypeOK
<1>0. /\ rotMsg.version \in Versions
      /\ \A b \in BOOLEAN :
           [version |-> rotMsg.version, success |-> b]
             \in [version : Versions, success : BOOLEAN]
  OBVIOUS
<1>1. CASE PanelRotates
  <2>1. rotations + 1 \in Versions
    BY <1>1 DEF PanelRotates, Versions
  <2>2. rotMsg' \in [version : Versions, signer : Versions]
    BY <1>1, <2>1 DEF PanelRotates
  <2> QED BY <1>1, <2>1, <2>2 DEF PanelRotates
<1>2. CASE PanelHears
  <2>1. ack.version \in Versions
    BY <1>2 DEF PanelHears
  <2> QED BY <1>2, <2>1 DEF PanelHears
<1>3. CASE AckIsLost  BY <1>3 DEF AckIsLost
<1>4. CASE VerifyRotation  BY <1>0, <1>4 DEF VerifyRotation, Acknowledge
<1>5. CASE UpdateCredentials  BY <1>0, <1>5 DEF UpdateCredentials
<1>6. CASE OpenKeyFile
  <2>1. ack' \in {NoCreds} \cup [version : Versions, success : BOOLEAN]
    BY <1>0, <1>6 DEF OpenKeyFile, Acknowledge
  <2>2. /\ keyFile' \in Versions \cup {Torn}
        /\ {authCreds', cfgCreds', saved'} \subseteq Versions \cup {NoCreds}
    <3>1. keyFile' \in {keyFile, Torn} /\ saved' \in {saved, NoCreds}
          /\ cfgCreds' = rotMsg.version /\ authCreds' = authCreds
      BY <1>6 DEF OpenKeyFile
    <3> QED BY <1>0, <3>1
  <2>3. rotStep' \in {"write", "idle"} /\ troubled' \in BOOLEAN
    BY <1>6 DEF OpenKeyFile, Acknowledge
  <2> QED BY <1>6, <2>1, <2>2, <2>3 DEF OpenKeyFile
<1>7. CASE WriteKeyFile
  <2>1. cfgCreds \in Versions
    BY <1>0, <1>7 DEF WriteKeyFile, CredInv
  <2>2. ack' \in {NoCreds} \cup [version : Versions, success : BOOLEAN]
    BY <1>0, <1>7 DEF WriteKeyFile, Acknowledge
  <2>3. /\ keyFile' \in Versions \cup {Torn}
        /\ saved' \in Versions \cup {NoCreds}
    <3>1. \/ keyFile' = cfgCreds /\ saved' = rotMsg.version
          \/ keyFile' = keyFile /\ saved' = saved
      BY <1>7 DEF WriteKeyFile
    <3> QED BY <1>0, <2>1, <3>1
  <2>4. rotStep' = "idle" /\ troubled' \in BOOLEAN /\ legacy' \in BOOLEAN
    BY <1>7 DEF WriteKeyFile, Acknowledge
  <2> QED BY <1>7, <2>2, <2>3, <2>4 DEF WriteKeyFile
<1>8. CASE RestartWithKeyFile
  <2>1. restarts' \in 0..MaxRestarts
    BY <1>8 DEF RestartWithKeyFile
  <2>2. troubled' \in BOOLEAN
    BY <1>8 DEF RestartWithKeyFile
  <2> QED BY <1>8, <2>1, <2>2 DEF RestartWithKeyFile
<1>9. CASE Migrate
  <2>1. rotStep = "rewrite" => cfgCreds \in Versions
    BY DEF CredInv
  <2> QED BY <1>9, <2>1 DEF Migrate
<1>10. CASE UNCHANGED credVars  BY <1>10 DEF credVars
<1> QED
  BY <1>1, <1>2, <1>3, <1>4, <1>5, <1>6, <1>7, <1>8, <1>9, <1>10
     DEF CredNext

LEMMA CredInvInit == CredInit => CredInv
BY CredsAssumption DEF CredsAssumption, CredInit, CredInv, Versions

LEMMA CredInvNext ==
  CredTypeOK /\ CredInv /\ [CredNext]_credVars => CredInv'
<1> SUFFICES ASSUME CredTypeOK, CredInv, [CredNext]_credVars PROVE CredInv'
  OBVIOUS
<1>0. /\ keyFile \in Versions \cup {Torn}
      /\ {authCreds, cfgCreds} \subseteq Versions \cup {NoCreds}
      /\ rotMsg.version \in Versions
      /\ rotations \in Versions
  BY DEF CredTypeOK
<1> USE CredsAssumption, <1>0 DEF CredsAssumption, CredInv, Acknowledge
<1>1. CASE PanelRotates  BY <1>1 DEF PanelRotates
<1>2. CASE PanelHears  BY <1>2 DEF PanelHears
<1>3. CASE AckIsLost  BY <1>3 DEF AckIsLost
<1>4. CASE VerifyRotation  BY <1>4 DEF VerifyRotation
<1>5. CASE UpdateCredentials  BY <1>5 DEF UpdateCredentials
<1>6. CASE OpenKeyFile  BY <1>6 DEF OpenKeyFile
<1>7. CASE WriteKeyFile
  <2>1. CASE Acknowledge(TRUE)
    <3>1. ack' = [version |-> rotMsg.version, success |-> TRUE]
      BY <2>1
    <3>2. ack' # NoCreds /\ ack'.success /\ ack'.version = rotMsg.version
      BY <3>1
    <3> QED  BY <1>7, <2>1, <3>2 DEF WriteKeyFile
  <2>2. CASE Acknowledge(FALSE) /\ troubled' /\ UNCHANGED <<keyFile, saved>>
    BY <1>7, <2>2 DEF WriteKeyFile
  <2> QED  BY <1>7, <2>1, <2>2 DEF WriteKeyFile
<1>8. CASE RestartWithKeyFile  BY <1>8 DEF RestartWithKeyFile
<1>9. CASE Migrate  BY <1>9 DEF Migrate
<1>10. CASE UNCHANGED credVars  BY <1>10 DEF credVars
<1> QED
  BY <1>1, <1>2, <1>3, <1>4, <1>5, <1>6, <1>7, <1>8, <1>9, <1>10
     DEF CredNext

LEMMA CredInvIsSafe == CredInv => RotationSafe
BY DEF CredInv, RotationSafe
-----------------------------------------------------------------------------
(* Terminals.                                                              *)

LEMMA TermInvInit == TermInit => TermTypeOK /\ TermInv
<1> SUFFICES ASSUME TermInit PROVE TermTypeOK /\ TermInv
  OBVIOUS
<1> USE DEF TermAssumption, TermInit
<1>1. TermTypeOK  BY DEF TermTypeOK, Closers
<1>2. TermInv  BY <1>1 DEF TermTypeOK, TermInv, ShellIsOwned, Taken, Closers
<1> QED  BY <1>1, <1>2

LEMMA TermTypeNext ==
  TermTypeOK /\ TermInv /\ [TermNext]_termVars => TermTypeOK'
<1> SUFFICES ASSUME TermTypeOK, TermInv, [TermNext]_termVars
             PROVE  TermTypeOK'
  OBVIOUS
<1> USE DEF TermAssumption, TermTypeOK, Step, Closers
<1>1. ASSUME NEW w \in TermWorkers, CreateSession(w) PROVE TermTypeOK'
  BY <1>1 DEF CreateSession, Used
<1>2. ASSUME NEW w \in TermWorkers,
             SetHandlers(w) \/ FindForInput(w) \/ BeginWrite(w) \/ EndWrite(w)
      PROVE  TermTypeOK'
  <2>1. CASE SetHandlers(w)
    <3>1. onClose' \subseteq Sessions
      BY <2>1 DEF SetHandlers, TermInv
    <3> QED  BY <2>1, <3>1 DEF SetHandlers
  <2>2. CASE FindForInput(w)  BY <2>2 DEF FindForInput
  <2>3. CASE BeginWrite(w)  BY <2>3 DEF BeginWrite
  <2>4. CASE EndWrite(w)  BY <2>4 DEF EndWrite
  <2> QED  BY <1>2, <2>1, <2>2, <2>3, <2>4
<1>3. ASSUME NEW w \in TermWorkers, CloseCommand(w) PROVE TermTypeOK'
  BY <1>3 DEF CloseCommand, TakeOut
<1>4. ASSUME NEW c \in Closers, CloseTaken(c) PROVE TermTypeOK'
  BY <1>4 DEF CloseTaken, Close
<1>5. CASE BeginCloseAll
  BY <1>5 DEF BeginCloseAll
<1>6. CASE CloseNextOfAll
  <2>1. PICK s \in closeAll :
          Close(s) /\ closeAll' = closeAll \ {s}
    <3>1. (CHOOSE r \in closeAll : TRUE) \in closeAll
      BY <1>6 DEF CloseNextOfAll
    <3> QED  BY <1>6, <3>1 DEF CloseNextOfAll
  <2> QED  BY <1>6, <2>1 DEF CloseNextOfAll, Close
<1>7. ASSUME NEW s \in Sessions,
             ShellExits(s) \/ ReadFails(s) \/ SendClosed(s)
      PROVE  TermTypeOK'
  BY <1>7 DEF ShellExits, ReadFails, SendClosed
<1>8. ASSUME NEW s \in Sessions, TakeByReader(s) PROVE TermTypeOK'
  BY <1>8 DEF TakeByReader, TakeOut
<1>9. CASE UNCHANGED termVars
  BY <1>9 DEF termVars
<1> QED
  BY <1>1, <1>2, <1>3, <1>4, <1>5, <1>6, <1>7, <1>8, <1>9 DEF TermNext

\* TermInv for one session, with the map's entries seen from the session.
SessionOK(s) ==
  /\ shell[s] = "live" => sessions[sessionId[s]] = s \/ Taken(s)
  /\ Taken(s) => sessions[sessionId[s]] # s
  /\ shell[s] = "none" =>
       /\ sessions[sessionId[s]] # s /\ s \notin closed /\ ~Taken(s)
       /\ reader[s] = "none"
  /\ reader[s] # "gone" => closing[s] = NoSession
  /\ \A id \in TermIds :
       sessions[id] = s => sessionId[s] = id /\ s \notin closed

WorkerOK(w) == termStep[w] # "idle" => termSession[w] # NoSession

LEMMA TermInvParts ==
  TermTypeOK => (TermInv <=> /\ \A s \in Sessions : SessionOK(s)
                             /\ \A w \in TermWorkers : WorkerOK(w))
BY DEF TermAssumption, TermTypeOK, TermInv, ShellIsOwned, SessionOK, WorkerOK

\* Whoever takes a session out of the map is the only one that has it.
LEMMA TermInvNext == TermTypeOK /\ TermInv /\ [TermNext]_termVars => TermInv'
<1> SUFFICES ASSUME TermTypeOK, TermInv, [TermNext]_termVars PROVE TermInv'
  OBVIOUS
<1>1. TermTypeOK'
  BY TermTypeNext
<1>2. ASSUME NEW w \in TermWorkers PROVE WorkerOK(w)'
  <2> USE DEF TermAssumption, TermTypeOK, Step, Free, Used
  <2>1. WorkerOK(w)
    BY TermInvParts
  <2>2. CASE \E v \in TermWorkers :
               \/ CreateSession(v) \/ SetHandlers(v) \/ FindForInput(v)
               \/ BeginWrite(v) \/ EndWrite(v) \/ CloseCommand(v)
    BY <2>1, <2>2 DEF WorkerOK, CreateSession, SetHandlers, FindForInput,
                      BeginWrite, EndWrite, CloseCommand
  <2>3. CASE UNCHANGED <<termStep, termSession>>
    BY <2>1, <2>3 DEF WorkerOK
  <2> QED
    BY <2>2, <2>3 DEF TermNext, CloseTaken, BeginCloseAll, CloseNextOfAll,
                      ShellExits, ReadFails, SendClosed, TakeByReader, termVars
<1>3. ASSUME NEW s \in Sessions PROVE SessionOK(s)'
  <2> USE DEF TermAssumption, TermTypeOK, Closers, SessionOK, Taken
  <2>1. SessionOK(s)
    BY TermInvParts
  <2>2. ASSUME NEW w \in TermWorkers, CreateSession(w) PROVE SessionOK(s)'
    BY <2>1, <2>2 DEF CreateSession, Used
  <2>3. ASSUME NEW w \in TermWorkers,
               \/ SetHandlers(w) \/ FindForInput(w)
               \/ BeginWrite(w) \/ EndWrite(w)
        PROVE  SessionOK(s)'
    BY <2>1, <2>3 DEF SetHandlers, FindForInput, BeginWrite, EndWrite
  <2>4. ASSUME NEW w \in TermWorkers, CloseCommand(w) PROVE SessionOK(s)'
    BY <2>1, <2>4 DEF CloseCommand, TakeOut, Free
  <2>5. ASSUME NEW c \in Closers, CloseTaken(c) PROVE SessionOK(s)'
    BY <2>1, <2>5 DEF CloseTaken, Close
  <2>6. CASE BeginCloseAll
    BY <2>1, <2>6 DEF BeginCloseAll
  <2>7. CASE CloseNextOfAll
    BY <2>1, <2>7 DEF CloseNextOfAll, Close
  <2>8. ASSUME NEW r \in Sessions,
               ShellExits(r) \/ ReadFails(r) \/ SendClosed(r)
        PROVE  SessionOK(s)'
    BY <2>1, <2>8 DEF ShellExits, ReadFails, SendClosed
  <2>9. ASSUME NEW r \in Sessions, TakeByReader(r) PROVE SessionOK(s)'
    <3>1. closing[r] = NoSession
      <4>1. SessionOK(r)
        BY TermInvParts
      <4> QED  BY <2>9, <4>1 DEF TakeByReader
    <3> DEFINE id == sessionId[r]
    <3>2. /\ closing' = [closing EXCEPT ![r] = sessions[id]]
          /\ sessions' = [sessions EXCEPT ![id] = NoSession]
          /\ reader' = [reader EXCEPT ![r] = "gone"]
          /\ UNCHANGED <<sessionId, shell, closed, closeAll>>
      BY <2>9 DEF TakeByReader, TakeOut
    <3>3. id \in TermIds
      OBVIOUS
    <3> HIDE DEF id
    <3>4. Taken(s)' <=> Taken(s) \/ sessions[id] = s
      BY <3>1, <3>2
    <3>5. sessions[id] = s => sessionId[s] = id
      BY <2>1, <3>3
    <3>6. sessions'[sessionId[s]] = s <=>
            sessions[sessionId[s]] = s /\ sessions[id] # s
      BY <3>2, <3>3, <3>5
    <3>7. reader'[s] # "gone" => closing'[s] = NoSession
      BY <2>1, <3>2
    <3>8. shell[s] = "none" => reader'[s] = "none"
      BY <2>1, <2>9, <3>2 DEF TakeByReader
    <3>9. \A i \in TermIds : sessions'[i] = s => sessions[i] = s
      BY <3>2
    <3> QED
      BY <2>1, <3>2, <3>3, <3>4, <3>5, <3>6, <3>7, <3>8, <3>9
  <2>10. CASE UNCHANGED termVars
    BY <2>1, <2>10 DEF termVars
  <2> QED
    BY <2>2, <2>3, <2>4, <2>5, <2>6, <2>7, <2>8, <2>9, <2>10 DEF TermNext
<1> QED
  BY <1>1, <1>2, <1>3 DEF TermAssumption, TermTypeOK, TermInv, ShellIsOwned,
                           SessionOK, WorkerOK
-----------------------------------------------------------------------------
(* TunnelLogin.                                                            *)

LEMMA LoginInvInit == LoginInit => LoginTypeOK /\ LoginInv
<1> SUFFICES ASSUME LoginInit PROVE LoginTypeOK /\ LoginInv
  OBVIOUS
<1>1. LoginTypeOK
  <2>1. out \in Seq({"line", "ok", "error"}) /\ Len(out) = 0
    BY DEF LoginInit
  <2>2. lines \in 0..LineCap /\ unprinted \in 0..MaxLines /\ Len(out) <= OutCap
    BY LoginAssumption, <2>1 DEF LoginAssumption, LoginInit
  <2>3. scanner \in [Pipes -> {"none", "scan", "send", "gone"}]
    BY DEF LoginInit
  <2> QED BY <2>1, <2>2, <2>3 DEF LoginInit, LoginTypeOK
<1> QED BY <1>1 DEF LoginInit, LoginInv

\* No channel holds more than its capacity.
LEMMA LoginTypeNext ==
  LoginTypeOK /\ LoginInv /\ [LoginNext]_loginVars => LoginTypeOK'
<1> SUFFICES ASSUME LoginTypeOK, LoginInv, [LoginNext]_loginVars
             PROVE  LoginTypeOK'
  OBVIOUS
<1> USE LoginAssumption DEF LoginAssumption, LoginTypeOK
<1>1. CASE AlreadyAuthenticated
  <2> DEFINE one == <<"ok">>
  <2>1. one \in Seq({"line", "ok", "error"}) /\ Len(one) = 1
    OBVIOUS
  <2>2. out' = one
    BY <1>1 DEF AlreadyAuthenticated
  <2> HIDE DEF one
  <2> QED BY <1>1, <2>1, <2>2 DEF AlreadyAuthenticated
<1>2. CASE StartLogin  BY <1>2 DEF StartLogin
<1>3. CASE CertAppears  BY <1>3 DEF CertAppears
<1>4. CASE ProcessEnds  BY <1>4 DEF ProcessEnds
<1>5. CASE CeilingPasses  BY <1>5 DEF CeilingPasses
<1>6. ASSUME NEW p \in Pipes, ScanLine(p) PROVE LoginTypeOK'
  BY <1>6 DEF ScanLine
<1>7. ASSUME NEW p \in Pipes, SendLine(p) PROVE LoginTypeOK'
  BY <1>7 DEF SendLine
<1>8. ASSUME NEW p \in Pipes, ScanEnds(p) PROVE LoginTypeOK'
  BY <1>8 DEF ScanEnds
<1>9. CASE SelectCase  BY <1>9 DEF SelectCase
<1>10. CASE Emit
  <2>1. loginLoop \in {"line", "ok", "error"}
    BY <1>10 DEF Emit
  <2>2. out' \in Seq({"line", "ok", "error"}) /\ Len(out') = Len(out) + 1
    BY <1>10, <2>1 DEF Emit
  <2> QED BY <1>10, <2>2 DEF Emit
<1>11. CASE LeaveLoop  BY <1>11 DEF LeaveLoop
<1>12. CASE ForwardEvent
  <2>1. out' \in Seq({"line", "ok", "error"}) /\ Len(out') = Len(out) - 1
    BY <1>12 DEF ForwardEvent
  <2>2. verdicts' \in Nat
    BY <1>12 DEF ForwardEvent
  <2> QED BY <1>12, <2>1, <2>2 DEF ForwardEvent
<1>13. CASE EventsEnd  BY <1>13 DEF EventsEnd
<1>14. CASE UNCHANGED loginVars  BY <1>14 DEF loginVars
<1> QED
  BY <1>1, <1>2, <1>3, <1>4, <1>5, <1>6, <1>7, <1>8, <1>9, <1>10, <1>11,
     <1>12, <1>13, <1>14 DEF LoginNext

\* The loop sends nothing after its verdict, and the job forwards in order.
LEMMA LoginInvNext ==
  LoginTypeOK /\ LoginInv /\ [LoginNext]_loginVars => LoginInv'
<1> SUFFICES ASSUME LoginTypeOK, LoginInv, [LoginNext]_loginVars
             PROVE  LoginInv'
  OBVIOUS
<1> USE DEF LoginInv
<1>0. /\ out \in Seq({"line", "ok", "error"}) /\ Len(out) \in Nat
      /\ out # <<>> <=> Len(out) > 0
      /\ loginLoop \in {"none", "select", "line", "ok", "error", "kill", "gone"}
      /\ loginJob \in {"none", "running", "over"}
  BY DEF LoginTypeOK
<1>1. CASE AlreadyAuthenticated
  <2> DEFINE one == <<"ok">>
  <2>1. Len(one) = 1 /\ one[1] = "ok" /\ one # <<>>
    OBVIOUS
  <2>2. out' = one
    BY <1>1 DEF AlreadyAuthenticated
  <2> HIDE DEF one
  <2> QED BY <1>1, <2>1, <2>2 DEF AlreadyAuthenticated
<1>2. CASE StartLogin
  <2>1. out = <<>> /\ Len(out) = 0
    BY <1>0, <1>2 DEF StartLogin
  <2> QED BY <1>2, <2>1 DEF StartLogin
<1>3. CASE CertAppears  BY <1>3 DEF CertAppears
<1>4. CASE ProcessEnds  BY <1>4 DEF ProcessEnds
<1>5. CASE CeilingPasses  BY <1>5 DEF CeilingPasses
<1>6. ASSUME NEW p \in Pipes, ScanLine(p) \/ SendLine(p) \/ ScanEnds(p)
      PROVE  LoginInv'
  BY <1>6 DEF ScanLine, SendLine, ScanEnds
<1>7. CASE SelectCase  BY <1>0, <1>7 DEF SelectCase
<1>8. CASE Emit
  <2>1. /\ Len(out') = Len(out) + 1 /\ out' # <<>>
        /\ \A i \in 1..Len(out) : out'[i] = out[i]
        /\ out'[Len(out) + 1] = loginLoop
    BY <1>0, <1>8 DEF Emit
  <2>2. \A i \in 1..Len(out) : out[i] = "line"
    BY <1>8 DEF Emit
  <2>3. \A i \in 1..Len(out') :
          IF i < Len(out') THEN out'[i] = "line" ELSE out'[i] = loginLoop
    BY <1>0, <2>1, <2>2
  <2>4. CASE loginLoop = "line"
    BY <1>8, <2>3, <2>4 DEF Emit
  <2>5. CASE loginLoop # "line"
    BY <1>8, <2>1, <2>3, <2>5 DEF Emit
  <2> QED BY <2>4, <2>5
<1>9. CASE LeaveLoop  BY <1>9 DEF LeaveLoop
<1>10. CASE ForwardEvent
  <2>1. /\ Len(out') = Len(out) - 1 /\ out # <<>>
        /\ \A i \in 1..Len(out') : out'[i] = out[i + 1]
        /\ out' = <<>> <=> Len(out) = 1
        /\ Head(out) = out[1]
    <3>1. out # <<>> /\ Len(out) > 0 /\ out' = Tail(out)
      BY <1>0, <1>10 DEF ForwardEvent
    <3>2. Tail(out) \in Seq({"line", "ok", "error"})
          /\ Len(Tail(out)) = Len(out) - 1
      BY <1>0, <3>1
    <3>3. \A i \in 1..(Len(out) - 1) : Tail(out)[i] = out[i + 1]
      BY <1>0, <3>1
    <3> DEFINE rest == Tail(out)
    <3> HIDE DEF rest
    <3>4. rest = <<>> <=> Len(rest) = 0
      <4>1. rest \in Seq({"line", "ok", "error"})
        BY <3>2 DEF rest
      <4> QED BY <4>1
    <3> QED BY <1>0, <3>1, <3>2, <3>3, <3>4 DEF rest
  <2>2. CASE loginLoop \in {"select", "line", "ok", "error"}
    <3>1. /\ Head(out) = "line"
          /\ \A i \in 1..Len(out') : out'[i] = "line"
      BY <1>0, <2>1, <2>2
    <3> QED BY <1>10, <2>2, <3>1 DEF ForwardEvent
  <2>3. CASE loginLoop \in {"none", "kill", "gone"}
    <3>1. /\ verdicts = 0 /\ loginJob = "running"
          /\ \A i \in 1..Len(out) : out[i] = "line" <=> i < Len(out)
      BY <1>10, <2>1, <2>3 DEF ForwardEvent
    <3>2. CASE Len(out) = 1
      BY <1>10, <2>1, <2>3, <3>1, <3>2 DEF ForwardEvent
    <3>3. CASE Len(out) > 1
      <4>1. /\ Head(out) = "line" /\ out' # <<>>
            /\ \A i \in 1..Len(out') : out'[i] = "line" <=> i < Len(out')
        <5>1. 1 \in 1..Len(out) /\ 1 < Len(out) /\ out[1] = "line"
          BY <1>0, <3>1, <3>3
        <5>2. \A i \in 1..Len(out') :
                /\ i + 1 \in 1..Len(out)
                /\ i < Len(out') <=> i + 1 < Len(out)
          BY <1>0, <2>1
        <5>3. out' # <<>>
          BY <2>1, <3>3
        <5> QED BY <2>1, <3>1, <5>1, <5>2, <5>3
      <4> QED BY <1>10, <2>3, <3>1, <4>1 DEF ForwardEvent
    <3> QED BY <1>0, <2>1, <3>2, <3>3
  <2> QED BY <1>0, <2>2, <2>3
<1>11. CASE EventsEnd  BY <1>0, <1>11 DEF EventsEnd
<1>12. CASE UNCHANGED loginVars  BY <1>12 DEF loginVars
<1> QED
  BY <1>1, <1>2, <1>3, <1>4, <1>5, <1>6, <1>7, <1>8, <1>9, <1>10, <1>11,
     <1>12 DEF LoginNext

LEMMA LoginInvTold == LoginTypeOK /\ LoginInv => LoginToldOnce
BY DEF LoginTypeOK, LoginInv, LoginToldOnce

-----------------------------------------------------------------------------
(* TunnelLink.                                                             *)

LEMMA LinkInvInit == LinkInit => LinkTypeOK /\ PortInv /\ UpInv
<1> SUFFICES ASSUME LinkInit PROVE LinkTypeOK /\ PortInv /\ UpInv
  OBVIOUS
<1> USE LinkAssumption DEF LinkAssumption, LinkInit
<1>1. (CHOOSE i \in Interfaces : TRUE) \in Interfaces
  OBVIOUS
<1>2. link \in [Interfaces -> (SUBSET Configured) \cup {NoLink}]
  OBVIOUS
<1>3. LinkTypeOK
  <2>1. linkName \in [LinkWorkers -> Interfaces]
    BY <1>1
  <2>2. linkStep \in [LinkWorkers -> UpSteps \cup DownSteps
                       \cup {"idle", "keygen", "forward", "swap", "unforward"}]
    OBVIOUS
  <2>3. linkLeft \in 0..MaxLinkCmds
    BY ONLY LinkInit, LinkAssumption DEF LinkInit, LinkAssumption
  <2>5. crossed \in BOOLEAN
    BY Zenon
  <2>4. linkAddr \in [LinkWorkers -> Addresses \cup {NoAddress}]
    OBVIOUS
  <2> QED
    BY <1>2, <2>1, <2>2, <2>3, <2>4, <2>5 DEF LinkTypeOK
<1>4. PortInv
  BY DEF PortInv
<1>5. UpInv
  BY DEF UpInv, UpSteps, DownSteps, NoLink
<1> QED
  BY <1>3, <1>4, <1>5

LEMMA LinkTypeNext ==
  LinkTypeOK /\ PortInv /\ [LinkNext]_linkVars => LinkTypeOK'
<1> SUFFICES ASSUME LinkTypeOK, PortInv, [LinkNext]_linkVars
             PROVE  LinkTypeOK'
  OBVIOUS
<1> USE LinkAssumption DEF LinkAssumption, LinkTypeOK, UpSteps, DownSteps, LinkAt, onHost,
            onPort
<1>1. ASSUME NEW w \in LinkWorkers, LinkStart(w) PROVE LinkTypeOK'
  BY <1>1 DEF LinkStart
<1>2. ASSUME NEW w \in LinkWorkers, Keygen(w) \/ CheckLink(w)
      PROVE  LinkTypeOK'
  BY <1>2 DEF Keygen, CheckLink
<1>3. ASSUME NEW w \in LinkWorkers,
             \/ AddLink(w) \/ SetKey(w) \/ SetAddress(w) \/ Raise(w)
             \/ DeleteLink(w)
      PROVE  LinkTypeOK'
  <2> DEFINE Links == (SUBSET Configured) \cup {NoLink}
             i == linkName[w]
  <2>1. {} \in Links /\ NoLink \in Links
    OBVIOUS
  <2>2. \A what \in Configured : link[i] # NoLink =>
          link[i] \cup {what} \in Links
    OBVIOUS
  <2>3. {"key", "address", "up"} = Configured
    BY DEF Configured
  <2>4. link' = link \/ \E e \in Links : link' = [link EXCEPT ![i] = e]
    BY <1>3, <2>1, <2>2, <2>3
       DEF AddLink, SetKey, SetAddress, Raise, DeleteLink, Configure, Call
  <2>5. link' \in [Interfaces -> Links]
    BY <2>4
  <2> QED
    BY <1>3, <2>5 DEF AddLink, SetKey, SetAddress, Raise, DeleteLink,
                      Configure, Call
<1>4. ASSUME NEW w \in LinkWorkers,
             CloseForwards(w) \/ Listen(w) \/ Unforward(w)
      PROVE  LinkTypeOK'
  BY <1>4 DEF CloseForwards, Listen, Unforward
<1>5. ASSUME NEW w \in LinkWorkers, SwapForward(w) PROVE LinkTypeOK'
  BY <1>5 DEF SwapForward, PortInv
<1>6. CASE AcceptFails \/ LinkCrash \/ UNCHANGED linkVars
  BY <1>6 DEF AcceptFails, LinkCrash, linkVars
<1> QED
  BY <1>1, <1>2, <1>3, <1>4, <1>5, <1>6 DEF LinkNext

LEMMA PortInvNext ==
  LinkTypeOK /\ PortInv /\ [LinkNext]_linkVars => PortInv'
<1> SUFFICES ASSUME LinkTypeOK, PortInv, [LinkNext]_linkVars PROVE PortInv'
  OBVIOUS
<1> USE LinkAssumption DEF LinkAssumption, LinkTypeOK, PortInv, LinkAt, onHost, onPort
<1>1. ASSUME NEW w \in LinkWorkers, LinkStart(w) PROVE PortInv'
  BY <1>1 DEF LinkStart
<1>2. ASSUME NEW w \in LinkWorkers,
             \/ Keygen(w) \/ CheckLink(w) \/ AddLink(w) \/ SetKey(w)
             \/ SetAddress(w) \/ Raise(w) \/ DeleteLink(w)
      PROVE  PortInv'
  BY <1>2 DEF Keygen, CheckLink, AddLink, SetKey, SetAddress, Raise,
              DeleteLink, Configure, Call
<1>3. ASSUME NEW w \in LinkWorkers, CloseForwards(w) \/ Unforward(w)
      PROVE  PortInv'
  BY <1>3 DEF CloseForwards, Unforward
<1>4. ASSUME NEW w \in LinkWorkers, Listen(w) PROVE PortInv'
  BY <1>4 DEF Listen
<1>5. ASSUME NEW w \in LinkWorkers, SwapForward(w) PROVE PortInv'
  BY <1>5 DEF SwapForward
<1>6. CASE AcceptFails \/ LinkCrash \/ UNCHANGED linkVars
  BY <1>6 DEF AcceptFails, LinkCrash, linkVars
<1> QED
  BY <1>1, <1>2, <1>3, <1>4, <1>5, <1>6 DEF LinkNext

LEMMA UpInvNext == LinkTypeOK /\ UpInv /\ [LinkNext]_linkVars => UpInv'
<1> SUFFICES ASSUME LinkTypeOK, UpInv, [LinkNext]_linkVars, ~crossed'
             PROVE  UpInv'
  BY DEF UpInv
<1>0. ~crossed
  BY DEF LinkNext, LinkStart, Keygen, CheckLink, AddLink, SetKey, SetAddress,
         Raise, CloseForwards, DeleteLink, Listen, SwapForward, Unforward,
         AcceptFails, LinkCrash, Configure, Call, linkVars
<1> USE <1>0, LinkAssumption
        DEF LinkAssumption, LinkTypeOK, UpInv, LinkAt, UpSteps, DownSteps,
            onHost, onPort
<1>1. ASSUME NEW w \in LinkWorkers, LinkStart(w) PROVE UpInv'
  <2>1. PICK step \in {"keygen", "up", "down", "forward", "unforward"},
             i \in Interfaces :
               /\ linkStep' = [linkStep EXCEPT ![w] = step]
               /\ linkName' = [linkName EXCEPT ![w] = i]
               /\ crossed' =
                    (crossed \/ \E v \in LinkWorkers :
                       /\ linkName[v] = i
                       /\ \/ step = "up" /\ linkStep[v] \in DownSteps
                          \/ step = "down" /\ linkStep[v] \in UpSteps)
    BY <1>1, Zenon DEF LinkStart
  <2>2. \A v \in LinkWorkers : linkName[v] = i =>
          /\ step = "up" => linkStep[v] \notin DownSteps
          /\ step = "down" => linkStep[v] \notin UpSteps
    BY <2>1, Zenon
  <2>3. link' = link
    BY <1>1 DEF LinkStart
  <2>4. ASSUME NEW u \in LinkWorkers, NEW v \in LinkWorkers,
               linkStep'[u] \in UpSteps, linkStep'[v] \in DownSteps
        PROVE  linkName'[u] # linkName'[v]
    <3>1. CASE u = w
      BY <2>1, <2>2, <2>4, <3>1
    <3>2. CASE v = w
      BY <2>1, <2>2, <2>4, <3>2
    <3>3. CASE u # w /\ v # w
      BY <2>1, <2>2, <2>4, <3>3
    <3> QED
      BY <3>1, <3>2, <3>3
  <2>5. \A v \in LinkWorkers : linkStep'[v] \in {"address", "raise"} =>
          linkStep'[v] = linkStep[v] /\ linkName'[v] = linkName[v]
    BY <2>1
  <2> QED
    BY <2>3, <2>4, <2>5
<1>2. ASSUME NEW w \in LinkWorkers,
             \/ Keygen(w) \/ CheckLink(w) \/ CloseForwards(w) \/ Listen(w)
             \/ SwapForward(w) \/ Unforward(w)
      PROVE  UpInv'
  BY <1>2 DEF Keygen, CheckLink, CloseForwards, Listen, SwapForward,
              Unforward
<1>3. ASSUME NEW w \in LinkWorkers, AddLink(w) PROVE UpInv'
  BY <1>3 DEF AddLink, Call, NoLink
<1>4. ASSUME NEW w \in LinkWorkers, SetKey(w) PROVE UpInv'
  BY <1>4 DEF SetKey, Configure, Call
<1>5. ASSUME NEW w \in LinkWorkers, SetAddress(w) PROVE UpInv'
  BY <1>5 DEF SetAddress, Configure, Call
<1>6. ASSUME NEW w \in LinkWorkers, Raise(w) PROVE UpInv'
  BY <1>6 DEF Raise, Configure, Call
<1>7. ASSUME NEW w \in LinkWorkers, DeleteLink(w) PROVE UpInv'
  BY <1>7 DEF DeleteLink, Call, NoLink
<1>8. CASE AcceptFails \/ LinkCrash \/ UNCHANGED linkVars
  BY <1>8 DEF AcceptFails, LinkCrash, linkVars
<1> QED
  BY <1>1, <1>2, <1>3, <1>4, <1>5, <1>6, <1>7, <1>8 DEF LinkNext

LEMMA LinkInvIsSafe == LinkTypeOK /\ PortInv /\ UpInv => TunnelSafe
<1> SUFFICES ASSUME LinkTypeOK, PortInv, UpInv PROVE TunnelSafe
  OBVIOUS
<1> USE LinkAssumption DEF LinkAssumption, LinkTypeOK, PortInv
<1>1. ASSUME NEW a \in listening
      PROVE  Cardinality({i \in Interfaces : forwards[i] = a})
               + Cardinality({w \in LinkWorkers : linkAddr[w] = a}) = 1
  <2> DEFINE F == {i \in Interfaces : forwards[i] = a}
             L == {w \in LinkWorkers : linkAddr[w] = a}
  <2>1. CASE \E i \in Interfaces : forwards[i] = a
    <3>1. PICK i \in Interfaces : forwards[i] = a
      BY <2>1
    <3>2. F = {i} /\ L = {}
      BY <3>1
    <3>3. Cardinality(F) = 1 /\ Cardinality(L) = 0
      BY <3>2, FS_Singleton, FS_EmptySet
    <3> HIDE DEF F, L
    <3>4. Cardinality(F) + Cardinality(L) = 1
      BY <3>3
    <3> QED
      BY <3>4 DEF F, L
  <2>2. CASE \E w \in LinkWorkers : linkAddr[w] = a
    <3>1. PICK w \in LinkWorkers : linkAddr[w] = a
      BY <2>2
    <3>2. F = {} /\ L = {w}
      BY <3>1
    <3>3. Cardinality(F) = 0 /\ Cardinality(L) = 1
      BY <3>2, FS_Singleton, FS_EmptySet
    <3> HIDE DEF F, L
    <3>4. Cardinality(F) + Cardinality(L) = 1
      BY <3>3
    <3> QED
      BY <3>4 DEF F, L
  <2> QED  BY <2>1, <2>2
<1>2. \A i \in Interfaces : forwards[i] # NoAddress => forwards[i] \in listening
  OBVIOUS
<1> QED  BY <1>1, <1>2 DEF TunnelSafe, UpInv
-----------------------------------------------------------------------------
(* TunnelDevice.                                                           *)

LEMMA DevInvInit == DevInit => DevTypeOK /\ DevInv
<1> SUFFICES ASSUME DevInit PROVE DevTypeOK /\ DevInv
  OBVIOUS
<1>1. (CHOOSE p \in DevPorts : TRUE) \in DevPorts
  BY DevAssumption
<1>2. DevTypeOK
  <2>1. /\ kept \in [DevPorts -> Devices \cup {NoDevice}]
        /\ devSeen \in [DevWorkers -> Devices \cup {NoDevice}]
        /\ devPort \in [DevWorkers -> DevPorts]
    BY <1>1 DEF DevInit
  <2>2. made \in 0..MaxDevices /\ devLeft \in 0..MaxDevCmds
    BY DevAssumption DEF DevInit, DevAssumption
  <2> QED  BY <2>1, <2>2 DEF DevInit, DevTypeOK
<1>3. DevInv
  BY DEF DevInit, DevInv, DeviceSafe
<1> QED  BY <1>2, <1>3

LEMMA DevTypeNext == DevTypeOK /\ DevInv /\ [DevNext]_devVars => DevTypeOK'
<1> SUFFICES ASSUME DevTypeOK, DevInv, [DevNext]_devVars PROVE DevTypeOK'
  OBVIOUS
<1> USE DEF DevTypeOK, DevAt, devOfWorkers
<1>0. ASSUME NEW w \in DevWorkers, DevStart(w) PROVE DevTypeOK'
  BY <1>0, DevAssumption DEF DevStart, DevAssumption
<1>1. ASSUME NEW w \in DevWorkers, DeviceUp(w) PROVE DevTypeOK'
  <2>1. made' \in 0..MaxDevices /\ device' \in Devices \cup {NoDevice}
    BY <1>1, DevAssumption DEF DeviceUp, DevAssumption, Devices
  <2> QED  BY <1>1, <2>1 DEF DeviceUp
<1>6. ASSUME NEW w \in DevWorkers, DeviceDown(w) PROVE DevTypeOK'
  BY <1>6 DEF DeviceDown
<1>2. ASSUME NEW w \in DevWorkers, FindDevice(w) PROVE DevTypeOK'
  BY <1>2 DEF FindDevice
<1>3. ASSUME NEW w \in DevWorkers, ListenInside(w) PROVE DevTypeOK'
  BY <1>3 DEF ListenInside, DevInv
<1>4. ASSUME NEW w \in DevWorkers, KeepForward(w) \/ DropForward(w)
      PROVE  DevTypeOK'
  BY <1>4 DEF KeepForward, DropForward
<1>5. CASE UNCHANGED devVars
  BY <1>5 DEF devVars
<1> QED  BY <1>0, <1>1, <1>2, <1>3, <1>4, <1>5, <1>6 DEF DevNext

LEMMA DevInvNext == DevTypeOK /\ DevInv /\ [DevNext]_devVars => DevInv'
<1> SUFFICES ASSUME DevTypeOK, DevInv, [DevNext]_devVars PROVE DevInv'
  OBVIOUS
<1>a. NoDevice \notin Devices
  BY DevAssumption DEF DevAssumption
<1> USE <1>a DEF DevTypeOK, DevInv, DeviceSafe, Holds, DevAt, devOfWorkers
<1>1. ASSUME NEW w \in DevWorkers, DevStart(w) PROVE DevInv'
  BY <1>1 DEF DevStart
<1>2. ASSUME NEW w \in DevWorkers, DeviceUp(w) PROVE DevInv'
  BY <1>2 DEF DeviceUp
<1>3. ASSUME NEW w \in DevWorkers, DeviceDown(w) PROVE DevInv'
  <2>1. /\ \A p \in DevPorts : kept'[p] = NoDevice
        /\ UNCHANGED <<devSeen, devPort>>
    BY <1>3 DEF DeviceDown
  <2>2. \A v \in DevWorkers : devStep'[v] = IF v = w THEN "idle" ELSE devStep[v]
    BY <1>3 DEF DeviceDown
  <2>3. ~outrun' => \A v \in DevWorkers : devStep'[v] \notin {"listen", "keep"}
    BY <1>3, <2>2 DEF DeviceDown
  <2>4. ASSUME NEW l \in inside'
        PROVE  /\ kept'[l[2]] # l[1]
               /\ \E v \in DevWorkers :
                    Holds(v, l)' /\ \A u \in DevWorkers \ {v} : ~Holds(u, l)'
    <3>1. l \in inside /\ kept[l[2]] # l[1] /\ l[1] \in Devices /\ l[2] \in DevPorts
      BY <1>3 DEF DeviceDown
    <3>2. PICK v \in DevWorkers :
            Holds(v, l) /\ \A u \in DevWorkers \ {v} : ~Holds(u, l)
      BY <3>1
    <3>3. Holds(v, l)' /\ \A u \in DevWorkers \ {v} : ~Holds(u, l)'
      BY <1>3, <2>1, <2>2, <3>2 DEF DeviceDown
    <3> QED  BY <2>1, <3>1, <3>3
  <2>5. ASSUME NEW v \in DevWorkers, devStep'[v] = "keep"
        PROVE  <<devSeen'[v], devPort'[v]>> \in inside'
    <3> DEFINE l == <<devSeen[v], devPort[v]>>
    <3>1. devStep[v] = "keep" /\ l \in inside
      BY <2>2, <2>5
    <3>2. Holds(v, l)
      BY <3>1
    <3>3. kept[l[2]] # l[1]
      BY <3>1, <3>2
    <3> QED  BY <1>3, <2>1, <3>1, <3>3 DEF DeviceDown
  <2>6. \A v \in DevWorkers : devStep'[v] \in {"listen", "keep"} =>
          devSeen'[v] # NoDevice
    BY <2>1, <2>2
  <2> QED  BY <2>1, <2>3, <2>4, <2>5, <2>6
<1>4. ASSUME NEW w \in DevWorkers, FindDevice(w) PROVE DevInv'
  BY <1>4 DEF FindDevice
<1>5. ASSUME NEW w \in DevWorkers, ListenInside(w) PROVE DevInv'
  BY <1>5 DEF ListenInside
<1>6. ASSUME NEW w \in DevWorkers, KeepForward(w) PROVE DevInv'
  BY <1>6 DEF KeepForward
<1>7. ASSUME NEW w \in DevWorkers, DropForward(w) PROVE DevInv'
  BY <1>7 DEF DropForward
<1>8. CASE UNCHANGED devVars
  BY <1>8 DEF devVars
<1> QED
  BY <1>1, <1>2, <1>3, <1>4, <1>5, <1>6, <1>7, <1>8 DEF DevNext

-----------------------------------------------------------------------------
(* RuntimeJobs.                                                            *)

LEMMA RtInvInit == RtInit => RtInv
BY RuntimeAssumption DEF RuntimeAssumption, RtInit, RtInv, RtTypeOK, RtOps, PyenvTells

LEMMA RtInvNext == RtInv /\ [RtNext]_rtVars => RtInv'
<1> SUFFICES ASSUME RtInv, [RtNext]_rtVars PROVE RtInv'
  OBVIOUS
<1> USE RuntimeAssumption DEF RuntimeAssumption, RtInv, RtTypeOK, RtOps, PyenvTells, CloneFailed, RtAt
<1>1. ASSUME NEW j \in RtJobs, AskJob(j) PROVE RtInv'
  <2>1. PICK op \in RtOps, w \in Pythons, place \in {"lock", "start"} :
           /\ Accepted(j, op, w, place)
           /\ place = "lock" <=> op \in {"install", "uninstall"}
    BY <1>1 DEF AskJob, AskInstall, AskUninstall, AskBootstrap, AskBuild, AskFollow
  <2> QED  BY <1>1, <2>1 DEF AskJob, Accepted
<1>2. ASSUME NEW j \in RtJobs, LockPyenv(j) PROVE RtInv'
  BY <1>2 DEF LockPyenv
<1>3. ASSUME NEW j \in RtJobs, StartProgram(j) PROVE RtInv'
  <2>1. CASE rtJob[j].op = "bootstrap" /\ pyenv = "absent"
    BY <1>3, <2>1 DEF StartProgram
  <2>2. CASE rtJob[j].op = "bootstrap" /\ pyenv # "absent"
    <3>1. /\ rtJob' = [rtJob EXCEPT ![j].at = "tell"] /\ rtJob[j].at = "start"
          /\ UNCHANGED <<pyenv, pythons, pyenvLock>>
      BY <1>3, <2>2 DEF StartProgram
    <3>2. ~rtJob[j].ok
      BY <3>1
    <3> QED  BY <2>2, <3>1, <3>2
  <2>3. CASE rtJob[j].op # "bootstrap"
    BY <1>3, <2>3 DEF StartProgram
  <2> QED  BY <2>1, <2>2, <2>3
<1>4. ASSUME NEW j \in RtJobs, ProgramSucceeds(j) PROVE RtInv'
  <2>1. /\ rtJob' = [rtJob EXCEPT ![j].at = "tell", ![j].ok = TRUE]
        /\ rtJob[j].at = "run" /\ UNCHANGED pyenvLock
        /\ rtJob[j].op \in {"install", "uninstall"} => pyenv # "absent"
        /\ rtJob[j].op = "bootstrap" => pyenv' = "whole"
        /\ rtJob[j].op # "bootstrap" => pyenv' = pyenv
        /\ rtJob[j].op = "install" => pythons' = pythons \cup {rtJob[j].v}
        /\ rtJob[j].op = "uninstall" => pythons' = pythons \ {rtJob[j].v}
        /\ rtJob[j].op \notin {"install", "uninstall"} => pythons' = pythons
    BY <1>4 DEF ProgramSucceeds, Outcome, BinMayBe
  <2>2. /\ RtTypeOK' /\ \A i \in RtJobs \ {j} : rtJob'[i] = rtJob[i]
        /\ rtJob'[j].op = rtJob[j].op /\ rtJob'[j].v = rtJob[j].v
        /\ rtJob'[j].at = "tell" /\ rtJob'[j].ok
    BY <2>1
  <2>3. CloneFailed => CloneFailed'
    BY <2>1, <2>2
  <2>4. /\ pyenv' = "absent" => pythons' = {}
        /\ \A i \in RtJobs :
             /\ rtJob'[i].at \in {"lock", "start", "run"} => ~rtJob'[i].ok
             /\ rtJob'[i].at = "lock" => rtJob'[i].op \in {"install", "uninstall"}
             /\ rtJob'[i].at \in {"start", "run", "tell"}
                  /\ rtJob'[i].op \in {"install", "uninstall"} => pyenvLock' = i
        /\ \A i, k \in RtJobs :
             rtJob'[k].op = "bootstrap" /\ rtJob'[k].at = "run" =>
               /\ pyenv' = "partial"
               /\ rtJob'[i].op = "bootstrap" /\ rtJob'[i].at = "run" => i = k
    BY <2>1, <2>2
  <2>5. PyenvTells'
    BY <2>1, <2>2, <2>3
  <2> QED  BY <2>2, <2>4, <2>5
<1>5. ASSUME NEW j \in RtJobs, ProgramFails(j) PROVE RtInv'
  BY <1>5 DEF ProgramFails, Outcome
<1>6. ASSUME NEW j \in RtJobs, TellDone(j) PROVE RtInv'
  BY <1>6 DEF TellDone
<1>7. CASE UNCHANGED rtVars
  BY <1>7 DEF rtVars
<1> QED  BY <1>1, <1>2, <1>3, <1>4, <1>5, <1>6, <1>7 DEF RtNext, RtWork

-----------------------------------------------------------------------------
(* The composition.                                                        *)

\* A step of the composition is a step, or none, of each protocol.
LEMMA OneStepEach ==
  [HostNext]_hostVars =>
    /\ [KeyNext]_keyVars /\ [CronNext]_cronVars /\ [LockNext]_lockVars
    /\ [UpdateNext]_updateVars /\ [CredNext]_credVars /\ [TermNext]_termVars
    /\ [LoginNext]_loginVars /\ [LinkNext]_linkVars /\ [DevNext]_devVars
    /\ [RtNext]_rtVars /\ part' = part
<1> SUFFICES ASSUME [HostNext]_hostVars
             PROVE  /\ [KeyNext]_keyVars /\ [CronNext]_cronVars
                    /\ [LockNext]_lockVars /\ [UpdateNext]_updateVars
                    /\ [CredNext]_credVars /\ [TermNext]_termVars
                    /\ [LoginNext]_loginVars /\ [LinkNext]_linkVars
                    /\ [DevNext]_devVars /\ [RtNext]_rtVars /\ part' = part
  OBVIOUS
<1>1. CASE HostNext
  BY <1>1 DEF HostNext, OthersRest
<1>2. CASE UNCHANGED hostVars
  BY <1>2 DEF hostVars
<1> QED  BY <1>1, <1>2

\* The inductive invariant of the composition: that of each protocol.
HostInv ==
  /\ part \in Parts
  /\ KeyTypeOK /\ KeyInv /\ KeyTempInv
  /\ CronTypeOK /\ CronInv
  /\ LockTypeOK /\ LockLoops /\ OriginInv
  /\ UpdateTypeOK /\ UpdateInv
  /\ CredTypeOK /\ CredInv
  /\ TermTypeOK /\ TermInv
  /\ LoginTypeOK /\ LoginInv
  /\ LinkTypeOK /\ PortInv /\ UpInv
  /\ DevTypeOK /\ DevInv
  /\ RtInv

(* No protocol leaves its invariant, from wherever the host may be when    *)
(* the agent starts, for any number of commands and workers of each.       *)
THEOREM HostInvariant == HostSpec => []HostInv
<1>1. HostInit => HostInv
  <2> SUFFICES ASSUME HostInit PROVE HostInv
    OBVIOUS
  <2> USE DEF HostInit
  <2>1. KeyTypeOK /\ KeyInv /\ KeyTempInv  BY KeyInvInit, KeyTypeInit
  <2>2. CronTypeOK /\ CronInv  BY CronInvInit
  <2>3. LockTypeOK /\ LockLoops /\ OriginInv  BY LockTypeInit, OriginInvInit
  <2>4. UpdateTypeOK /\ UpdateInv  BY UpdateInvInit
  <2>5. CredTypeOK /\ CredInv  BY CredTypeInit, CredInvInit
  <2>6. TermTypeOK /\ TermInv  BY TermInvInit
  <2>7. LoginTypeOK /\ LoginInv  BY LoginInvInit
  <2>8. LinkTypeOK /\ PortInv /\ UpInv  BY LinkInvInit
  <2>9. DevTypeOK /\ DevInv  BY DevInvInit
  <2>10. RtInv  BY RtInvInit
  <2> QED
    BY <2>1, <2>2, <2>3, <2>4, <2>5, <2>6, <2>7, <2>8, <2>9, <2>10
       DEF HostInv
<1>2. HostInv /\ [HostNext]_hostVars => HostInv'
  <2> SUFFICES ASSUME HostInv, [HostNext]_hostVars PROVE HostInv'
    OBVIOUS
  <2> USE OneStepEach DEF HostInv
  <2>1. (KeyTypeOK /\ KeyInv /\ KeyTempInv)'  BY KeyInvNext, KeyTypeNext
  <2>2. (CronTypeOK /\ CronInv)'  BY CronTypeNext, CronInvNext
  <2>3. (LockTypeOK /\ LockLoops /\ OriginInv)'
    BY LockTypeNext, OriginInvNext
  <2>4. (UpdateTypeOK /\ UpdateInv)'  BY UpdateTypeNext, UpdateInvNext
  <2>5. (CredTypeOK /\ CredInv)'  BY CredTypeNext, CredInvNext
  <2>6. (TermTypeOK /\ TermInv)'  BY TermTypeNext, TermInvNext
  <2>7. (LoginTypeOK /\ LoginInv)'  BY LoginTypeNext, LoginInvNext
  <2>8. (LinkTypeOK /\ PortInv /\ UpInv)'
    BY LinkTypeNext, PortInvNext, UpInvNext
  <2>9. (DevTypeOK /\ DevInv)'  BY DevTypeNext, DevInvNext
  <2>10. RtInv'  BY RtInvNext
  <2>11. part' \in Parts  OBVIOUS
  <2> QED
    BY <2>1, <2>2, <2>3, <2>4, <2>5, <2>6, <2>7, <2>8, <2>9, <2>10, <2>11
<1> QED  BY <1>1, <1>2, PTL DEF HostSpec

(* Every variable of the ten protocols keeps its type: the edited files    *)
(* stay files of lines, the channels within their capacity, the firewall's *)
(* rules rules for the web ports.                                          *)
THEOREM HostTypes == HostSpec => []HostTypeOK
<1>1. HostInv => HostTypeOK
  BY DEF HostInv, HostTypeOK, RtInv
<1> QED  BY <1>1, HostInvariant, PTL

(* Every change of authorized_keys is one command's edit of what the file  *)
(* holds at that moment, for any number of workers and commands, with any  *)
(* of their calls failing and the agent dying anywhere                     *)
(* (sshkeys_handlers.go:33-35, 51-128).                                    *)
THEOREM KeysCompose == HostSpec => KeyEditsCompose
<1>1. HostInv /\ [HostNext]_hostVars =>
        [authFile' # authFile =>
           \E w \in KeyWorkers :
             authFile' = Edited(keyOp[w], keyLine[w], authFile)]_keyVars
  BY KeyEditIsFresh, OneStepEach DEF HostInv
<1> QED  BY <1>1, HostInvariant, PTL DEF HostSpec, KeyEditsCompose

(* A change of the file adds its command's key exactly once, with the      *)
(* options it was given, or takes the key out altogether; the lines of all *)
(* other keys, comments and what parses as nothing stay as they are and in *)
(* their order, whatever other commands do meanwhile                       *)
(* (sshkeys.go:133-199, sshkeys_handlers.go:51-128).                       *)
THEOREM KeyEditsExact ==
  HostSpec =>
    [][authFile' # authFile =>
         \E w \in KeyWorkers :
           ExactEdit(keyOp[w], keyLine[w], authFile, authFile')]_keyVars
<1>1. HostInv /\ [HostNext]_hostVars =>
        [authFile' # authFile =>
           \E w \in KeyWorkers :
             ExactEdit(keyOp[w], keyLine[w], authFile, authFile')]_keyVars
  <2> SUFFICES ASSUME HostInv, [HostNext]_hostVars, authFile' # authFile
               PROVE  \E w \in KeyWorkers :
                        ExactEdit(keyOp[w], keyLine[w], authFile, authFile')
    OBVIOUS
  <2>1. PICK w \in KeyWorkers :
          authFile' = Edited(keyOp[w], keyLine[w], authFile)
    <3>1. KeyInv /\ [KeyNext]_keyVars
      BY OneStepEach DEF HostInv
    <3>2. keyVars' # keyVars
      BY DEF keyVars
    <3> QED BY <3>1, <3>2, KeyEditIsFresh
  <2>2. /\ authFile \in Seq(AllLines) /\ keyLine[w] \in KeyLines
        /\ keyOp[w] \in {"add", "remove", "list"}
    BY DEF HostInv, KeyTypeOK
  <2> QED BY <2>1, <2>2, EditIsExact
<1> QED  BY <1>1, HostInvariant, PTL DEF HostSpec

(* Whatever commands overlap, fail or die, the crontab never gets two      *)
(* entries with one identifier, and an entry that no command has named     *)
(* stays in it as it was (cron_linux.go:56-240, cron_parse.go).            *)
THEOREM CrontabKept == HostSpec => []CrontabSafe
<1>1. HostInv => CrontabSafe
  BY DEF HostInv, CronInv
<1> QED  BY <1>1, HostInvariant, PTL

(* As long as no apply and remove are entangled, every web port admits     *)
(* everyone or all of Cloudflare, whichever ufw calls fail or take effect  *)
(* without saying so (protect_handlers.go:520-566, 602-631).               *)
THEOREM PortsReachable == HostSpec => []OriginReachable
<1>1. HostInv => OriginReachable
  BY DEF HostInv, OriginInv, OriginReachable
<1> QED  BY <1>1, HostInvariant, PTL

(* Through any number of installations, one at a time, with a failure or a *)
(* crash at any call, the binary or its backup can run                     *)
(* (updater.go:139-255, 528-543).                                          *)
THEOREM BinarySurvives == HostSpec => []BinaryRecoverable
<1>1. HostInv => BinaryRecoverable
  BY UpdateInvKeepsBinary DEF HostInv
<1> QED  BY <1>1, HostInvariant, PTL

(* What was acknowledged as saved is in the key file until it is written   *)
(* again, and without trouble all copies of the credentials agree between  *)
(* rotations (agent.go:1161-1245, config.go:298-376).                      *)
THEOREM RotationsAgree == HostSpec => []RotationSafe
<1>1. HostInv => RotationSafe
  BY CredInvIsSafe DEF HostInv
<1> QED  BY <1>1, HostInvariant, PTL

(* A live shell can be found by its id, or somebody has taken it to close  *)
(* it, for any number of sessions and workers (terminal.go:46-116,         *)
(* agent.go:1699-1707).                                                    *)
THEOREM ShellsOwned == HostSpec => []ShellIsOwned
<1>1. HostInv => ShellIsOwned
  BY DEF HostInv, TermInv
<1> QED  BY <1>1, HostInvariant, PTL

(* Every listener of the agent has exactly one owner, the map or the       *)
(* command opening it, and an interface that is up has its key and address *)
(* unless an up and a down of it overlapped, for any number of workers,    *)
(* interfaces and addresses (wireguard_linux.go:91-187).                   *)
THEOREM TunnelsOwned == HostSpec => []TunnelSafe
<1>1. HostInv => TunnelSafe
  BY LinkInvIsSafe DEF HostInv
<1> QED  BY <1>1, HostInvariant, PTL

(* A listener inside a tunnel device has one owner, and what the map names *)
(* listens inside the device that is up, unless the interface was taken    *)
(* down under a Forward, for any number of workers, ports and devices      *)
(* (wireguard_other.go:115-207).                                           *)
THEOREM DevicesOwned == HostSpec => []DeviceSafe
<1>1. HostInv => DeviceSafe
  BY DEF HostInv, DevInv
<1> QED  BY <1>1, HostInvariant, PTL

(* Both of the above, as the runs check them: what the agent needs to come *)
(* up again survives, and what it has opened on the host has an owner.     *)
THEOREM DiskSurvives == HostSpec => []DiskRecoverable
<1>1. BinaryRecoverable /\ RotationSafe => DiskRecoverable
  BY DEF DiskRecoverable
<1> QED  BY <1>1, BinarySurvives, RotationsAgree, PTL

THEOREM AllOwned == HostSpec => []ResourcesOwned
<1>1. ShellIsOwned /\ TunnelSafe /\ DeviceSafe => ResourcesOwned
  BY DEF ResourcesOwned
<1> QED  BY <1>1, ShellsOwned, TunnelsOwned, DevicesOwned, PTL

(* What a job says of pyenv and its Pythons is so when it says it, unless a *)
(* clone failed under it, for any number of jobs and versions               *)
(* (runtime_handlers.go:219-374).                                           *)
THEOREM PyenvTold == HostSpec => []PyenvTells
<1>1. HostInv => PyenvTells
  BY DEF HostInv, RtInv
<1> QED  BY <1>1, HostInvariant, PTL

(* A login job tells its end once and last, and never needs the terminator *)
(* it has for a channel that closes without a verdict, whatever cloudflared *)
(* prints and whatever the capacities of the channels                       *)
(* (cloudflared_handlers.go:95-130, cloudflared_linux.go:60-150).           *)
THEOREM LoginTold == HostSpec => []LoginToldOnce
<1>1. HostInv => LoginToldOnce
  BY LoginInvTold DEF HostInv
<1> QED  BY <1>1, HostInvariant, PTL

(* Both, as the run checks them.                                           *)
THEOREM JobsTold == HostSpec => []JobsTell
<1>1. PyenvTells /\ LoginToldOnce => JobsTell
  BY DEF JobsTell
<1> QED  BY <1>1, PyenvTold, LoginTold, PTL
=============================================================================
