-------------------------- MODULE JobStreamProofs --------------------------
(* The ring buffer, the registry and the replay of JobStream, for any jobs, *)
(* capacities and number of events.                                         *)
EXTENDS JobStream, SequenceTheorems, TLAPS

\* Replay, of a ring given by its fields.
Read(f, h, wrapped) ==
  IF wrapped THEN Segment(f, h, Cap) \o Segment(f, 0, h) ELSE Segment(f, 0, h)

\* What a segment of a ring is.
SegmentShape(V, f, from, to) ==
  /\ Segment(f, from, to) \in Seq(V)
  /\ Len(Segment(f, from, to)) = to - from
  /\ \A i \in 1..to - from : Segment(f, from, to)[i] = f[from + i - 1]

LEMMA SegmentProps ==
  ASSUME NEW V, NEW f \in [Slots -> V], NEW from \in 0..Cap, NEW to \in from..Cap
  PROVE  SegmentShape(V, f, from, to)
<1> USE JobsAssumption DEF JobsAssumption
<1>1. to - from \in Nat /\ \A i \in 1..to - from : f[from + i - 1] \in V
  BY DEF Slots
<1>2. Segment(f, from, to) \in Seq(V)
  BY <1>1, IsASeq DEF Segment
<1> QED  BY <1>1, <1>2 DEF Segment, SegmentShape

\* The slots a replay reads, in its order.
LEMMA ReadProps ==
  ASSUME NEW V, NEW f \in [Slots -> V], NEW h \in Slots, NEW w \in BOOLEAN
  PROVE  /\ Read(f, h, w) \in Seq(V)
         /\ Len(Read(f, h, w)) = (IF w THEN Cap ELSE h)
         /\ \A i \in 1..Len(Read(f, h, w)) :
              Read(f, h, w)[i] = f[IF ~w THEN i - 1
                                   ELSE IF h + i - 1 < Cap THEN h + i - 1
                                        ELSE h + i - 1 - Cap]
<1>0. h \in 0..Cap /\ Cap \in h..Cap /\ 0 \in 0..Cap
  BY JobsAssumption DEF JobsAssumption, Slots
<1>a. /\ Segment(f, 0, h) \in Seq(V)
      /\ Len(Segment(f, 0, h)) = h - 0
      /\ \A i \in 1..h - 0 : Segment(f, 0, h)[i] = f[0 + i - 1]
  <2>1. SegmentShape(V, f, 0, h)
    BY <1>0, SegmentProps
  <2> QED  BY <2>1 DEF SegmentShape
<1>b. /\ Segment(f, h, Cap) \in Seq(V)
      /\ Len(Segment(f, h, Cap)) = Cap - h
      /\ \A i \in 1..Cap - h : Segment(f, h, Cap)[i] = f[h + i - 1]
  <2>1. SegmentShape(V, f, h, Cap)
    BY <1>0, SegmentProps
  <2> QED  BY <2>1 DEF SegmentShape
<1> USE JobsAssumption DEF JobsAssumption
<1> DEFINE new == Segment(f, 0, h)
           old == Segment(f, h, Cap)
<1> HIDE DEF new, old
<1>1. /\ new \in Seq(V) /\ Len(new) = h
      /\ \A i \in 1..h : new[i] = f[i - 1]
  BY <1>a DEF new, Slots
<1>2. /\ old \in Seq(V) /\ Len(old) = Cap - h
      /\ \A i \in 1..Cap - h : old[i] = f[h + i - 1]
  BY <1>b DEF old
<1>3. CASE ~w
  <2>1. Read(f, h, w) = new
    BY <1>3 DEF Read, new
  <2> QED  BY <1>1, <1>3, <2>1
<1>4. CASE w
  <2>1. Read(f, h, w) = old \o new
    BY <1>4 DEF Read, new, old
  <2>2. /\ old \o new \in Seq(V)
        /\ Len(old \o new) = Len(old) + Len(new)
        /\ \A i \in 1..Len(old) + Len(new) :
             (old \o new)[i] = (IF i <= Len(old) THEN old[i] ELSE new[i - Len(old)])
    <3>1. new \in Seq(V) /\ old \in Seq(V)
      BY <1>1, <1>2
    <3> QED  BY ONLY <3>1, ConcatProperties
  <2>3. Len(old) + Len(new) = Cap
    BY <1>1, <1>2 DEF Slots
  <2>4. ASSUME NEW i \in 1..Cap
        PROVE  (old \o new)[i] = f[IF h + i - 1 < Cap THEN h + i - 1
                                   ELSE h + i - 1 - Cap]
    <3>1. CASE i <= Cap - h
      <4>1. i \in 1..Cap - h /\ h + i - 1 < Cap
        BY <3>1 DEF Slots
      <4>2. (old \o new)[i] = old[i]
        BY <1>2, <2>2, <2>3, <4>1 DEF Slots
      <4> QED  BY <1>2, <4>1, <4>2
    <3>2. CASE i > Cap - h
      <4>1. i - (Cap - h) \in 1..h /\ i - (Cap - h) - 1 = h + i - 1 - Cap
        BY <3>2 DEF Slots
      <4>2. (old \o new)[i] = new[i - (Cap - h)]
        BY <1>2, <2>2, <2>3, <3>2 DEF Slots
      <4>3. new[i - (Cap - h)] = f[h + i - 1 - Cap]
        BY <1>1, <4>1
      <4>4. ~(h + i - 1 < Cap)
        BY <3>2 DEF Slots
      <4> QED  BY <4>2, <4>3, <4>4
    <3>3. i <= Cap - h \/ i > Cap - h
      BY DEF Slots
    <3> QED  BY <3>1, <3>2, <3>3
  <2> QED  BY <1>4, <2>1, <2>2, <2>3, <2>4
<1> QED  BY <1>3, <1>4

\* The last n elements of a sequence.
LEMMA LastProps ==
  ASSUME NEW V, NEW s \in Seq(V), NEW n \in Nat
  PROVE  /\ Last(s, n) \in Seq(V)
         /\ Len(Last(s, n)) = (IF Len(s) > n THEN n ELSE Len(s))
         /\ \A i \in 1..Len(Last(s, n)) :
              Last(s, n)[i] = s[Len(s) - Len(Last(s, n)) + i]
<1> DEFINE from == (IF Len(s) > n THEN Len(s) - n ELSE 0) + 1
<1>1. Len(s) \in Nat /\ from \in Int /\ from \in 1..Len(s) + 1
  BY LenProperties
<1>2. \A i \in from..Len(s) : s[i] \in V
  BY <1>1, ElementOfSeq
<1>3. Last(s, n) = SubSeq(s, from, Len(s))
  BY DEF Last
<1> HIDE DEF from
<1>4. /\ SubSeq(s, from, Len(s)) \in Seq(V)
      /\ Len(SubSeq(s, from, Len(s))) = (IF from <= Len(s) THEN Len(s) - from + 1 ELSE 0)
      /\ \A i \in 1..Len(s) - from + 1 :
           SubSeq(s, from, Len(s))[i] = s[from + i - 1]
  BY <1>1, <1>2, SubSeqProperties
<1>5. Len(Last(s, n)) = Len(s) - from + 1
  BY <1>1, <1>3, <1>4
<1>6. Len(s) - from + 1 = (IF Len(s) > n THEN n ELSE Len(s))
  BY <1>1 DEF from
<1>7. \A i \in 1..Len(s) - from + 1 : Last(s, n)[i] = s[Len(s) - (Len(s) - from + 1) + i]
  BY <1>1, <1>3, <1>4
<1> QED  BY <1>3, <1>4, <1>5, <1>6, <1>7

\* The head wraps.
LEMMA AdvanceProps ==
  ASSUME NEW h \in Slots
  PROVE  /\ Advance(h) \in Slots
         /\ Advance(h) = (IF h + 1 = Cap THEN 0 ELSE h + 1)
  BY JobsAssumption DEF JobsAssumption, Slots, Advance

\* One Push keeps a ring the end of its history.
LEMMA PushKeepsSuffix ==
  ASSUME NEW V, NEW f \in [Slots -> V], NEW h \in Slots, NEW w \in BOOLEAN,
         NEW s \in Seq(V), NEW e \in V,
         Read(f, h, w) = Last(s, Cap),
         NEW g \in [Slots -> V], NEW k \in Slots, NEW x \in BOOLEAN,
         g[h] = e, \A i \in Slots \ {h} : g[i] = f[i],
         k = (IF h + 1 = Cap THEN 0 ELSE h + 1), x <=> (w \/ k = 0)
  PROVE  Read(g, k, x) = Last(Append(s, e), Cap)
<1> USE JobsAssumption DEF JobsAssumption
<1> DEFINE t == Append(s, e)
           m == Len(s)
<1>1. /\ g \in [Slots -> V] /\ k \in Slots /\ x \in BOOLEAN
      /\ k = (IF h + 1 = Cap THEN 0 ELSE h + 1)
      /\ g[h] = e /\ \A i \in Slots \ {h} : g[i] = f[i]
  OBVIOUS
<1>2. /\ t \in Seq(V) /\ Len(t) = m + 1 /\ m \in Nat /\ t[m + 1] = e
      /\ \A i \in 1..m : t[i] = s[i]
  BY AppendProperties, LenProperties
<1> HIDE DEF t, m
<1>a. /\ Len(Read(f, h, w)) = (IF w THEN Cap ELSE h)
      /\ \A i \in 1..Len(Read(f, h, w)) :
           Read(f, h, w)[i] = f[IF ~w THEN i - 1
                                ELSE IF h + i - 1 < Cap THEN h + i - 1
                                     ELSE h + i - 1 - Cap]
  BY ONLY f \in [Slots -> V], h \in Slots, w \in BOOLEAN, ReadProps
<1>b. /\ Len(Last(s, Cap)) = (IF Len(s) > Cap THEN Cap ELSE Len(s))
      /\ \A i \in 1..Len(Last(s, Cap)) :
           Last(s, Cap)[i] = s[Len(s) - Len(Last(s, Cap)) + i]
  <2>1. Cap \in Nat
    OBVIOUS
  <2> QED  BY <2>1, LastProps
<1>3. /\ Len(Read(f, h, w)) = (IF w THEN Cap ELSE h)
      /\ Len(Read(f, h, w)) = (IF m > Cap THEN Cap ELSE m)
      /\ \A i \in 1..Len(Read(f, h, w)) :
           s[m - Len(Read(f, h, w)) + i] = f[IF ~w THEN i - 1
                                             ELSE IF h + i - 1 < Cap THEN h + i - 1
                                                  ELSE h + i - 1 - Cap]
  <2>1. /\ Len(Read(f, h, w)) = (IF m > Cap THEN Cap ELSE m)
        /\ \A i \in 1..Len(Read(f, h, w)) :
             Read(f, h, w)[i] = s[m - Len(Read(f, h, w)) + i]
    BY <1>b DEF m
  <2> QED  BY <1>a, <2>1
<1>4. (w => m >= Cap) /\ (~w => m = h /\ m < Cap)
  BY <1>2, <1>3 DEF Slots
<1>5. /\ Read(g, k, x) \in Seq(V)
      /\ Len(Read(g, k, x)) = (IF x THEN Cap ELSE k)
      /\ \A i \in 1..Len(Read(g, k, x)) :
           Read(g, k, x)[i] = g[IF ~x THEN i - 1
                                ELSE IF k + i - 1 < Cap THEN k + i - 1
                                     ELSE k + i - 1 - Cap]
  BY ONLY g \in [Slots -> V], k \in Slots, x \in BOOLEAN, ReadProps
<1>6. /\ Last(t, Cap) \in Seq(V)
      /\ Len(Last(t, Cap)) = (IF m + 1 > Cap THEN Cap ELSE m + 1)
      /\ \A i \in 1..Len(Last(t, Cap)) :
           Last(t, Cap)[i] = t[m + 1 - Len(Last(t, Cap)) + i]
  <2>1. Cap \in Nat
    OBVIOUS
  <2>2. /\ Last(t, Cap) \in Seq(V)
        /\ Len(Last(t, Cap)) = (IF Len(t) > Cap THEN Cap ELSE Len(t))
        /\ \A i \in 1..Len(Last(t, Cap)) :
             Last(t, Cap)[i] = t[Len(t) - Len(Last(t, Cap)) + i]
    <3>1. t \in Seq(V)
      BY <1>2
    <3> QED  BY ONLY <2>1, <3>1, LastProps
  <2>3. Len(t) = m + 1
    BY <1>2
  <2>4. Len(Last(t, Cap)) = (IF m + 1 > Cap THEN Cap ELSE m + 1)
    BY <2>2, <2>3
  <2>5. ASSUME NEW i \in 1..Len(Last(t, Cap))
        PROVE  Last(t, Cap)[i] = t[m + 1 - Len(Last(t, Cap)) + i]
    <3>1. Len(t) - Len(Last(t, Cap)) + i = m + 1 - Len(Last(t, Cap)) + i
      BY <1>2, <2>3, <2>4
    <3> QED  BY <2>2, <3>1
  <2> QED  BY <2>2, <2>4, <2>5
<1>7. Len(Read(g, k, x)) = Len(Last(t, Cap))
  BY <1>1, <1>2, <1>4, <1>5, <1>6 DEF Slots
<1>8. ASSUME NEW i \in 1..Len(Read(g, k, x))
      PROVE  Read(g, k, x)[i] = Last(t, Cap)[i]
  <2>1. CASE w
    <3>1. x /\ i \in 1..Cap /\ Len(Last(t, Cap)) = Cap /\ m >= Cap
      BY <2>1, <1>4, <1>5, <1>7, <1>8
    <3>2. Last(t, Cap)[i] = t[m + 1 - Cap + i]
      BY <1>6, <3>1
    <3>3. CASE i = Cap
      <4>1. m + 1 - Cap + i = m + 1
        BY <1>2, <3>3
      <4>2. (IF k + i - 1 < Cap THEN k + i - 1 ELSE k + i - 1 - Cap) = h
        BY <1>1, <3>3 DEF Slots
      <4>3. Read(g, k, x)[i] = g[h]
        BY <1>5, <1>8, <3>1, <4>2
      <4> QED  BY <1>1, <1>2, <3>2, <4>1, <4>3
    <3>4. CASE i < Cap
      <4>1. Last(t, Cap)[i] = s[m - Cap + (i + 1)]
        BY <1>2, <3>1, <3>2, <3>4
      <4>2. s[m - Cap + (i + 1)] = f[IF h + i < Cap THEN h + i ELSE h + i - Cap]
        <5>1. Len(Read(f, h, w)) = Cap /\ i + 1 \in 1..Cap
          BY <1>3, <2>1, <3>1, <3>4
        <5>2. h + (i + 1) - 1 = h + i /\ h + (i + 1) - 1 - Cap = h + i - Cap
          BY <3>1 DEF Slots
        <5> QED  BY <1>3, <2>1, <5>1, <5>2
      <4>3. Read(g, k, x)[i] = g[IF h + i < Cap THEN h + i ELSE h + i - Cap]
        <5>1. (IF k + i - 1 < Cap THEN k + i - 1 ELSE k + i - 1 - Cap)
                = (IF h + i < Cap THEN h + i ELSE h + i - Cap)
          BY <1>1, <3>1, <3>4 DEF Slots
        <5> QED  BY <1>5, <1>8, <3>1, <5>1
      <4>4. (IF h + i < Cap THEN h + i ELSE h + i - Cap) \in Slots \ {h}
        BY <3>1, <3>4 DEF Slots
      <4> QED  BY <1>1, <4>1, <4>2, <4>3, <4>4
    <3>5. i = Cap \/ i < Cap
      BY <3>1
    <3> QED  BY <3>3, <3>4, <3>5
  <2>2. CASE ~w
    <3>1. m = h /\ m < Cap /\ i \in 1..m + 1 /\ Len(Last(t, Cap)) = m + 1
      BY <1>2, <1>4, <1>6, <1>7, <2>2
    <3>2. Last(t, Cap)[i] = t[i]
      <4>1. m + 1 - (m + 1) + i = i
        BY <1>2, <3>1
      <4> QED  BY <1>6, <3>1, <4>1
    <3>3. Read(g, k, x)[i] = g[i - 1]
      <4>1. (IF ~x THEN i - 1 ELSE IF k + i - 1 < Cap THEN k + i - 1
                              ELSE k + i - 1 - Cap) = i - 1
        BY <1>1, <2>2, <3>1 DEF Slots
      <4> QED  BY <1>5, <4>1
    <3>4. CASE i = m + 1
      BY <1>1, <1>2, <3>1, <3>2, <3>3, <3>4
    <3>5. CASE i <= m
      <4>1. Len(Read(f, h, w)) = m /\ i \in 1..m /\ m - m + i = i
        BY <1>2, <1>3, <2>2, <3>1, <3>5
      <4>2. s[i] = f[i - 1]
        BY <1>3, <2>2, <4>1
      <4>3. i - 1 \in Slots \ {h}
        BY <3>1, <3>5 DEF Slots
      <4> QED  BY <1>1, <1>2, <3>2, <3>3, <4>1, <4>2, <4>3
    <3> QED  BY <1>2, <3>1, <3>4, <3>5
  <2> QED  BY <2>1, <2>2
<1>9. Read(g, k, x) = Last(t, Cap)
  BY <1>5, <1>6, <1>7, <1>8, SeqEqual
<1> QED  BY <1>9 DEF t

-----------------------------------------------------------------------------
(* The buffers, and the panels that read them.                             *)

LEMMA ReplayIsRead == \A j \in Jobs : Replay(j) = Read(ring[j], head[j], full[j])
  BY DEF Replay, Read

\* What Subscribe takes a snapshot of.
LEMMA ReplayProps ==
  ASSUME BufferInv, NEW j \in Jobs
  PROVE  /\ Replay(j) \in Seq(1..MaxEvents)
         /\ Len(Replay(j)) \in 0..Len(history[j])
         /\ Len(history[j]) \in 0..MaxEvents
         /\ \A i \in 1..Len(Replay(j)) :
              Replay(j)[i] = Len(history[j]) - Len(Replay(j)) + i
<1> USE JobsAssumption DEF JobsAssumption
<1>1. history[j] \in Seq(1..MaxEvents) /\ Cap \in Nat
  BY DEF BufferInv, TypeOK
<1>2. /\ Last(history[j], Cap) \in Seq(1..MaxEvents)
      /\ Len(Last(history[j], Cap))
           = (IF Len(history[j]) > Cap THEN Cap ELSE Len(history[j]))
      /\ \A i \in 1..Len(Last(history[j], Cap)) :
           Last(history[j], Cap)[i]
             = history[j][Len(history[j]) - Len(Last(history[j], Cap)) + i]
  BY <1>1, LastProps
<1>3. Replay(j) = Last(history[j], Cap)
  BY DEF BufferInv, ReplayIsSuffix
<1>4. Len(history[j]) \in Nat /\ DOMAIN history[j] = 1..Len(history[j])
  BY <1>1, LenProperties
<1>5. \A n \in 1..Len(history[j]) : history[j][n] = n /\ n \in 1..MaxEvents
  BY <1>1, <1>4, ElementOfSeq DEF BufferInv, Numbered
<1>6. Len(history[j]) \in 0..MaxEvents
  BY <1>4, <1>5
<1>7. Len(Replay(j)) \in 0..Len(history[j])
  BY <1>1, <1>2, <1>3, <1>4
<1>8. ASSUME NEW i \in 1..Len(Replay(j))
      PROVE  Replay(j)[i] = Len(history[j]) - Len(Replay(j)) + i
  <2>1. Len(history[j]) - Len(Replay(j)) + i \in 1..Len(history[j])
    BY <1>4, <1>7
  <2> QED  BY <1>2, <1>3, <1>5, <2>1
<1> QED  BY <1>2, <1>3, <1>6, <1>7, <1>8

LEMMA InitBuffer == Init => BufferInv
<1> SUFFICES ASSUME Init PROVE BufferInv
  OBVIOUS
<1> USE JobsAssumption DEF JobsAssumption
<1>1. TypeOK
  <2>1. \A V : <<>> \in Seq(V)
    BY EmptySeq
  <2>2. ring \in [Jobs -> [Slots -> 0..MaxEvents]] /\ head \in [Jobs -> Slots]
    BY DEF Init, Slots
  <2>3. Idle \in [job : Jobs \cup {"none"}, rest : Seq(1..MaxEvents)]
    BY <2>1 DEF Idle
  <2>4. /\ order \in Seq(Jobs) /\ started \in Seq(Jobs)
        /\ history \in [Jobs -> Seq(1..MaxEvents)]
        /\ received \in [Jobs -> Seq([n : 1..MaxEvents, replayed : BOOLEAN])]
    BY <2>1 DEF Init
  <2>5. /\ since \in [Jobs -> 0..MaxEvents + 1] /\ pushing \in [Jobs -> 0..MaxEvents]
        /\ done \in [Jobs -> BOOLEAN] /\ full \in [Jobs -> BOOLEAN]
    BY DEF Init
  <2>6. reader = Idle /\ jobs = {} /\ watching = {} /\ lossy = FALSE
    BY DEF Init
  <2> QED  BY <2>2, <2>3, <2>4, <2>5, <2>6 DEF TypeOK
<1>2. ReplayIsSuffix
  <2> SUFFICES ASSUME NEW j \in Jobs PROVE Replay(j) = Last(history[j], Cap)
    BY DEF ReplayIsSuffix
  <2>1. /\ ring[j] \in [Slots -> 0..MaxEvents] /\ head[j] \in Slots
        /\ full[j] \in BOOLEAN
    BY DEF Init, Slots
  <2>2. head[j] = 0 /\ ~full[j] /\ history[j] = <<>>
    BY DEF Init
  <2>3. /\ Read(ring[j], head[j], full[j]) \in Seq(0..MaxEvents)
        /\ Len(Read(ring[j], head[j], full[j])) = (IF full[j] THEN Cap ELSE head[j])
    <3> DEFINE f == ring[j]
               h == head[j]
               w == full[j]
               V == 0..MaxEvents
    <3>1. f \in [Slots -> V] /\ h \in Slots /\ w \in BOOLEAN
      BY <2>1
    <3> HIDE DEF f, h, w, V
    <3>2. Read(f, h, w) \in Seq(V) /\ Len(Read(f, h, w)) = (IF w THEN Cap ELSE h)
      BY <3>1, ReadProps
    <3> QED  BY <3>2 DEF f, h, w, V
  <2>4. history[j] \in Seq(0..MaxEvents) /\ Len(history[j]) = 0 /\ Cap \in Nat
    BY <2>2, EmptySeq
  <2>5. /\ Last(history[j], Cap) \in Seq(0..MaxEvents)
        /\ Len(Last(history[j], Cap)) = (IF Len(history[j]) > Cap THEN Cap ELSE Len(history[j]))
    BY <2>4, LastProps
  <2>6. Read(ring[j], head[j], full[j]) = <<>>
    BY <2>2, <2>3, EmptySeq
  <2>7. Last(history[j], Cap) = <<>>
    BY <2>4, <2>5, EmptySeq
  <2> QED  BY <2>6, <2>7, ReplayIsRead
<1>3. Numbered
  BY DEF Init, Numbered
<1>4. WatchInv
  BY DEF Init, WatchInv
<1> QED  BY <1>1, <1>2, <1>3, <1>4 DEF BufferInv

\* Push's critical section.
LEMMA RecordKeepsBuffer ==
  ASSUME BufferInv, NEW j \in Jobs, Record(j)
  PROVE  BufferInv'
<1> USE JobsAssumption DEF JobsAssumption
<1> DEFINE e == Len(history[j]) + 1
<1>0. TypeOK
  BY DEF BufferInv
<1>1. /\ history[j] \in Seq(1..MaxEvents) /\ Len(history[j]) \in Nat
      /\ e \in 1..MaxEvents
  BY LenProperties DEF BufferInv, TypeOK, Record
<1> HIDE DEF e
<1>2. /\ ring' = [ring EXCEPT ![j] = [ring[j] EXCEPT ![head[j]] = e]]
      /\ head' = [head EXCEPT ![j] = Advance(head[j])]
      /\ full' = [full EXCEPT ![j] = full[j] \/ Advance(head[j]) = 0]
      /\ history' = [history EXCEPT ![j] = Append(history[j], e)]
      /\ pushing' = [pushing EXCEPT ![j] = e]
      /\ \E final \in BOOLEAN : done' = [done EXCEPT ![j] = final]
      /\ UNCHANGED <<order, jobs, started, reader, received, watching, lossy, since>>
  BY DEF Record, e, registryVars, panelVars
<1>3. /\ head[j] \in Slots /\ Advance(head[j]) \in Slots
      /\ ring[j] \in [Slots -> 0..MaxEvents] /\ full[j] \in BOOLEAN
      /\ [ring[j] EXCEPT ![head[j]] = e] \in [Slots -> 0..MaxEvents]
  <2>1. /\ head[j] \in Slots /\ full[j] \in BOOLEAN
        /\ ring[j] \in [Slots -> 0..MaxEvents]
    BY <1>0 DEF TypeOK
  <2>2. Advance(head[j]) \in Slots
    BY <2>1, AdvanceProps
  <2>3. e \in 0..MaxEvents
    BY <1>1
  <2>4. [ring[j] EXCEPT ![head[j]] = e] \in [Slots -> 0..MaxEvents]
    BY <2>1, <2>3
  <2> QED  BY <2>1, <2>2, <2>4
<1>4. /\ Append(history[j], e) \in Seq(1..MaxEvents)
      /\ Len(Append(history[j], e)) = Len(history[j]) + 1
      /\ \A i \in 1..Len(history[j]) : Append(history[j], e)[i] = history[j][i]
      /\ Append(history[j], e)[Len(history[j]) + 1] = e
  BY <1>1, AppendProperties
<1>5. TypeOK'
  <2>1. /\ ring' \in [Jobs -> [Slots -> 0..MaxEvents]]
        /\ head' \in [Jobs -> Slots] /\ full' \in [Jobs -> BOOLEAN]
    BY <1>0, <1>2, <1>3 DEF TypeOK
  <2>2. history' \in [Jobs -> Seq(1..MaxEvents)]
    BY <1>0, <1>2, <1>4 DEF TypeOK
  <2>3. done' \in [Jobs -> BOOLEAN]
    BY <1>0, <1>2 DEF TypeOK
  <2>4. pushing' \in [Jobs -> 0..MaxEvents]
    BY <1>0, <1>1, <1>2 DEF TypeOK
  <2> QED  BY <1>0, <1>2, <2>1, <2>2, <2>3, <2>4 DEF TypeOK
<1>6. ReplayIsSuffix'
  <2>1. \A k \in Jobs : Replay(k)' = Read(ring'[k], head'[k], full'[k])
    BY DEF Replay, Read
  <2>2. ASSUME NEW k \in Jobs
        PROVE  Read(ring'[k], head'[k], full'[k]) = Last(history'[k], Cap)
    <3>1. Read(ring[k], head[k], full[k]) = Last(history[k], Cap)
      BY ReplayIsRead DEF BufferInv, ReplayIsSuffix
    <3>2. CASE k # j
      <4>1. /\ ring'[k] = ring[k] /\ head'[k] = head[k] /\ full'[k] = full[k]
            /\ history'[k] = history[k]
        BY <1>0, <1>2, <3>2 DEF TypeOK
      <4> QED  BY <3>1, <4>1
    <3>3. CASE k = j
      <4>1. /\ ring'[j] = [ring[j] EXCEPT ![head[j]] = e]
            /\ head'[j] = Advance(head[j])
            /\ full'[j] = (full[j] \/ Advance(head[j]) = 0)
            /\ history'[j] = Append(history[j], e)
        BY <1>0, <1>2 DEF TypeOK
      <4>2. history[j] \in Seq(0..MaxEvents) /\ e \in 0..MaxEvents
        <5>1. 1..MaxEvents \subseteq 0..MaxEvents
          OBVIOUS
        <5> QED  BY <1>1, <5>1, SeqMonotonic
      <4>3. Read(ring[j], head[j], full[j]) = Last(history[j], Cap)
        BY <3>1, <3>3
      <4>4. /\ ring'[j] \in [Slots -> 0..MaxEvents]
            /\ head'[j] \in Slots /\ full'[j] \in BOOLEAN
        BY <1>5 DEF TypeOK
      <4> DEFINE f == ring[j]
                 h == head[j]
                 w == full[j]
                 s == history[j]
                 g == ring'[j]
                 l == head'[j]
                 x == full'[j]
                 V == 0..MaxEvents
      <4>5. /\ f \in [Slots -> V] /\ h \in Slots /\ w \in BOOLEAN
            /\ s \in Seq(V) /\ e \in V /\ Read(f, h, w) = Last(s, Cap)
            /\ g[h] = e /\ \A i \in Slots \ {h} : g[i] = f[i]
            /\ l = (IF h + 1 = Cap THEN 0 ELSE h + 1)
            /\ g \in [Slots -> V] /\ l \in Slots /\ x \in BOOLEAN /\ (x <=> (w \/ l = 0))
        BY <1>3, <4>1, <4>2, <4>3, <4>4, AdvanceProps
      <4>6. history'[j] = Append(s, e)
        BY <4>1
      <4> HIDE DEF f, h, w, s, g, l, x, V
      <4>7. Read(g, l, x) = Last(Append(s, e), Cap)
        BY ONLY <4>5, PushKeepsSuffix
      <4> QED  BY <3>3, <4>6, <4>7 DEF g, l, x
    <3> QED  BY <3>2, <3>3
  <2> QED  BY <2>1, <2>2 DEF ReplayIsSuffix
<1>7. Numbered'
  <2> SUFFICES ASSUME NEW k \in Jobs, NEW n \in DOMAIN history'[k]
               PROVE  history'[k][n] = n
    BY DEF Numbered
  <2>1. CASE k # j
    BY <1>0, <1>2, <2>1 DEF TypeOK, BufferInv, Numbered
  <2>2. CASE k = j
    <3>1. history'[j] = Append(history[j], e)
      BY <1>0, <1>2 DEF TypeOK
    <3>2. n \in 1..Len(history[j]) \/ n = Len(history[j]) + 1
      BY <1>1, <1>4, <2>2, <3>1, LenProperties
    <3>3. \A i \in 1..Len(history[j]) : history[j][i] = i
      BY <1>1, LenProperties DEF BufferInv, Numbered
    <3> QED  BY <1>4, <2>2, <3>1, <3>2, <3>3 DEF e
  <2> QED  BY <2>1, <2>2
<1>8. WatchInv'
  BY <1>2 DEF BufferInv, WatchInv
<1> QED  BY <1>5, <1>6, <1>7, <1>8 DEF BufferInv

\* A step that leaves the rings alone keeps what is said of them.
LEMMA RingsAlone ==
  ASSUME BufferInv, UNCHANGED bufferVars
  PROVE  ReplayIsSuffix' /\ Numbered'
<1>1. \A j \in Jobs : Replay(j)' = Replay(j)
  BY DEF bufferVars, Replay, Segment
<1> QED  BY <1>1 DEF BufferInv, ReplayIsSuffix, Numbered, bufferVars

\* What the panel receives has the type of the events sent.
LEMMA ArriveType ==
  ASSUME TypeOK, NEW j \in Jobs, NEW e \in 1..MaxEvents, NEW r \in BOOLEAN,
         Arrive(j, e, r)
  PROVE  /\ received' \in [Jobs -> Seq([n : 1..MaxEvents, replayed : BOOLEAN])]
         /\ j \in watching => \E i \in DOMAIN received'[j] : received'[j][i].n = e
         /\ \A k \in Jobs : \A n : (\E i \in DOMAIN received[k] : received[k][i].n = n)
                               => \E i \in DOMAIN received'[k] : received'[k][i].n = n
<1> DEFINE T == [n : 1..MaxEvents, replayed : BOOLEAN]
           m == [n |-> e, replayed |-> r]
<1>1. received[j] \in Seq(T) /\ m \in T /\ m.n = e
  BY DEF TypeOK
<1> HIDE DEF m, T
<1>2. /\ Append(received[j], m) \in Seq(T)
      /\ Len(Append(received[j], m)) = Len(received[j]) + 1
      /\ \A i \in 1..Len(received[j]) : Append(received[j], m)[i] = received[j][i]
      /\ Append(received[j], m)[Len(received[j]) + 1] = m
  BY <1>1, AppendProperties
<1>3. /\ Len(received[j]) \in Nat /\ DOMAIN received[j] = 1..Len(received[j])
      /\ DOMAIN Append(received[j], m) = 1..Len(received[j]) + 1
  BY <1>1, <1>2, LenProperties
<1>4. CASE j \in watching
  <2>1. received' = [received EXCEPT ![j] = Append(received[j], m)]
    BY <1>4 DEF Arrive, m
  <2>2. received' \in [Jobs -> Seq(T)]
    BY <1>2, <2>1 DEF TypeOK, T
  <2>3. received'[j] = Append(received[j], m) /\ \A k \in Jobs \ {j} : received'[k] = received[k]
    BY <2>1 DEF TypeOK
  <2>4. \E i \in DOMAIN received'[j] : received'[j][i].n = e
    BY <1>1, <1>2, <1>3, <2>3
  <2>5. ASSUME NEW k \in Jobs, NEW n, NEW i \in DOMAIN received[k], received[k][i].n = n
        PROVE  \E l \in DOMAIN received'[k] : received'[k][l].n = n
    <3>1. CASE k = j
      <4>1. i \in DOMAIN received'[j] /\ received'[j][i] = received[j][i]
        BY <1>2, <1>3, <2>3, <2>5, <3>1
      <4> QED  BY <2>5, <3>1, <4>1
    <3>2. CASE k # j
      BY <2>3, <2>5, <3>2
    <3> QED  BY <3>1, <3>2
  <2> QED  BY <2>2, <2>4, <2>5 DEF T
<1>5. CASE j \notin watching
  BY <1>5 DEF Arrive, TypeOK
<1> QED  BY <1>4, <1>5

LEMMA NextBuffer == BufferInv /\ [Next]_vars => BufferInv'
<1> SUFFICES ASSUME BufferInv, [Next]_vars PROVE BufferInv'
  OBVIOUS
<1> USE JobsAssumption DEF JobsAssumption
<1>0. TypeOK /\ WatchInv
  BY DEF BufferInv
<1>1. ASSUME NEW j \in Jobs, New(j) PROVE BufferInv'
  <2>1. UNCHANGED <<bufferVars, done, pushing, reader, panelVars, since>>
    BY <1>1 DEF New
  <2>2. /\ Append(started, j) \in Seq(Jobs) /\ Append(order, j) \in Seq(Jobs)
        /\ Append(order, j) # <<>>
    <3>1. started \in Seq(Jobs) /\ order \in Seq(Jobs)
      BY <1>0 DEF TypeOK
    <3> QED  BY <3>1, AppendProperties
  <2>3. Newest(Append(order, j)) \in Seq(Jobs)
    BY <2>2, HeadTailProperties DEF Newest
  <2>4. jobs' \subseteq Jobs
    BY <1>0, <1>1 DEF New, TypeOK
  <2>5. TypeOK'
    BY <1>0, <1>1, <2>1, <2>2, <2>3, <2>4 DEF New, TypeOK, bufferVars, panelVars
  <2>6. WatchInv'
    BY <1>0, <2>1 DEF WatchInv, panelVars
  <2> QED  BY <2>1, <2>5, <2>6, RingsAlone DEF BufferInv
<1>2. ASSUME NEW j \in Jobs, Record(j) PROVE BufferInv'
  BY <1>2, RecordKeepsBuffer
<1>3. ASSUME NEW j \in Jobs, Stream(j) PROVE BufferInv'
  <2>1. UNCHANGED <<registryVars, bufferVars, done, reader, watching, since>>
    BY <1>3 DEF Stream
  <2>2. pushing[j] \in 1..MaxEvents
    BY <1>0, <1>3 DEF Stream, TypeOK
  <2>3. /\ received' \in [Jobs -> Seq([n : 1..MaxEvents, replayed : BOOLEAN])]
        /\ lossy' \in BOOLEAN
    BY <1>0, <1>3, <2>2, ArriveType DEF Stream, TypeOK
  <2>4. pushing' \in [Jobs -> 0..MaxEvents]
    BY <1>0, <1>3 DEF Stream, TypeOK
  <2>5. TypeOK'
    BY <1>0, <2>1, <2>3, <2>4 DEF TypeOK, registryVars, bufferVars
  <2>6. WatchInv'
    BY <1>0, <2>1 DEF WatchInv
  <2> QED  BY <2>1, <2>5, <2>6, RingsAlone DEF BufferInv
<1>4. ASSUME NEW j \in Jobs, Subscribe(j) PROVE BufferInv'
  <2>1. UNCHANGED <<registryVars, bufferVars, done, pushing, received, lossy>>
    BY <1>4 DEF Subscribe
  <2>2. watching' = watching \cup {j} /\ reader = Idle
    BY <1>4 DEF Subscribe
  <2>3. CASE j \in jobs
    <3>1. /\ reader' = [job |-> j, rest |-> Replay(j)]
          /\ since' = [since EXCEPT ![j] = Len(history[j]) - Len(Replay(j)) + 1]
      BY <1>4, <2>3 DEF Subscribe
    <3>2. Replay(j) \in Seq(1..MaxEvents)
          /\ Len(history[j]) - Len(Replay(j)) + 1 \in 0..MaxEvents + 1
      BY ReplayProps
    <3>3. since' \in [Jobs -> 0..MaxEvents + 1]
      BY <1>0, <3>1, <3>2 DEF TypeOK
    <3>4. reader' \in [job : Jobs \cup {"none"}, rest : Seq(1..MaxEvents)]
      BY <3>1, <3>2
    <3>5. TypeOK'
      BY <1>0, <2>1, <2>2, <3>3, <3>4 DEF TypeOK, registryVars, bufferVars
    <3>6. WatchInv'
      BY <1>0, <2>2, <3>1 DEF WatchInv, TypeOK
    <3> QED  BY <2>1, <3>5, <3>6, RingsAlone DEF BufferInv
  <2>4. CASE j \notin jobs
    <3>1. UNCHANGED <<reader, since>>
      BY <1>4, <2>4 DEF Subscribe
    <3>2. TypeOK'
      BY <1>0, <2>1, <2>2, <3>1 DEF TypeOK, registryVars, bufferVars
    <3>3. WatchInv'
      BY <1>0, <2>2, <3>1 DEF WatchInv
    <3> QED  BY <2>1, <3>2, <3>3, RingsAlone DEF BufferInv
  <2> QED  BY <2>3, <2>4
<1>5. CASE ReplayOne
  <2>1. UNCHANGED <<registryVars, bufferVars, done, pushing, watching, since>>
    BY <1>5 DEF ReplayOne
  <2>2. reader # Idle
    BY <1>5 DEF ReplayOne, Idle
  <2>3. reader.job \in Jobs /\ reader.job \in watching
    BY <1>0, <2>2 DEF WatchInv, TypeOK
  <2>4. /\ Head(reader.rest) \in 1..MaxEvents
        /\ Tail(reader.rest) \in Seq(1..MaxEvents)
    BY <1>0, <1>5, HeadTailProperties DEF ReplayOne, TypeOK
  <2>5. /\ received' \in [Jobs -> Seq([n : 1..MaxEvents, replayed : BOOLEAN])]
        /\ lossy' \in BOOLEAN
    BY <1>0, <1>5, <2>3, <2>4, ArriveType DEF ReplayOne, TypeOK
  <2>6. /\ reader' \in [job : Jobs \cup {"none"}, rest : Seq(1..MaxEvents)]
        /\ reader' # Idle => reader'.job = reader.job
    <3>1. CASE reader' = [reader EXCEPT !.rest = Tail(reader.rest)]
      BY <1>0, <2>4, <3>1 DEF TypeOK
    <3>2. CASE reader' = Idle
      BY <3>2, EmptySeq DEF Idle
    <3> QED  BY <1>5, <3>1, <3>2 DEF ReplayOne
  <2>7. TypeOK'
    BY <1>0, <2>1, <2>5, <2>6 DEF TypeOK, registryVars, bufferVars
  <2>8. WatchInv'
    BY <1>0, <2>1, <2>3, <2>6 DEF WatchInv
  <2> QED  BY <2>1, <2>7, <2>8, RingsAlone DEF BufferInv
<1>6. CASE ReplayEnds
  <2>1. UNCHANGED <<registryVars, bufferVars, done, pushing, panelVars, since>> /\ reader' = Idle
    BY <1>6 DEF ReplayEnds
  <2>2. Idle \in [job : Jobs \cup {"none"}, rest : Seq(1..MaxEvents)]
    BY EmptySeq DEF Idle
  <2>3. TypeOK'
    BY <1>0, <2>1, <2>2 DEF TypeOK, registryVars, bufferVars, panelVars
  <2>4. WatchInv'
    BY <1>0, <2>1 DEF WatchInv, panelVars
  <2> QED  BY <2>1, <2>3, <2>4, RingsAlone DEF BufferInv
<1>7. CASE UNCHANGED vars
  <2>1. TypeOK' /\ WatchInv'
    BY <1>0, <1>7 DEF vars, TypeOK, WatchInv, registryVars, bufferVars, panelVars
  <2> QED  BY <1>7, <2>1, RingsAlone DEF BufferInv, vars
<1> QED
  BY <1>1, <1>2, <1>3, <1>4, <1>5, <1>6, <1>7 DEF Next, Quiet

\* A replay is always the end of what its job has pushed, whatever the
\* capacity and however often the ring has wrapped.
THEOREM BufferSafe == Spec => []BufferInv
  BY InitBuffer, NextBuffer, PTL DEF Spec
-----------------------------------------------------------------------------
(* The registry.                                                           *)

\* A job is registered once.
StartedOnce ==
  \A i, k \in DOMAIN started : started[i] = started[k] => i = k

RegistryInv == StartedOnce /\ RegistryKeepsNewest

LEMMA NewKeepsRegistry ==
  ASSUME TypeOK, RegistryInv, NEW j \in Jobs, New(j)
  PROVE  RegistryInv'
<1> USE JobsAssumption DEF JobsAssumption
<1> DEFINE s == started
           t == Append(started, j)
           a == Append(order, j)
           m == Len(started)
           n == Len(order)
<1>1. /\ s \in Seq(Jobs) /\ m \in Nat /\ order \in Seq(Jobs) /\ n \in Nat
      /\ DOMAIN s = 1..m /\ DOMAIN order = 1..n
  BY LenProperties DEF TypeOK
<1>2. /\ t \in Seq(Jobs) /\ Len(t) = m + 1 /\ t[m + 1] = j
      /\ \A i \in 1..m : t[i] = s[i]
  BY <1>1, AppendProperties
<1>3. /\ a \in Seq(Jobs) /\ Len(a) = n + 1 /\ a[n + 1] = j /\ a # <<>>
      /\ \A i \in 1..n : a[i] = order[i]
  BY <1>1, AppendProperties
<1>4. DOMAIN t = 1..m + 1 /\ DOMAIN a = 1..n + 1
  BY <1>2, <1>3, LenProperties
<1>5. /\ started' = t /\ order' = Newest(a)
      /\ jobs' = (IF n < MaxJobs THEN jobs \cup {j} ELSE (jobs \cup {j}) \ {Head(a)})
      /\ \A i \in 1..m : s[i] # j
  BY <1>1 DEF New, Started
<1> HIDE DEF t, a, m, n, s
<1>6. /\ order = Last(s, MaxJobs)
      /\ jobs = {order[i] : i \in 1..n}
  BY <1>1 DEF RegistryInv, RegistryKeepsNewest, s
<1>7. /\ n = (IF m > MaxJobs THEN MaxJobs ELSE m)
      /\ \A i \in 1..n : order[i] = s[m - n + i]
  <2>1. MaxJobs \in Nat
    OBVIOUS
  <2>2. /\ Len(Last(s, MaxJobs)) = (IF Len(s) > MaxJobs THEN MaxJobs ELSE Len(s))
        /\ \A i \in 1..Len(Last(s, MaxJobs)) :
             Last(s, MaxJobs)[i] = s[Len(s) - Len(Last(s, MaxJobs)) + i]
    BY <1>1, <2>1, LastProps
  <2> QED  BY <1>6, <2>2 DEF m, n, s
<1>8. ASSUME NEW i \in 1..m, NEW k \in 1..m, s[i] = s[k]
      PROVE  i = k
  BY <1>1, <1>8 DEF RegistryInv, StartedOnce, s
<1>9. StartedOnce'
  <2> SUFFICES ASSUME NEW i \in 1..m + 1, NEW k \in 1..m + 1, t[i] = t[k]
               PROVE  i = k
    BY <1>4, <1>5 DEF StartedOnce
  <2>1. CASE i \in 1..m /\ k \in 1..m
    BY <1>2, <1>8, <2>1
  <2>2. CASE i = m + 1 \/ k = m + 1
    BY <1>1, <1>2, <1>5, <2>2
  <2> QED  BY <1>1, <2>1, <2>2
<1>10. Newest(a) = Last(t, MaxJobs)
  <2>1. MaxJobs \in Nat
    OBVIOUS
  <2>2. /\ Last(t, MaxJobs) \in Seq(Jobs)
        /\ Len(Last(t, MaxJobs)) = (IF Len(t) > MaxJobs THEN MaxJobs ELSE Len(t))
        /\ \A i \in 1..Len(Last(t, MaxJobs)) :
             Last(t, MaxJobs)[i] = t[Len(t) - Len(Last(t, MaxJobs)) + i]
    BY <1>2, <2>1, LastProps
  <2>3. CASE n < MaxJobs
    <3>1. Newest(a) = a /\ n = m
      BY <1>1, <1>3, <1>7, <2>3 DEF Newest
    <3>2. Len(Last(t, MaxJobs)) = m + 1
      BY <1>1, <1>2, <2>2, <2>3, <3>1
    <3>3. ASSUME NEW i \in 1..m + 1 PROVE Last(t, MaxJobs)[i] = a[i]
      <4>1. Len(t) - Len(Last(t, MaxJobs)) + i = i
        BY <1>1, <1>2, <3>2
      <4>2. Last(t, MaxJobs)[i] = t[i]
        BY <2>2, <3>2, <4>1
      <4>3. CASE i = m + 1
        BY <1>2, <1>3, <3>1, <4>2, <4>3
      <4>4. CASE i \in 1..m
        <5>1. order[i] = s[m - n + i] /\ m - n + i = i
          BY <1>1, <1>7, <3>1, <4>4
        <5> QED  BY <1>2, <1>3, <3>1, <4>2, <4>4, <5>1
      <4> QED  BY <1>1, <4>3, <4>4
    <3> QED  BY <1>3, <2>2, <3>1, <3>2, <3>3, SeqEqual
  <2>4. CASE n = MaxJobs
    <3>1. /\ Newest(a) = Tail(a)
      BY <1>1, <1>3, <2>4 DEF Newest
    <3>2. /\ Tail(a) \in Seq(Jobs) /\ Len(Tail(a)) = Len(a) - 1
          /\ \A i \in 1..Len(Tail(a)) : Tail(a)[i] = a[i + 1]
      BY <1>3, HeadTailProperties
    <3>3. Len(Last(t, MaxJobs)) = n /\ Len(Tail(a)) = n
      BY <1>1, <1>2, <1>3, <1>7, <2>2, <2>4, <3>2
    <3>4. ASSUME NEW i \in 1..n PROVE Last(t, MaxJobs)[i] = Tail(a)[i]
      <4>1. Last(t, MaxJobs)[i] = t[Len(t) - Len(Last(t, MaxJobs)) + i]
        BY <2>2, <3>3
      <4>2. Len(t) - Len(Last(t, MaxJobs)) + i = m + 1 - n + i
        BY <1>1, <1>2, <3>3
      <4>3. Tail(a)[i] = a[i + 1]
        BY <3>2, <3>3
      <4>4. CASE i = n
        <5>1. m + 1 - n + i = m + 1 /\ i + 1 = n + 1
          BY <1>1, <4>4
        <5> QED  BY <1>2, <1>3, <4>1, <4>2, <4>3, <5>1
      <4>5. CASE i \in 1..n - 1
        <5>1. i + 1 \in 1..n /\ m + 1 - n + i \in 1..m /\ m - n + (i + 1) = m + 1 - n + i
          BY <1>1, <1>7, <4>5
        <5>2. a[i + 1] = s[m - n + (i + 1)]
          BY <1>3, <1>7, <5>1
        <5>3. t[m + 1 - n + i] = s[m + 1 - n + i]
          BY <1>2, <5>1
        <5> QED  BY <4>1, <4>2, <4>3, <5>1, <5>2, <5>3
      <4>6. i = n \/ i \in 1..n - 1
        BY <1>1
      <4> QED  BY <4>4, <4>5, <4>6
    <3> QED  BY <2>2, <3>1, <3>2, <3>3, <3>4, SeqEqual
  <2> QED  BY <1>1, <1>7, <2>3, <2>4
<1>11. jobs' = {order'[i] : i \in DOMAIN order'}
  <2>1. CASE n < MaxJobs
    <3>1. order' = a /\ jobs' = jobs \cup {j}
      BY <1>1, <1>3, <1>5, <2>1 DEF Newest
    <3>2. \A x : x \in jobs <=> \E i \in 1..n : a[i] = x
      BY <1>3, <1>6
    <3> QED  BY <1>1, <1>3, <1>4, <3>1, <3>2
  <2>2. CASE n = MaxJobs
    <3>1. order' = Tail(a) /\ jobs' = (jobs \cup {j}) \ {Head(a)} /\ n >= 1
      BY <1>1, <1>3, <1>5, <2>2 DEF Newest
    <3>2. /\ Tail(a) \in Seq(Jobs) /\ Len(Tail(a)) = Len(a) - 1
          /\ \A i \in 1..Len(Tail(a)) : Tail(a)[i] = a[i + 1]
          /\ Head(a) = a[1]
      BY <1>3, HeadTailProperties
    <3>3. DOMAIN Tail(a) = 1..n
      BY <1>1, <1>3, <3>2, LenProperties
    <3>4. ASSUME NEW i \in 1..n + 1, NEW k \in 1..n + 1, a[i] = a[k]
          PROVE  i = k
      <4>1. \A l \in 1..n : a[l] = s[m - n + l] /\ m - n + l \in 1..m
        BY <1>1, <1>3, <1>7
      <4>2. CASE i \in 1..n /\ k \in 1..n
        <5>1. m - n + i = m - n + k
          BY <1>8, <3>4, <4>1, <4>2
        <5> QED  BY <1>1, <5>1
      <4>3. CASE i = n + 1 /\ k # n + 1
        BY <1>1, <1>3, <1>5, <3>4, <4>1, <4>3
      <4>4. CASE k = n + 1 /\ i # n + 1
        BY <1>1, <1>3, <1>5, <3>4, <4>1, <4>4
      <4> QED  BY <1>1, <4>2, <4>3, <4>4
    <3>5. \A x : x \in jobs \cup {j} <=> \E i \in 1..n + 1 : a[i] = x
      BY <1>1, <1>3, <1>6
    <3>6. \A x : x \in jobs' <=> \E i \in 1..n : a[i + 1] = x
      <4>1. ASSUME NEW x, x \in jobs'
            PROVE  \E i \in 1..n : a[i + 1] = x
        <5>1. PICK i \in 1..n + 1 : a[i] = x
          BY <3>1, <3>5, <4>1
        <5>2. i # 1
          BY <3>1, <3>2, <4>1, <5>1
        <5>3. i - 1 \in 1..n /\ (i - 1) + 1 = i
          BY <1>1, <5>2
        <5> QED  BY <5>1, <5>3
      <4>2. ASSUME NEW x, NEW i \in 1..n, a[i + 1] = x
            PROVE  x \in jobs'
        <5>1. i + 1 \in 1..n + 1 /\ 1 \in 1..n + 1 /\ i + 1 # 1
          BY <1>1
        <5>2. x # a[1]
          BY <3>4, <4>2, <5>1
        <5> QED  BY <3>1, <3>2, <3>5, <4>2, <5>1, <5>2
      <4> QED  BY <4>1, <4>2
    <3>7. \A i \in 1..n : Tail(a)[i] = a[i + 1]
      BY <1>1, <1>3, <3>2
    <3>8. {order'[i] : i \in DOMAIN order'} = {a[i + 1] : i \in 1..n}
      BY <3>1, <3>3, <3>7
    <3> QED  BY <3>6, <3>8
  <2> QED  BY <1>1, <1>7, <2>1, <2>2
<1> QED  BY <1>5, <1>9, <1>10, <1>11 DEF RegistryInv, RegistryKeepsNewest

\* The registry holds the newest jobs, and its map and its FIFO agree, for any
\* number of jobs and any capacity.
THEOREM RegistrySafe == Spec => []RegistryKeepsNewest
<1> USE JobsAssumption DEF JobsAssumption
<1>1. Init => RegistryInv
  <2> SUFFICES ASSUME Init PROVE RegistryInv
    OBVIOUS
  <2>1. order = <<>> /\ started = <<>> /\ jobs = {} /\ MaxJobs \in Nat
    BY DEF Init
  <2>2. started \in Seq(Jobs) /\ Len(started) = 0 /\ DOMAIN started = {}
    BY <2>1, EmptySeq
  <2>3. /\ Last(started, MaxJobs) \in Seq(Jobs)
        /\ Len(Last(started, MaxJobs)) = (IF Len(started) > MaxJobs THEN MaxJobs ELSE Len(started))
    BY ONLY MaxJobs \in Nat, <2>1, <2>2, LastProps
  <2>4. Last(started, MaxJobs) = <<>>
    BY <2>2, <2>3, EmptySeq
  <2> QED  BY <2>1, <2>2, <2>4 DEF RegistryInv, StartedOnce, RegistryKeepsNewest
<1>2. TypeOK /\ RegistryInv /\ [Next]_vars => RegistryInv'
  <2> SUFFICES ASSUME TypeOK, RegistryInv, [Next]_vars PROVE RegistryInv'
    OBVIOUS
  <2>1. ASSUME NEW j \in Jobs, New(j) PROVE RegistryInv'
    BY <2>1, NewKeepsRegistry
  <2>2. CASE UNCHANGED registryVars
    BY <2>2 DEF registryVars, RegistryInv, StartedOnce, RegistryKeepsNewest, Last
  <2> QED
    BY <2>1, <2>2 DEF Next, Record, Stream, Subscribe, ReplayOne, ReplayEnds, Quiet, vars
<1>3. BufferInv => TypeOK
  BY DEF BufferInv
<1>4. RegistryInv => RegistryKeepsNewest
  BY DEF RegistryInv
<1> QED  BY <1>1, <1>2, <1>3, <1>4, BufferSafe, PTL DEF Spec

-----------------------------------------------------------------------------
(* Replay and live stream.                                                 *)

\* The panel has event n of job j, or will have it.
Covered(j, n) ==
  \/ \E i \in DOMAIN received[j] : received[j][i].n = n
  \/ reader.job = j /\ \E i \in DOMAIN reader.rest : reader.rest[i] = n
  \/ pushing[j] = n

LEMMA GapStep == BufferInv /\ NoGap /\ [Next]_vars => NoGap'
<1> SUFFICES ASSUME BufferInv, NoGap, [Next]_vars, ~lossy',
                    NEW j \in watching', NEW n \in DOMAIN history'[j],
                    since'[j] \in 1..n
             PROVE  Covered(j, n)'
  BY DEF NoGap, Covered
<1> USE JobsAssumption DEF JobsAssumption
<1>0. TypeOK /\ WatchInv
  BY DEF BufferInv
<1>1. ~lossy
  BY DEF Next, New, Record, Stream, Subscribe, ReplayOne, ReplayEnds, Quiet,
         vars, panelVars
<1>2. \A k \in watching : \A l \in DOMAIN history[k] :
        since[k] \in 1..l => Covered(k, l)
  BY <1>1 DEF NoGap, Covered
<1>3. ASSUME NEW k \in Jobs, New(k) PROVE Covered(j, n)'
  BY <1>2, <1>3 DEF New, bufferVars, panelVars, Covered
<1>4. ASSUME NEW k \in Jobs, Record(k) PROVE Covered(j, n)'
  <2>1. /\ UNCHANGED <<watching, since, received, reader>> /\ pushing[k] = 0
        /\ history' = [history EXCEPT ![k] = Append(history[k], Len(history[k]) + 1)]
        /\ pushing' = [pushing EXCEPT ![k] = Len(history[k]) + 1]
    BY <1>4 DEF Record, panelVars
  <2>2. j \in watching /\ j \in Jobs /\ since[j] \in 1..n
    BY <1>0, <2>1 DEF TypeOK
  <2>3. CASE j # k
    <3>1. history'[j] = history[j] /\ pushing'[j] = pushing[j]
      BY <1>0, <2>1, <2>2, <2>3 DEF TypeOK
    <3>2. Covered(j, n)
      BY <1>2, <2>2, <3>1
    <3>3. received' = received /\ reader' = reader
      BY <2>1
    <3> QED  BY <3>1, <3>2, <3>3 DEF Covered
  <2>4. CASE j = k
    <3>1. /\ history'[j] = Append(history[j], Len(history[j]) + 1)
          /\ pushing'[j] = Len(history[j]) + 1
          /\ Len(history[j]) \in Nat /\ history[j] \in Seq(Nat)
      <4>1. history[j] \in Seq(1..MaxEvents)
        BY <1>0, <2>2 DEF TypeOK
      <4>2. history[j] \in Seq(Nat)
        BY <4>1, SeqMonotonic
      <4> QED  BY <1>0, <2>1, <2>2, <2>4, <4>1, <4>2, LenProperties DEF TypeOK
    <3>2. DOMAIN history'[j] = 1..Len(history[j]) + 1 /\ DOMAIN history[j] = 1..Len(history[j])
      BY <3>1, AppendProperties, LenProperties
    <3>3. CASE n = Len(history[j]) + 1
      BY <3>1, <3>3 DEF Covered
    <3>4. CASE n \in DOMAIN history[j]
      <4>1. Covered(j, n) /\ pushing[j] # n
        BY <1>2, <2>1, <2>2, <2>4, <3>2, <3>4
      <4> QED  BY <2>1, <4>1 DEF Covered
    <3> QED  BY <3>1, <3>2, <3>3, <3>4
  <2> QED  BY <2>3, <2>4
<1>5. ASSUME NEW k \in Jobs, Stream(k) PROVE Covered(j, n)'
  <2>1. /\ UNCHANGED <<registryVars, bufferVars, reader, watching, since>>
        /\ Arrive(k, pushing[k], FALSE)
        /\ pushing' = [pushing EXCEPT ![k] = 0]
    BY <1>5 DEF Stream
  <2>2. pushing[k] \in 1..MaxEvents
    BY <1>0, <1>5 DEF Stream, TypeOK
  <2>3. /\ k \in watching => \E i \in DOMAIN received'[k] : received'[k][i].n = pushing[k]
        /\ \A l \in Jobs : \A x : (\E i \in DOMAIN received[l] : received[l][i].n = x)
                               => \E i \in DOMAIN received'[l] : received'[l][i].n = x
    BY <1>0, <2>1, <2>2, ArriveType
  <2>4. j \in watching /\ j \in Jobs /\ Covered(j, n)
    BY <1>0, <1>2, <2>1 DEF TypeOK, bufferVars
  <2>5. CASE j = k /\ pushing[j] = n
    BY <2>3, <2>4, <2>5 DEF Covered
  <2>6. CASE j # k \/ pushing[j] # n
    <3>1. pushing[j] = n => pushing'[j] = n
      BY <1>0, <2>1, <2>4, <2>6 DEF TypeOK
    <3> QED  BY <2>1, <2>3, <2>4, <3>1 DEF Covered
  <2> QED  BY <2>5, <2>6
<1>6. ASSUME NEW k \in Jobs, Subscribe(k) PROVE Covered(j, n)'
  <2>1. /\ UNCHANGED <<bufferVars, pushing, received>>
        /\ reader = Idle /\ k \notin watching /\ watching' = watching \cup {k}
    BY <1>6 DEF Subscribe
  <2>2. j \in Jobs /\ history' = history
    BY <1>0, <2>1 DEF TypeOK, bufferVars
  <2>3. CASE j # k
    <3>1. j \in watching /\ reader.job # j /\ since'[j] = since[j]
      <4>1. j \in watching
        BY <2>1, <2>3
      <4>2. reader.job # j
        BY <2>1, <2>2, JobsAssumption DEF Idle
      <4>3. since \in [Jobs -> 0..MaxEvents + 1]
        BY <1>0 DEF TypeOK
      <4>4. \/ since' = since
            \/ since' = [since EXCEPT ![k] = Len(history[k]) - Len(Replay(k)) + 1]
        BY <1>6 DEF Subscribe
      <4>5. since'[j] = since[j]
        BY <2>2, <2>3, <4>3, <4>4
      <4> QED  BY <4>1, <4>2, <4>5
    <3> QED  BY <1>2, <2>1, <2>2, <3>1 DEF Covered
  <2>4. CASE j = k
    <3>1. k \in jobs
      BY <1>0, <1>6, <2>1, <2>2, <2>4 DEF Subscribe, WatchInv
    <3>2. /\ reader' = [job |-> j, rest |-> Replay(j)]
          /\ since'[j] = Len(history[j]) - Len(Replay(j)) + 1
      BY <1>0, <1>6, <2>2, <2>4, <3>1 DEF Subscribe, TypeOK
    <3>3. /\ Replay(j) \in Seq(1..MaxEvents)
          /\ Len(Replay(j)) \in 0..Len(history[j])
          /\ Len(history[j]) \in 0..MaxEvents
          /\ \A i \in 1..Len(Replay(j)) :
               Replay(j)[i] = Len(history[j]) - Len(Replay(j)) + i
      BY <2>2, ReplayProps
    <3>4. DOMAIN history[j] = 1..Len(history[j]) /\ DOMAIN Replay(j) = 1..Len(Replay(j))
      BY <1>0, <2>2, <3>3, LenProperties DEF TypeOK
    <3> DEFINE i == n - (Len(history[j]) - Len(Replay(j)))
    <3>5. n \in 1..Len(history[j]) /\ n >= since'[j]
      <4>1. n \in 1..Len(history[j])
        BY <2>2, <3>4
      <4>2. n >= since'[j]
        OBVIOUS
      <4> QED  BY <4>1, <4>2
    <3>6. i \in 1..Len(Replay(j)) /\ Len(history[j]) - Len(Replay(j)) + i = n
      <4>1. Len(Replay(j)) \in Nat /\ Len(history[j]) \in Nat
        BY <3>3
      <4>2. since'[j] = Len(history[j]) - Len(Replay(j)) + 1
        BY <3>2
      <4> QED  BY <3>5, <4>1, <4>2
    <3>7. Replay(j)[i] = n
      BY <3>3, <3>6
    <3> QED  BY <3>2, <3>4, <3>6, <3>7 DEF Covered
  <2> QED  BY <2>3, <2>4
<1>7. CASE ReplayOne
  <2>1. /\ UNCHANGED <<registryVars, bufferVars, pushing, watching, since>>
        /\ Arrive(reader.job, Head(reader.rest), TRUE)
        /\ reader' = [reader EXCEPT !.rest = Tail(reader.rest)]
        /\ reader.rest # <<>>
    BY <1>7 DEF ReplayOne
  <2>2. reader.job \in Jobs /\ reader.job \in watching
    BY <1>0, <2>1 DEF WatchInv, TypeOK, Idle
  <2>3. /\ Head(reader.rest) \in 1..MaxEvents /\ Head(reader.rest) = reader.rest[1]
        /\ Tail(reader.rest) \in Seq(1..MaxEvents)
        /\ Len(Tail(reader.rest)) = Len(reader.rest) - 1
        /\ \A i \in 1..Len(Tail(reader.rest)) : Tail(reader.rest)[i] = reader.rest[i + 1]
        /\ Len(reader.rest) \in Nat
        /\ DOMAIN reader.rest = 1..Len(reader.rest)
        /\ DOMAIN Tail(reader.rest) = 1..Len(Tail(reader.rest))
    <3>1. reader.rest \in Seq(1..MaxEvents)
      BY <1>0 DEF TypeOK
    <3>2. /\ Head(reader.rest) \in 1..MaxEvents
          /\ Tail(reader.rest) \in Seq(1..MaxEvents)
          /\ Len(Tail(reader.rest)) = Len(reader.rest) - 1
          /\ \A i \in 1..Len(Tail(reader.rest)) : Tail(reader.rest)[i] = reader.rest[i + 1]
      BY ONLY <2>1, <3>1, HeadTailProperties
    <3>3. Head(reader.rest) = reader.rest[1]
      BY <2>1, <3>1
    <3> QED  BY <3>1, <3>2, <3>3, LenProperties
  <2>4. /\ \E i \in DOMAIN received'[reader.job] :
            received'[reader.job][i].n = Head(reader.rest)
        /\ \A l \in Jobs : \A x : (\E i \in DOMAIN received[l] : received[l][i].n = x)
                               => \E i \in DOMAIN received'[l] : received'[l][i].n = x
    BY <1>0, <2>1, <2>2, <2>3, ArriveType
  <2>5. j \in watching /\ j \in Jobs /\ Covered(j, n)
    BY <1>0, <1>2, <2>1 DEF TypeOK, bufferVars
  <2>6. reader'.job = reader.job /\ reader'.rest = Tail(reader.rest)
    BY <1>0, <2>1 DEF TypeOK
  <2>7. ASSUME reader.job = j, NEW i \in DOMAIN reader.rest, reader.rest[i] = n
        PROVE  Covered(j, n)'
    <3>1. CASE i = 1
      BY <2>3, <2>4, <2>7, <3>1 DEF Covered
    <3>2. CASE i # 1
      <4>1. i - 1 \in DOMAIN Tail(reader.rest) /\ (i - 1) + 1 = i
        BY <2>3, <3>2
      <4>2. Tail(reader.rest)[i - 1] = n
        BY <2>3, <2>7, <4>1
      <4> QED  BY <2>6, <2>7, <4>1, <4>2 DEF Covered
    <3> QED  BY <3>1, <3>2
  <2>8. CASE \E i \in DOMAIN received[j] : received[j][i].n = n
    BY <2>4, <2>5, <2>8 DEF Covered
  <2>9. CASE pushing[j] = n
    BY <2>1, <2>9 DEF Covered
  <2> QED  BY <2>5, <2>7, <2>8, <2>9 DEF Covered
<1>8. CASE ReplayEnds
  <2>1. UNCHANGED <<bufferVars, pushing, panelVars, since>> /\ DOMAIN reader.rest = {}
    BY <1>8 DEF ReplayEnds
  <2>2. Covered(j, n)
    BY <1>2, <2>1 DEF bufferVars, panelVars
  <2> QED  BY <2>1, <2>2 DEF panelVars, Covered
<1>9. CASE UNCHANGED vars
  BY <1>2, <1>9 DEF vars, bufferVars, panelVars, Covered
<1> QED
  BY <1>3, <1>4, <1>5, <1>6, <1>7, <1>8, <1>9 DEF Next, Quiet

\* Between the replay of a job and its live stream no event falls through,
\* however the pushing goroutine and handleSubscribe interleave.
THEOREM GapFree == Spec => []NoGap
<1>1. Init => NoGap
  BY DEF Init, NoGap
<1> QED  BY <1>1, GapStep, BufferSafe, PTL DEF Spec

-----------------------------------------------------------------------------
(* The order of what a panel is told.                                      *)

\* t is s and one event more.
Extended(t, s, e, r) ==
  /\ Len(s) \in Nat /\ DOMAIN s = 1..Len(s) /\ DOMAIN t = 1..Len(s) + 1
  /\ \A i \in 1..Len(s) : t[i] = s[i]
  /\ t[Len(s) + 1] = [n |-> e, replayed |-> r]

LEMMA ArriveAppends ==
  ASSUME TypeOK, NEW j \in Jobs, NEW e \in 1..MaxEvents, NEW r \in BOOLEAN,
         Arrive(j, e, r)
  PROVE  /\ \A k \in Jobs : k # j \/ j \notin watching => received'[k] = received[k]
         /\ j \in watching => Extended(received'[j], received[j], e, r)
<1> DEFINE T == [n : 1..MaxEvents, replayed : BOOLEAN]
           m == [n |-> e, replayed |-> r]
<1>1. received[j] \in Seq(T) /\ m \in T
  BY DEF TypeOK
<1>2. CASE j \notin watching
  BY <1>2 DEF Arrive
<1>3. CASE j \in watching
  <2>1. received' = [received EXCEPT ![j] = Append(received[j], m)]
    BY <1>3 DEF Arrive
  <2>2. received'[j] = Append(received[j], m)
        /\ \A k \in Jobs : k # j => received'[k] = received[k]
    BY <2>1 DEF TypeOK
  <2> HIDE DEF m, T
  <2>3. /\ Len(received[j]) \in Nat /\ DOMAIN received[j] = 1..Len(received[j])
        /\ DOMAIN Append(received[j], m) = 1..Len(received[j]) + 1
        /\ \A i \in 1..Len(received[j]) : Append(received[j], m)[i] = received[j][i]
        /\ Append(received[j], m)[Len(received[j]) + 1] = m
    BY ONLY <1>1, AppendProperties, LenProperties
  <2> QED  BY <1>3, <2>2, <2>3 DEF Extended, m
<1> QED  BY <1>2, <1>3

LEMMA ExtendedParts ==
  ASSUME NEW s, NEW t, NEW e, NEW r \in BOOLEAN, Extended(t, s, e, r),
         NEW i \in DOMAIN t
  PROVE  \/ i \in DOMAIN s /\ t[i] = s[i]
         \/ t[i].n = e /\ t[i].replayed = r
<1>1. CASE i = Len(s) + 1
  <2>1. t[i] = [n |-> e, replayed |-> r]
    BY <1>1 DEF Extended
  <2> QED  BY <2>1
<1>2. CASE i # Len(s) + 1
  <2>1. i \in 1..Len(s)
    BY <1>2 DEF Extended
  <2> QED  BY <2>1 DEF Extended
<1> QED  BY <1>1, <1>2

\* An event that comes after all of its kind arrives in its turn.
LEMMA ExtendedInTurn ==
  ASSUME NEW s, NEW t, NEW e, NEW r \in BOOLEAN, Extended(t, s, e, r), InTurn(s),
         \A i \in DOMAIN s : s[i].replayed = r => s[i].n < e
  PROVE  InTurn(t)
<1> SUFFICES ASSUME NEW i \in DOMAIN t, NEW k \in DOMAIN t, i < k,
                    t[i].replayed = t[k].replayed
             PROVE  t[i].n < t[k].n
  BY DEF InTurn
<1>1. i \in 1..Len(s) /\ t[i] = s[i] /\ i \in DOMAIN s
  BY DEF Extended
<1>2. CASE k = Len(s) + 1
  <2>1. t[k].n = e /\ t[k].replayed = r
    BY <1>2 DEF Extended
  <2> QED  BY <1>1, <2>1
<1>3. CASE k # Len(s) + 1
  <2>1. k \in DOMAIN s /\ t[k] = s[k]
    BY <1>3 DEF Extended
  <2> QED  BY <1>1, <2>1 DEF InTurn
<1> QED  BY <1>2, <1>3

LEMMA OrderInit == Init => OrderInv
<1> SUFFICES ASSUME Init PROVE OrderInv
  OBVIOUS
<1>1. reader.rest = <<>> /\ reader.job = "none"
  BY DEF Init, Idle
<1>2. ASSUME NEW j \in Jobs PROVE JobInOrder(j)
  <2>1. received[j] = <<>> /\ pushing[j] = 0
    BY DEF Init
  <2> QED  BY <2>1 DEF JobInOrder, InTurn
<1> QED  BY <1>1, <1>2 DEF OrderInv

LEMMA OrderNext == BufferInv /\ OrderInv /\ [Next]_vars => OrderInv'
<1> SUFFICES ASSUME BufferInv, OrderInv, [Next]_vars PROVE OrderInv'
  OBVIOUS
<1> USE JobsAssumption DEF JobsAssumption
<1>0. TypeOK /\ WatchInv
  BY DEF BufferInv
<1>a. /\ \A i, k \in DOMAIN reader.rest : i < k => reader.rest[i] < reader.rest[k]
      /\ \A j \in Jobs : JobInOrder(j)
  BY DEF OrderInv
<1>b. \A j \in Jobs : /\ history[j] \in Seq(Nat) /\ Len(history[j]) \in Nat
                      /\ pushing[j] \in 0..MaxEvents
                      /\ received[j] \in Seq([n : 1..MaxEvents, replayed : BOOLEAN])
  <2> TAKE j \in Jobs
  <2>1. history[j] \in Seq(1..MaxEvents)
    BY <1>0 DEF TypeOK
  <2>2. history[j] \in Seq(Nat)
    BY <2>1, SeqMonotonic
  <2> QED  BY <1>0, <2>2, LenProperties DEF TypeOK
<1>c. \A j \in Jobs : \A i \in DOMAIN received[j] :
        received[j][i].n \in 1..MaxEvents /\ received[j][i].replayed \in BOOLEAN
  <2> DEFINE T == [n : 1..MaxEvents, replayed : BOOLEAN]
  <2>1. \A m \in T : m.n \in 1..MaxEvents /\ m.replayed \in BOOLEAN
    OBVIOUS
  <2> SUFFICES ASSUME NEW j \in Jobs, NEW i \in DOMAIN received[j]
               PROVE  received[j][i] \in T
    BY <2>1
  <2>2. received[j] \in Seq(T)
    BY <1>b
  <2> HIDE DEF T
  <2> QED  BY ONLY <2>2, i \in DOMAIN received[j], ElementOfSeq, LenProperties
\* A step that changes nothing a job's order speaks of.
<1>d. ASSUME NEW j \in Jobs, received'[j] = received[j], pushing'[j] = pushing[j],
             history'[j] = history[j], j \in watching <=> j \in watching',
             reader' = reader \/ reader'.job # j
      PROVE  JobInOrder(j)'
  BY <1>a, <1>d DEF JobInOrder
<1>1. ASSUME NEW k \in Jobs, New(k) PROVE OrderInv'
  BY <1>a, <1>1, <1>d DEF New, bufferVars, panelVars, OrderInv
<1>2. ASSUME NEW k \in Jobs, Record(k) PROVE OrderInv'
  <2>1. /\ UNCHANGED <<watching, received, reader>>
        /\ history' = [history EXCEPT ![k] = Append(history[k], Len(history[k]) + 1)]
        /\ pushing' = [pushing EXCEPT ![k] = Len(history[k]) + 1]
    BY <1>2 DEF Record, panelVars
  <2>2. ASSUME NEW j \in Jobs PROVE JobInOrder(j)'
    <3>1. CASE j # k
      <4>1. history'[j] = history[j] /\ pushing'[j] = pushing[j]
        BY <1>0, <2>1, <3>1 DEF TypeOK
      <4> QED  BY <1>d, <2>1, <4>1
    <3>2. CASE j = k
      <4>1. pushing'[j] = Len(history[j]) + 1
            /\ history'[j] = Append(history[j], Len(history[j]) + 1)
        BY <1>0, <2>1, <3>2 DEF TypeOK
      <4>2. Len(history'[j]) = Len(history[j]) + 1
        BY <1>b, <4>1
      <4>3. received'[j] = received[j] /\ reader' = reader /\ watching' = watching
        BY <2>1
      <4>4. JobInOrder(j) /\ Len(history[j]) \in Nat
        BY <1>a, <1>b
      <4> QED  BY <1>c, <4>1, <4>2, <4>3, <4>4 DEF JobInOrder
    <3> QED  BY <3>1, <3>2
  <2> QED  BY <1>a, <2>1, <2>2 DEF OrderInv
<1>3. ASSUME NEW k \in Jobs, Stream(k) PROVE OrderInv'
  <2>1. /\ UNCHANGED <<history, reader, watching>> /\ pushing[k] # 0
        /\ pushing' = [pushing EXCEPT ![k] = 0]
        /\ Arrive(k, pushing[k], FALSE) \/ UNCHANGED received
    BY <1>3 DEF Stream, bufferVars
  <2>2. pushing[k] \in 1..MaxEvents /\ pushing[k] = Len(history[k])
    BY <1>a, <1>b, <2>1 DEF JobInOrder
  <2>3. /\ \A j \in Jobs : j # k => received'[j] = received[j]
        /\ \/ received'[k] = received[k]
           \/ /\ k \in watching
              /\ Extended(received'[k], received[k], pushing[k], FALSE)
    BY <1>0, <2>1, <2>2, ArriveAppends
  <2>4. ASSUME NEW j \in Jobs, j # k PROVE JobInOrder(j)'
    <3>1. pushing'[j] = pushing[j]
      BY <1>0, <2>1, <2>4 DEF TypeOK
    <3> QED  BY <1>d, <2>1, <2>3, <2>4, <3>1
  <2>5. JobInOrder(k)'
    <3>1. pushing'[k] = 0
      BY <1>0, <2>1 DEF TypeOK
    <3>2. CASE received'[k] = received[k]
      BY <1>a, <2>1, <3>1, <3>2 DEF JobInOrder
    <3>3. CASE /\ k \in watching
               /\ Extended(received'[k], received[k], pushing[k], FALSE)
      <4>1. InTurn(received[k])
            /\ \A i \in DOMAIN received[k] :
                 received[k][i].replayed = FALSE => received[k][i].n < pushing[k]
        BY <1>a, <2>1 DEF JobInOrder
      <4>2. InTurn(received'[k])
        BY <3>3, <4>1, ExtendedInTurn
      <4>3. ASSUME NEW i \in DOMAIN received'[k]
            PROVE  IF received'[k][i].replayed
                   THEN reader'.job = k =>
                          \A l \in DOMAIN reader'.rest : received'[k][i].n < reader'.rest[l]
                   ELSE received'[k][i].n <= Len(history'[k])
        <5>0. i \in DOMAIN received'[k]
          OBVIOUS
        <5>1. CASE i \in DOMAIN received[k] /\ received'[k][i] = received[k][i]
          BY <1>a, <2>1, <5>1 DEF JobInOrder
        <5>2. CASE /\ received'[k][i].n = pushing[k]
                   /\ received'[k][i].replayed = FALSE
          BY <1>b, <2>1, <2>2, <5>2
        <5>3. \/ i \in DOMAIN received[k] /\ received'[k][i] = received[k][i]
              \/ received'[k][i].n = pushing[k] /\ received'[k][i].replayed = FALSE
          BY ONLY <3>3, <5>0, ExtendedParts
        <5> QED  BY ONLY <5>1, <5>2, <5>3
      <4> QED  BY <2>1, <3>1, <3>3, <4>2, <4>3 DEF JobInOrder
    <3> QED  BY <2>3, <3>2, <3>3
  <2> QED  BY <1>a, <2>1, <2>4, <2>5 DEF OrderInv
<1>4. ASSUME NEW k \in Jobs, Subscribe(k) PROVE OrderInv'
  <2>1. /\ UNCHANGED <<history, pushing, received>>
        /\ reader = Idle /\ k \notin watching /\ watching' = watching \cup {k}
        /\ reader' = [job |-> k, rest |-> Replay(k)] \/ reader' = reader
    BY <1>4 DEF Subscribe, bufferVars
  <2>2. \A i, l \in DOMAIN reader'.rest : i < l => reader'.rest[i] < reader'.rest[l]
    <3>1. CASE reader' = [job |-> k, rest |-> Replay(k)]
      <4>1. /\ Replay(k) \in Seq(1..MaxEvents)
            /\ Len(Replay(k)) \in 0..Len(history[k])
            /\ Len(history[k]) \in 0..MaxEvents
            /\ \A i \in 1..Len(Replay(k)) :
                 Replay(k)[i] = Len(history[k]) - Len(Replay(k)) + i
        BY ReplayProps
      <4>2. DOMAIN Replay(k) = 1..Len(Replay(k)) /\ reader'.rest = Replay(k)
        BY <3>1, <4>1
      <4> QED  BY <4>1, <4>2
    <3>2. CASE reader' = reader
      BY <1>a, <3>2
    <3> QED  BY <2>1, <3>1, <3>2
  <2>3. ASSUME NEW j \in Jobs PROVE JobInOrder(j)'
    <3>1. CASE j = k
      <4>1. received[j] = <<>>
        BY <1>a, <2>1, <3>1 DEF JobInOrder
      <4>2. received'[j] = <<>> /\ pushing'[j] = pushing[j] /\ history'[j] = history[j]
        BY <2>1, <4>1
      <4> QED  BY <1>a, <4>2 DEF JobInOrder, InTurn
    <3>2. CASE j # k
      <4>1. reader' = reader \/ reader'.job # j
        BY <2>1, <3>2
      <4> QED  BY <1>d, <2>1, <3>2, <4>1
    <3> QED  BY <3>1, <3>2
  <2> QED  BY <2>2, <2>3 DEF OrderInv
<1>5. CASE ReplayOne
  <2>1. /\ UNCHANGED <<history, pushing, watching>> /\ reader.rest # <<>>
        /\ \/ /\ Arrive(reader.job, Head(reader.rest), TRUE)
              /\ reader' = [reader EXCEPT !.rest = Tail(reader.rest)]
           \/ reader' = Idle /\ received' = received
    BY <1>5 DEF ReplayOne, bufferVars
  <2>2. CASE reader' = Idle /\ received' = received
    <3>1. reader'.rest = <<>> /\ reader'.job = "none"
      BY <2>2 DEF Idle
    <3>2. \A j \in Jobs : JobInOrder(j)'
      BY <1>d, <2>1, <2>2, <3>1
    <3> QED  BY <3>1, <3>2 DEF OrderInv
  <2>3. CASE /\ Arrive(reader.job, Head(reader.rest), TRUE)
             /\ reader' = [reader EXCEPT !.rest = Tail(reader.rest)]
    <3>c. reader.job \in Jobs /\ reader.job \in watching
      BY <1>0, <2>1 DEF WatchInv, TypeOK, Idle
    <3> PICK k \in Jobs : k = reader.job
      BY <3>c
    <3> PICK r : r = reader.rest
      OBVIOUS
    <3>1. k \in Jobs /\ k \in watching
      BY <3>c
    <3>2. r \in Seq(1..MaxEvents) /\ r # <<>>
      BY <1>0, <2>1 DEF TypeOK
    <3>3. reader'.rest = Tail(r) /\ reader'.job = k
      BY <1>0, <2>3 DEF TypeOK
    <3>4. \A i, l \in DOMAIN r : i < l => r[i] < r[l]
      BY <1>a
    <3>a. \A i \in DOMAIN received[k] : received[k][i].replayed =>
            \A l \in DOMAIN r : received[k][i].n < r[l]
      BY <1>a, <3>1 DEF JobInOrder
    <3>b. Arrive(k, Head(r), TRUE)
      BY <2>3
    <3>5. /\ Len(r) \in Nat /\ DOMAIN r = 1..Len(r) /\ 1 \in DOMAIN r
          /\ Head(r) \in 1..MaxEvents /\ Head(r) = r[1]
          /\ DOMAIN Tail(r) = 1..Len(r) - 1
          /\ \A i \in 1..Len(r) - 1 : Tail(r)[i] = r[i + 1] /\ i + 1 \in 1..Len(r)
      <4>1. Len(r) \in Nat /\ DOMAIN r = 1..Len(r) /\ 1 \in DOMAIN r
        BY ONLY <3>2, LenProperties, EmptySeq
      <4>2. /\ Head(r) \in 1..MaxEvents /\ Tail(r) \in Seq(1..MaxEvents)
            /\ Len(Tail(r)) = Len(r) - 1
            /\ \A i \in 1..Len(Tail(r)) : Tail(r)[i] = r[i + 1]
        BY ONLY <3>2, HeadTailProperties
      <4>3. DOMAIN Tail(r) = 1..Len(Tail(r)) /\ Head(r) = r[1]
        BY ONLY <3>2, <4>2, LenProperties
      <4> QED  BY ONLY <4>1, <4>2, <4>3
    <3>6. ASSUME NEW i \in DOMAIN Tail(r), NEW l \in DOMAIN Tail(r), i < l
          PROVE  Tail(r)[i] < Tail(r)[l]
      <4>1. /\ i + 1 \in DOMAIN r /\ l + 1 \in DOMAIN r /\ i + 1 < l + 1
            /\ Tail(r)[i] = r[i + 1] /\ Tail(r)[l] = r[l + 1]
        BY ONLY <3>5, <3>6
      <4> QED  BY ONLY <3>4, <4>1
    <3>7. \A l \in DOMAIN Tail(r) : Head(r) < Tail(r)[l] /\ l + 1 \in DOMAIN r
                                    /\ Tail(r)[l] = r[l + 1]
      BY <3>4, <3>5
    <3>8. /\ \A j \in Jobs : j # k => received'[j] = received[j]
          /\ Extended(received'[k], received[k], Head(r), TRUE)
      BY <1>0, <3>b, <3>1, <3>5, ArriveAppends
    <3>9. ASSUME NEW j \in Jobs, j # k PROVE JobInOrder(j)'
      BY <1>d, <2>1, <3>3, <3>8, <3>9
    <3>10. JobInOrder(k)'
      <4>0. Extended(received'[k], received[k], Head(r), TRUE)
        BY <3>8
      <4>1. InTurn(received'[k])
        <5>1. InTurn(received[k])
          BY <1>a, <3>1 DEF JobInOrder
        <5>2. \A i \in DOMAIN received[k] :
                received[k][i].replayed = TRUE => received[k][i].n < Head(r)
          BY <3>a, <3>5
        <5> QED  BY <3>8, <5>1, <5>2, ExtendedInTurn
      <4>2. ASSUME NEW i \in DOMAIN received'[k]
            PROVE  IF received'[k][i].replayed
                   THEN \A l \in DOMAIN Tail(r) : received'[k][i].n < Tail(r)[l]
                   ELSE /\ received'[k][i].n <= Len(history[k])
                        /\ pushing[k] # 0 => received'[k][i].n < pushing[k]
        <5>0. i \in DOMAIN received'[k]
          OBVIOUS
        <5>1. CASE i \in DOMAIN received[k] /\ received'[k][i] = received[k][i]
          BY <1>a, <3>1, <3>a, <3>7, <5>1 DEF JobInOrder
        <5>2. CASE received'[k][i].n = Head(r) /\ received'[k][i].replayed = TRUE
          BY <3>7, <5>2
        <5>3. \/ i \in DOMAIN received[k] /\ received'[k][i] = received[k][i]
              \/ received'[k][i].n = Head(r) /\ received'[k][i].replayed = TRUE
          BY ONLY <4>0, <5>0, ExtendedParts
        <5> QED  BY ONLY <5>1, <5>2, <5>3
      <4>3. history'[k] = history[k] /\ pushing'[k] = pushing[k] /\ k \in watching'
        BY <2>1, <3>1
      <4>4. k \notin watching' => received'[k] = <<>>
        BY <4>3
      <4>5. pushing'[k] # 0 => pushing'[k] = Len(history'[k])
        BY <1>a, <3>1, <4>3 DEF JobInOrder
      <4>6. \A i \in DOMAIN received'[k] :
              IF received'[k][i].replayed
              THEN reader'.job = k =>
                     \A l \in DOMAIN reader'.rest : received'[k][i].n < reader'.rest[l]
              ELSE /\ received'[k][i].n <= Len(history'[k])
                   /\ pushing'[k] # 0 => received'[k][i].n < pushing'[k]
        BY <3>3, <4>2, <4>3
      <4> QED  BY ONLY <4>1, <4>4, <4>5, <4>6 DEF JobInOrder, InTurn
    <3>11. \A j \in Jobs : JobInOrder(j)'
      BY <3>9, <3>10
    <3>12. \A i, l \in DOMAIN reader'.rest : i < l => reader'.rest[i] < reader'.rest[l]
      BY <3>3, <3>6
    <3> QED  BY ONLY <3>11, <3>12 DEF OrderInv
  <2> QED  BY <2>1, <2>2, <2>3
<1>6. CASE ReplayEnds
  <2>1. /\ UNCHANGED <<history, pushing, received, watching>>
        /\ reader'.rest = <<>> /\ reader'.job = "none"
    BY <1>6 DEF ReplayEnds, bufferVars, panelVars, Idle
  <2>2. \A j \in Jobs : JobInOrder(j)'
    BY <1>d, <2>1
  <2> QED  BY <2>1, <2>2 DEF OrderInv
<1>7. CASE UNCHANGED vars
  BY <1>a, <1>d, <1>7 DEF vars, bufferVars, panelVars, OrderInv
<1> QED
  BY <1>1, <1>2, <1>3, <1>4, <1>5, <1>6, <1>7 DEF Next, Quiet

(* Replayed events reach the panel in their order, each once, and live      *)
(* ones do too, however the two are interleaved (Push streams after it has  *)
(* unlocked, agent.go:1071-1078 sends what Replay copied).                  *)
THEOREM ToldInOrder == Spec => []InOrder
<1>1. OrderInv => InOrder
  BY DEF OrderInv, JobInOrder, InOrder
<1> QED  BY <1>1, OrderInit, OrderNext, BufferSafe, PTL DEF Spec

(* A late viewer misses nothing of what the ring still holds, and is told   *)
(* it in order.                                                             *)
THEOREM LateViewer == Spec => []LateViewerTold
<1>1. NoGap /\ InOrder => LateViewerTold
  BY DEF LateViewerTold
<1> QED  BY <1>1, GapFree, ToldInOrder, PTL

-----------------------------------------------------------------------------
(* Both rings keep the newest of what went through them (jobs.go:112-192). *)
THEOREM NewestStays == Spec => []NewestIsKept
<1>1. BufferInv /\ RegistryKeepsNewest => NewestIsKept
  BY DEF NewestIsKept
<1> QED  BY <1>1, BufferSafe, RegistrySafe, PTL
=============================================================================
