-------------------------- MODULE PackageOpsProofs --------------------------
(* The lock and the reports of PackageOps, for any set of operations of any *)
(* kinds: LockInv is inductive, and DoneIsLast follows from it.             *)
EXTENDS PackageOps, TLAPS

Places == {"asked", "refused", "locking", "probing", "ready", "mutating",
           "reporting", "over"}

\* An operation only moves to a place it can be in, and moves alone.
LEMMA MovesAlone ==
  ASSUME TypeOK, NEW o \in Ops, NEW to \in Places, Goto(o, to)
  PROVE  /\ at' \in [Ops -> Places]
         /\ at'[o] = to
         /\ \A p \in Ops \ {o} : at'[p] = at[p]
  BY DEF TypeOK, Goto, Places

\* A step that moves one operation outside the lock, or within it, keeps the
\* lock exclusive; Locking is what Begin branches on.
LEMMA StaysExclusive ==
  ASSUME TypeOK, LockedOpsExclusive, UNCHANGED lock,
         NEW o \in Ops, NEW to \in Places, Goto(o, to),
         Kind[o] \in Locking =>
           (at[o] \in {"probing", "ready", "mutating", "reporting"}
              <=> to \in {"probing", "ready", "mutating", "reporting"})
  PROVE  LockedOpsExclusive'
<1>1. /\ at'[o] = to
      /\ \A p \in Ops \ {o} : at'[p] = at[p]
  BY MovesAlone
<1>2. \A p \in Ops : Kind[p] \in Locking => (Inside(p)' <=> Inside(p))
  BY <1>1 DEF Inside
<1> QED  BY <1>2 DEF LockedOpsExclusive

LEMMA InitLock == Init => LockInv
<1> SUFFICES ASSUME Init PROVE LockInv
  OBVIOUS
<1> USE OpsAssumption DEF OpsAssumption, Init
<1>1. TypeOK
  BY DEF TypeOK
<1>2. LockedOpsExclusive
  BY DEF LockedOpsExclusive, Inside
<1>3. ReportedOnce
  BY DEF ReportedOnce
<1> QED  BY <1>1, <1>2, <1>3 DEF LockInv

\* The steps that neither take the lock nor report.
LEMMA QuietSteps ==
  ASSUME LockInv, NEW o \in Ops, NEW to \in Places, Goto(o, to),
         UNCHANGED <<lock, expired, printed, done>>,
         at[o] # "over", to # "over",
         Kind[o] \in Locking =>
           (at[o] \in {"probing", "ready", "mutating", "reporting"}
              <=> to \in {"probing", "ready", "mutating", "reporting"})
  PROVE  LockInv'
<1> USE DEF LockInv
<1>1. /\ at' \in [Ops -> Places]
      /\ at'[o] = to
      /\ \A p \in Ops \ {o} : at'[p] = at[p]
  BY MovesAlone
<1>2. TypeOK'
  BY <1>1 DEF TypeOK, Places
<1>3. LockedOpsExclusive'
  BY StaysExclusive
<1>4. ReportedOnce'
  BY <1>1 DEF ReportedOnce, TypeOK
<1> QED  BY <1>2, <1>3, <1>4

LEMMA NextLock == LockInv /\ [Next]_vars => LockInv'
<1> SUFFICES ASSUME LockInv, [Next]_vars PROVE LockInv'
  OBVIOUS
<1> USE OpsAssumption DEF OpsAssumption
<1>0. TypeOK
  BY DEF LockInv
<1>1. ASSUME NEW o \in Ops, Begin(o) PROVE LockInv'
  <2>1. PICK to \in Places :
          /\ Goto(o, to)
          /\ Kind[o] \in Locking => to \in {"refused", "locking"}
          /\ to # "over"
    BY <1>1 DEF Begin, Places
  <2> QED  BY <1>1, <2>1, QuietSteps DEF Begin
<1>2. ASSUME NEW o \in Ops, Lock(o) PROVE LockInv'
  <2>1. PICK to \in {"probing", "ready"} : Goto(o, to)
    BY <1>2 DEF Lock
  <2>2. /\ at' \in [Ops -> Places]
        /\ at'[o] = to
        /\ \A p \in Ops \ {o} : at'[p] = at[p]
    <3>1. to \in Places
      BY DEF Places
    <3> QED  BY <2>1, <3>1, <1>0, MovesAlone
  <2>3. TypeOK'
    BY <1>0, <1>2, <2>2 DEF TypeOK, Places, Lock
  <2>4. LockedOpsExclusive'
    <3>1. \A p \in Ops : Kind[p] \in Locking => ~Inside(p)
      BY <1>2 DEF Lock, LockInv, LockedOpsExclusive
    <3>2. \A p \in Ops : Kind[p] \in Locking => (Inside(p)' <=> p = o)
      BY <3>1, <2>2 DEF Inside
    <3> QED  BY <3>2, <1>2 DEF Lock, LockedOpsExclusive
  <2>5. ReportedOnce'
    BY <1>0, <1>2, <2>2 DEF Lock, LockInv, ReportedOnce
  <2> QED  BY <2>3, <2>4, <2>5 DEF LockInv
<1>3. ASSUME NEW o \in Ops, Probe(o) PROVE LockInv'
  BY <1>3, QuietSteps DEF Probe, Places
<1>4. ASSUME NEW o \in Ops, Run(o) PROVE LockInv'
  BY <1>4, QuietSteps DEF Run, Places
<1>5. ASSUME NEW o \in Ops, Exit(o) PROVE LockInv'
  BY <1>5, QuietSteps DEF Exit, Places
<1>6. ASSUME NEW o \in Ops, Report(o) PROVE LockInv'
  <2>1. /\ at' \in [Ops -> Places]
        /\ at'[o] = "over"
        /\ \A p \in Ops \ {o} : at'[p] = at[p]
    BY <1>0, <1>6, MovesAlone DEF Report, Places
  <2>2. done[o] = 0
    BY <1>6 DEF Report, LockInv, ReportedOnce
  <2>3. TypeOK'
    <3>1. done' \in [Ops -> 0..1]
      BY <1>0, <1>6, <2>2 DEF TypeOK, Report
    <3>2. lock' \subseteq Ops /\ UNCHANGED <<expired, printed>>
      BY <1>0, <1>6 DEF TypeOK, Report
    <3> QED  BY <1>0, <2>1, <3>1, <3>2 DEF TypeOK, Places
  <2>4. LockedOpsExclusive'
    <3>1. \A p \in Ops : Inside(p)' <=> (Inside(p) /\ p # o)
      BY <2>1 DEF Inside
    <3> QED  BY <3>1, <1>6 DEF Report, LockInv, LockedOpsExclusive
  <2>5. ReportedOnce'
    BY <1>0, <1>6, <2>1, <2>2 DEF TypeOK, Report, LockInv, ReportedOnce
  <2> QED  BY <2>3, <2>4, <2>5 DEF LockInv
<1>7. ASSUME NEW o \in Ops, PrintLines(o) PROVE LockInv'
  BY <1>7 DEF PrintLines, LockInv, TypeOK, LockedOpsExclusive, Inside, ReportedOnce
<1>8. ASSUME NEW o \in Ops, Expire(o) PROVE LockInv'
  BY <1>8 DEF Expire, LockInv, TypeOK, LockedOpsExclusive, Inside, ReportedOnce
<1>9. CASE UNCHANGED vars
  BY <1>9 DEF vars, LockInv, TypeOK, LockedOpsExclusive, Inside, ReportedOnce
<1> QED
  BY <1>1, <1>2, <1>3, <1>4, <1>5, <1>6, <1>7, <1>8, <1>9
  DEF Next, OpStep, AllOver

\* Of the operations that take pkgLock at most one is between its Lock and its
\* Unlock, whatever operations the panel asks for, and every one reports once.
THEOREM LockSafe == Spec => []LockInv
  BY InitLock, NextLock, PTL DEF Spec

\* A job's done event is its last and comes exactly once.
THEOREM DoneEndsJob == Spec => DoneIsLast
<1>1. LockInv /\ LockInv' /\ [Next]_vars =>
        [\A o \in Ops : /\ done'[o] <= 1
                        /\ done[o] = 1 => printed'[o] = printed[o]
                        /\ at'[o] = "over" => done'[o] = 1]_vars
  <2> SUFFICES ASSUME LockInv, LockInv', Next, NEW o \in Ops
               PROVE  /\ done'[o] <= 1
                      /\ done[o] = 1 => printed'[o] = printed[o]
                      /\ at'[o] = "over" => done'[o] = 1
    OBVIOUS
  <2>1. done'[o] <= 1 /\ (at'[o] = "over" => done'[o] = 1)
    BY DEF LockInv, ReportedOnce
  <2>2. ASSUME NEW p \in Ops, PrintLines(p), done[o] = 1
        PROVE  printed'[o] = printed[o]
    <3>1. o # p
      BY <2>2 DEF LockInv, ReportedOnce, PrintLines
    <3> QED  BY <2>2, <3>1 DEF PrintLines, LockInv, TypeOK
  <2>3. ASSUME ~\E p \in Ops : PrintLines(p)
        PROVE  printed' = printed
    BY <2>3 DEF Next, OpStep, Begin, Lock, Probe, Run, Exit, Report, Expire, AllOver, vars
  <2> QED  BY <2>1, <2>2, <2>3
<1> QED  BY <1>1, LockSafe, PTL DEF Spec, DoneIsLast
=============================================================================
