-------------------------- MODULE CommandPoolProofs --------------------------
(***************************************************************************)
(* The pool leaks no slot, answers every command once, and a wait of       *)
(* cleanup that succeeds covers the workers that were running, for any     *)
(* number of commands and slots.                                           *)
(***************************************************************************)
EXTENDS CommandPool, FiniteSetTheorems, TLAPS

USE PoolAssumption DEF PoolAssumption

LEMMA CountType ==
  ASSUME NEW S
  PROVE  IsFiniteSet(In(S)) /\ Cardinality(In(S)) \in Nat
BY FS_Subset, FS_CardinalityType DEF In

\* What one command's move does to the number of commands in a set of stages.
LEMMA MoveCount ==
  ASSUME NEW S, NEW c \in Commands, NEW to, stage \in [Commands -> Stages], Move(c, to)
  PROVE  /\ to \in S /\ stage[c] \notin S => Cardinality(In(S)') = Cardinality(In(S)) + 1
         /\ to \notin S /\ stage[c] \in S => Cardinality(In(S)') = Cardinality(In(S)) - 1
         /\ (to \in S <=> stage[c] \in S) => In(S)' = In(S)
<1>1. In(S)' = IF to \in S THEN In(S) \cup {c} ELSE In(S) \ {c}
  BY DEF In, Move
<1>2. c \in In(S) <=> stage[c] \in S
  BY DEF In
<1>3. IsFiniteSet(In(S))  BY CountType
<1>4. ASSUME to \in S, stage[c] \notin S
      PROVE  Cardinality(In(S)') = Cardinality(In(S)) + 1
  BY <1>1, <1>2, <1>3, <1>4, FS_AddElement
<1>5. ASSUME to \notin S, stage[c] \in S
      PROVE  Cardinality(In(S)') = Cardinality(In(S)) - 1
  <2>1. In(S)' = In(S) \ {c} /\ c \in In(S)
    BY <1>1, <1>2, <1>5
  <2>2. Cardinality(In(S) \ {c}) = Cardinality(In(S)) - 1
    BY ONLY <1>3, <2>1, FS_RemoveElement
  <2> QED  BY <2>1, <2>2
<1>6. (to \in S <=> stage[c] \in S) => In(S)' = In(S)
  BY <1>1, <1>2
<1> QED  BY <1>4, <1>5, <1>6

LEMMA InitPool == Init => PoolInv
<1> SUFFICES ASSUME Init PROVE PoolInv
  OBVIOUS
<1>1. In(InProgress) = {} /\ In(InProgress \cup {"slotted"}) = {}
  BY DEF Init, In, InProgress
<1>2. TypeOK  BY DEF Init, TypeOK, Stages
<1> QED  BY <1>1, <1>2, FS_EmptySet DEF Init, PoolInv, SlotsAreHeld

\* The part of the type invariant that no count decides.
PlainTypes ==
  /\ stage \in [Commands -> Stages]
  /\ expired \subseteq Commands /\ old \subseteq Commands
  /\ cleanup \in {"no", "waiting", "joined", "gave up"}
  /\ answers \in [Commands -> SUBSET {"busy", "denied", "unknown", "result", "error"}]

LEMMA MoveType ==
  ASSUME stage \in [Commands -> Stages], NEW c \in Commands, NEW to \in Stages, Move(c, to)
  PROVE  stage' \in [Commands -> Stages]
BY DEF Move

Outcomes == {"busy", "denied", "unknown", "result", "error"}

LEMMA AnswerType ==
  ASSUME answers \in [Commands -> SUBSET Outcomes], NEW c \in Commands,
         NEW outcome \in Outcomes, Answer(c, outcome) \/ AnswerUnlessGarbled(c, outcome)
  PROVE  answers' \in [Commands -> SUBSET Outcomes]
<1>1. CASE UNCHANGED answers  BY <1>1
<1>2. CASE Answer(c, outcome)
  <2>1. answers[c] \cup {outcome} \in SUBSET Outcomes  OBVIOUS
  <2> QED  BY <1>2, <2>1 DEF Answer
<1> QED  BY <1>1, <1>2 DEF AnswerUnlessGarbled

LEMMA NextTypes == PlainTypes /\ [Next]_vars => PlainTypes'
<1> SUFFICES ASSUME PlainTypes, [Next]_vars PROVE PlainTypes'
  OBVIOUS
<1>1. ASSUME NEW c \in Commands,
             TakeSlot(c) \/ Spawn(c) \/ Execute(c) \/ Release(c)
      PROVE  PlainTypes'
  <2>1. PICK to \in Stages : Move(c, to)
    BY <1>1 DEF TakeSlot, Spawn, Execute, Release, Stages
  <2>2. UNCHANGED <<expired, cleanup, answers, old>>
    BY <1>1 DEF TakeSlot, Spawn, Execute, Release
  <2> QED  BY <2>1, <2>2, MoveType DEF PlainTypes
<1>2. ASSUME NEW c \in Commands, Busy(c) \/ Refuse(c) \/ Finish(c)
      PROVE  PlainTypes'
  <2>1. PICK to \in Stages : Move(c, to)
    BY <1>2 DEF Busy, Refuse, Finish, Stages
  <2>2. PICK outcome \in Outcomes : Answer(c, outcome) \/ AnswerUnlessGarbled(c, outcome)
    BY <1>2 DEF Busy, Refuse, Finish, Outcomes
  <2>3. answers' \in [Commands -> SUBSET Outcomes]
    BY <2>2, AnswerType DEF PlainTypes, Outcomes
  <2>4. UNCHANGED <<expired, cleanup, old>>
    BY <1>2 DEF Busy, Refuse, Finish
  <2> QED  BY <2>1, <2>3, <2>4, MoveType DEF PlainTypes, Outcomes
<1>3. ASSUME NEW c \in Commands, Expire(c)
      PROVE  PlainTypes'
  BY <1>3 DEF Expire, PlainTypes
<1>4. CASE CancelCommands  BY <1>4 DEF CancelCommands, In, PlainTypes
<1>5. CASE Joined \/ GiveUp  BY <1>5 DEF Joined, GiveUp, PlainTypes
<1>6. CASE UNCHANGED vars  BY <1>6 DEF vars, PlainTypes
<1> QED  BY <1>1, <1>2, <1>3, <1>4, <1>5, <1>6 DEF Next, Worker, Idle

\* Slots and wait group count the commands under way.
Counted ==
  /\ slots = Cardinality(In(InProgress \cup {"slotted"})) /\ slots <= MaxSlots
  /\ workers = Cardinality(In(InProgress))

LEMMA NextCounted == PlainTypes /\ Counted /\ [Next]_vars => Counted'
<1> SUFFICES ASSUME PlainTypes, Counted, [Next]_vars PROVE Counted'
  OBVIOUS
<1> DEFINE Held == InProgress \cup {"slotted"}
<1>0. /\ "slotted" \in Held /\ InProgress \subseteq Held
      /\ "panel" \notin Held /\ "gone" \notin Held
      /\ "slotted" \notin InProgress /\ "panel" \notin InProgress
      /\ "gone" \notin InProgress
      /\ {"accepted", "executing", "finishing"} \subseteq InProgress
  BY DEF InProgress
<1>1. /\ Cardinality(In(Held)) \in Nat /\ Cardinality(In(InProgress)) \in Nat
      /\ stage \in [Commands -> Stages]
  BY CountType DEF PlainTypes
<1>2. ASSUME NEW c \in Commands, TakeSlot(c)
      PROVE  Counted'
  <2>1. Move(c, "slotted") /\ stage[c] = "panel" /\ slots < MaxSlots
    BY <1>2 DEF TakeSlot
  <2>2. /\ Cardinality(In(Held)') = Cardinality(In(Held)) + 1
        /\ In(InProgress)' = In(InProgress)
    BY <1>0, <1>1, <2>1, MoveCount
  <2> QED  BY <1>1, <1>2, <2>1, <2>2 DEF TakeSlot, Counted
<1>3. ASSUME NEW c \in Commands, Busy(c)
      PROVE  Counted'
  <2>1. Move(c, "gone") /\ stage[c] = "panel"
    BY <1>3 DEF Busy
  <2>2. In(Held)' = In(Held) /\ In(InProgress)' = In(InProgress)
    BY <1>0, <1>1, <2>1, MoveCount
  <2> QED  BY <1>3, <2>2 DEF Busy, Counted
<1>4. ASSUME NEW c \in Commands, Spawn(c)
      PROVE  Counted'
  <2>1. Move(c, "accepted") /\ stage[c] = "slotted"
    BY <1>4 DEF Spawn
  <2>2. /\ Cardinality(In(InProgress)') = Cardinality(In(InProgress)) + 1
        /\ In(Held)' = In(Held)
    BY <1>0, <1>1, <2>1, MoveCount
  <2> QED  BY <1>4, <2>2 DEF Spawn, Counted
<1>5. ASSUME NEW c \in Commands, Refuse(c) \/ Execute(c) \/ Finish(c)
      PROVE  Counted'
  <2>1. PICK to \in {"executing", "finishing"} :
          Move(c, to) /\ stage[c] \in {"accepted", "executing"}
    BY <1>5 DEF Refuse, Execute, Finish
  <2>2. In(Held)' = In(Held) /\ In(InProgress)' = In(InProgress)
    BY <1>0, <1>1, <2>1, MoveCount
  <2> QED  BY <1>5, <2>2 DEF Refuse, Execute, Finish, Counted
<1>6. ASSUME NEW c \in Commands, Release(c)
      PROVE  Counted'
  <2>1. Move(c, "gone") /\ stage[c] = "finishing"
    BY <1>6 DEF Release
  <2>2. /\ Cardinality(In(Held)') = Cardinality(In(Held)) - 1
        /\ Cardinality(In(InProgress)') = Cardinality(In(InProgress)) - 1
    BY <1>0, <1>1, <2>1, MoveCount
  <2> QED  BY <1>1, <1>6, <2>2 DEF Release, Counted
<1>7. ASSUME UNCHANGED <<stage, slots, workers>>
      PROVE  Counted'
  BY <1>7 DEF Counted, In
<1>8. ASSUME NEW c \in Commands, Expire(c)
      PROVE  Counted'
  BY <1>7, <1>8 DEF Expire
<1>9. CASE CancelCommands \/ Joined \/ GiveUp \/ UNCHANGED vars
  BY <1>7, <1>9 DEF CancelCommands, Joined, GiveUp, vars
<1> QED
  BY <1>2, <1>3, <1>4, <1>5, <1>6, <1>8, <1>9 DEF Next, Worker, Idle

LEMMA PoolParts == PoolInv <=> PlainTypes /\ Counted
<1>1. PoolInv => PlainTypes /\ Counted
  BY DEF PoolInv, TypeOK, SlotsAreHeld, PlainTypes, Counted
<1>2. ASSUME PlainTypes, Counted PROVE PoolInv
  <2>1. In(InProgress) \in SUBSET In(InProgress \cup {"slotted"})  BY DEF In
  <2>2. Cardinality(In(InProgress)) <= Cardinality(In(InProgress \cup {"slotted"}))
    BY <2>1, CountType, FS_Subset
  <2>3. slots \in 0..MaxSlots /\ workers \in 0..MaxSlots
    BY <1>2, <2>2, CountType DEF Counted
  <2> QED  BY <1>2, <2>3 DEF PoolInv, TypeOK, SlotsAreHeld, PlainTypes, Counted
<1> QED  BY <1>1, <1>2

\* No slot leaks and none is held twice, whatever the order of workers,
\* refusals and cleanup, and the pool never runs more than MaxSlots commands.
THEOREM PoolSafe == Spec => []PoolInv
<1>1. PoolInv /\ [Next]_vars => PoolInv'
  <2> SUFFICES ASSUME PlainTypes, Counted, [Next]_vars PROVE PlainTypes' /\ Counted'
    BY PoolParts, PTL
  <2> QED  BY NextTypes, NextCounted
<1> QED  BY <1>1, InitPool, PTL DEF Spec

-----------------------------------------------------------------------------
(* The answers.                                                            *)

\* A command is answered when it leaves the hands of the read goroutine or of its
\* worker, and never before; a refused one does not reach its handler.
AnswersInv ==
  \A c \in Commands :
    /\ stage[c] \in {"panel", "slotted", "accepted", "executing"} => answers[c] = {}
    /\ stage[c] = "executing" => c \notin Garbled \cup Denied \cup Unknown
    /\ c \in Garbled => answers[c] = {}
    /\ c \in Denied \ Garbled => answers[c] \subseteq {"denied", "busy"}
    /\ stage[c] \in {"finishing", "gone"} /\ c \notin Garbled =>
         \E outcome \in Outcomes : answers[c] = {outcome}

LEMMA NextAnswers == PlainTypes /\ AnswersInv /\ [Next]_vars => AnswersInv'
<1> SUFFICES ASSUME PlainTypes, AnswersInv, [Next]_vars PROVE AnswersInv'
  OBVIOUS
<1> USE DEF PlainTypes, AnswersInv, Move
<1>1. ASSUME NEW c \in Commands, TakeSlot(c) \/ Spawn(c) \/ Execute(c) \/ Release(c)
      PROVE  AnswersInv'
  <2>1. CASE TakeSlot(c)  BY <2>1 DEF TakeSlot
  <2>2. CASE Spawn(c)  BY <2>2 DEF Spawn
  <2>3. CASE Execute(c)  BY <2>3 DEF Execute
  <2>4. CASE Release(c)  BY <2>4 DEF Release
  <2> QED  BY <1>1, <2>1, <2>2, <2>3, <2>4
<1>2. ASSUME NEW c \in Commands, NEW outcome \in Outcomes, NEW to \in {"finishing", "gone"},
             stage[c] \in {"panel", "accepted", "executing"}, Move(c, to),
             AnswerUnlessGarbled(c, outcome),
             c \in Denied => outcome \in {"denied", "busy"}
      PROVE  AnswersInv'
  <2>1. answers[c] = {}  BY <1>2
  <2>2. \A b \in Commands : b # c => answers'[b] = answers[b] /\ stage'[b] = stage[b]
    BY <1>2 DEF AnswerUnlessGarbled, Answer
  <2>3. stage'[c] = to  BY <1>2
  <2>4. answers'[c] = IF c \in Garbled THEN {} ELSE {outcome}
    BY <1>2, <2>1 DEF AnswerUnlessGarbled, Answer
  <2>5. to \notin {"panel", "slotted", "accepted", "executing"}  OBVIOUS
  <2> SUFFICES ASSUME NEW b \in Commands
               PROVE  /\ stage'[b] \in {"panel", "slotted", "accepted", "executing"}
                           => answers'[b] = {}
                      /\ stage'[b] = "executing" => b \notin Garbled \cup Denied \cup Unknown
                      /\ b \in Garbled => answers'[b] = {}
                      /\ b \in Denied \ Garbled => answers'[b] \subseteq {"denied", "busy"}
                      /\ stage'[b] \in {"finishing", "gone"} /\ b \notin Garbled =>
                           \E o \in Outcomes : answers'[b] = {o}
    OBVIOUS
  <2>6. CASE b = c  BY <1>2, <2>3, <2>4, <2>5, <2>6
  <2>7. CASE b # c  BY <2>2, <2>7
  <2> QED  BY <2>6, <2>7
<1>3. ASSUME NEW c \in Commands, Busy(c)
      PROVE  AnswersInv'
  BY <1>2, <1>3 DEF Busy, Outcomes
<1>4. ASSUME NEW c \in Commands, Refuse(c)
      PROVE  AnswersInv'
  BY <1>2, <1>4 DEF Refuse, Outcomes
<1>5. ASSUME NEW c \in Commands, Finish(c)
      PROVE  AnswersInv'
  <2>1. c \notin Garbled \cup Denied  BY <1>5 DEF Finish
  <2>2. PICK outcome \in {"result", "error"} : Answer(c, outcome)
    BY <1>5 DEF Finish
  <2>3. AnswerUnlessGarbled(c, outcome)  BY <2>1, <2>2 DEF AnswerUnlessGarbled
  <2>4. stage[c] = "executing" /\ Move(c, "finishing")
    BY <1>5 DEF Finish
  <2>5. outcome \in Outcomes
    BY <2>2 DEF Outcomes
  <2> QED  BY <1>2, <2>1, <2>3, <2>4, <2>5
<1>6. ASSUME UNCHANGED <<stage, answers>>
      PROVE  AnswersInv'
  BY <1>6
<1>7. ASSUME NEW c \in Commands, Expire(c)
      PROVE  AnswersInv'
  BY <1>6, <1>7 DEF Expire
<1>8. CASE CancelCommands \/ Joined \/ GiveUp \/ UNCHANGED vars
  BY <1>6, <1>8 DEF CancelCommands, Joined, GiveUp, vars
<1> QED  BY <1>1, <1>3, <1>4, <1>5, <1>7, <1>8 DEF Next, Worker, Idle

LEMMA PoolTypes == Spec => []PlainTypes
<1>1. Init => PlainTypes  BY DEF Init, PlainTypes, Stages
<1> QED  BY <1>1, NextTypes, PTL DEF Spec

\* The panel is answered once per command, in the command's own kind, and a
\* refused command never runs.
THEOREM AnswersSafe == Spec => []AnswersInv
<1>1. Init => AnswersInv  BY DEF Init, AnswersInv
<1> QED  BY <1>1, NextAnswers, PoolTypes, PTL DEF Spec

THEOREM AnsweredOnce == Spec => []OneAnswer
<1>1. AnswersInv /\ PlainTypes => OneAnswer
  <2> SUFFICES ASSUME AnswersInv, PlainTypes, NEW c \in Commands
               PROVE  /\ Cardinality(answers[c]) <= 1
                      /\ c \in Garbled => answers[c] = {}
                      /\ c \in Denied \ Garbled => answers[c] \subseteq {"denied", "busy"}
                      /\ stage[c] = "gone" /\ c \notin Garbled => answers[c] # {}
    BY DEF OneAnswer
  <2>1. answers[c] = {} \/ \E outcome \in Outcomes : answers[c] = {outcome}
    BY DEF AnswersInv, PlainTypes, Stages
  <2>2. CASE answers[c] = {}
    <3>1. Cardinality(answers[c]) = 0  BY <2>2, FS_EmptySet
    <3> QED  BY <2>2, <3>1 DEF AnswersInv
  <2>3. ASSUME NEW outcome \in Outcomes, answers[c] = {outcome}
        PROVE  Cardinality(answers[c]) <= 1
    <3>1. Cardinality({outcome}) = 1  BY FS_Singleton
    <3> QED  BY <2>3, <3>1
  <2> QED  BY <2>1, <2>2, <2>3 DEF AnswersInv
<1> QED  BY <1>1, AnswersSafe, PoolTypes, PTL

-----------------------------------------------------------------------------
(* Cleanup.                                                                *)

\* What cleanup found under way only ever moves on, and is over when the counter
\* of cmdWG is at zero.
JoinInv ==
  /\ \A c \in old : stage[c] \in InProgress \cup {"gone"}
  /\ cleanup = "joined" => \A c \in old : stage[c] = "gone"

LEMMA NextJoin == PoolInv /\ JoinInv /\ [Next]_vars => JoinInv'
<1> SUFFICES ASSUME PlainTypes, Counted, JoinInv, [Next]_vars PROVE JoinInv'
  BY PoolParts
<1> USE DEF PlainTypes, JoinInv, InProgress, Move
<1>1. ASSUME NEW c \in Commands, TakeSlot(c) \/ Busy(c) \/ Spawn(c) \/ Refuse(c)
                                  \/ Execute(c) \/ Finish(c) \/ Release(c)
      PROVE  JoinInv'
  BY <1>1 DEF TakeSlot, Busy, Spawn, Refuse, Execute, Finish, Release
<1>2. ASSUME NEW c \in Commands, Expire(c)
      PROVE  JoinInv'
  BY <1>2 DEF Expire
<1>3. CASE CancelCommands  BY <1>3 DEF CancelCommands, In
<1>4. CASE Joined
  <2>1. IsFiniteSet(In(InProgress)) /\ Cardinality(In(InProgress)) = 0
    BY <1>4, CountType DEF Joined, Counted
  <2>2. In(InProgress) = {}  BY <2>1, FS_EmptySet
  <2>3. \A c \in old : stage[c] = "gone"  BY <2>2 DEF In
  <2> QED  BY <1>4, <2>3 DEF Joined
<1>5. CASE GiveUp \/ UNCHANGED vars  BY <1>5 DEF GiveUp, vars
<1> QED  BY <1>1, <1>2, <1>3, <1>4, <1>5 DEF Next, Worker, Idle

\* A wait of cleanup that succeeds has seen every command it cancelled answered
\* and its worker gone.
THEOREM JoinCovers == Spec => []JoinCoversOld
<1>1. Init => JoinInv  BY DEF Init, JoinInv
<1>2. JoinInv /\ AnswersInv /\ PlainTypes => JoinCoversOld
  BY DEF JoinInv, AnswersInv, PlainTypes, JoinCoversOld
<1> QED  BY <1>1, <1>2, NextJoin, PoolSafe, PoolTypes, AnswersSafe, PTL DEF Spec
=============================================================================
