------------------------ MODULE GuestPunishment_proofs ------------------------
(* Proofs about GuestPunishment, for any updates, users and thresholds.      *)
EXTENDS GuestPunishment, FiniteSetTheorems, TLAPS

LEMMA DataTypes ==
  /\ NumUpdates \in Nat /\ MaxRestarts \in Nat
  /\ MuteThreshold \in Nat /\ BanThreshold \in Nat /\ BanThreshold > MuteThreshold
  /\ \A u \in Update : u \in Nat /\ ReplyOf[u] \in Reply /\ Caller(u) \in User
BY PunishmentAssumption DEF Update, Caller

-----------------------------------------------------------------------------
(* Types.                                                                  *)

LEMMA InitTypes == Init => TypeOK
<1>. SUFFICES ASSUME Init PROVE TypeOK
  OBVIOUS
<1>1. /\ violations \in [User -> Nat] /\ surplus \in [User -> Nat]
      /\ pc \in [Update -> Pc]
  BY DEF Init, Pc
<1>2. /\ present \subseteq Reply /\ judged \subseteq Reply /\ counted \subseteq Reply
      /\ \A u \in Update : pc[u] = "unseen"
  BY DEF Init
<1>3. received = 0 /\ offset = 0 /\ restarts = 0 /\ taken = 0 /\ bound \in BOOLEAN
  BY DEF Init
<1>4. /\ offset <= received /\ received \in Nat /\ offset \in Nat /\ restarts \in Nat
      /\ taken \in Nat
  BY <1>3
<1>. QED BY <1>1, <1>2, <1>3, <1>4 DEF TypeOK

LEMMA NextTypes ==
  ASSUME TypeOK, [Next]_vars
  PROVE  TypeOK'
<1> USE DataTypes DEF Goto, queue, history
<1>1. ASSUME NEW u \in Update, Deliver(u) PROVE TypeOK'
  <2>1. received' \in Nat /\ offset <= received'
    BY <1>1 DEF Deliver, TypeOK
  <2>2. pc' \in [Update -> Pc] /\ \A v \in Update : v > received' => pc'[v] = "unseen"
    BY <1>1 DEF Deliver, TypeOK, Pc
  <2>. QED BY <1>1, <2>1, <2>2 DEF Deliver, TypeOK
<1>2. ASSUME NEW u \in Update, Handle(u) PROVE TypeOK'
  <2>1. pc[u] # "unseen" /\ u <= received
    BY <1>2 DEF Handle, Classify, DeleteReply, DeleteFails, Count, CountNot, Punish,
                TypeOK
  <2>2. PICK l \in Pc : pc' = [pc EXCEPT ![u] = l]
    BY <1>2 DEF Handle, Classify, DeleteReply, DeleteFails, Count, CountNot, Punish,
                Penalty, Pc
  <2>3. pc' \in [Update -> Pc] /\ \A v \in Update : v > received => pc'[v] = "unseen"
    BY <2>1, <2>2 DEF TypeOK
  <2>4. violations' \in [User -> Nat] /\ surplus' \in [User -> Nat]
    BY <1>2 DEF Handle, Classify, DeleteReply, DeleteFails, Count, CountNot, Punish,
                TypeOK
  <2>5. present' \subseteq Reply /\ judged' \subseteq Reply /\ counted' \subseteq Reply
    BY <1>2 DEF Handle, Classify, DeleteReply, DeleteFails, Count, CountNot, Punish,
                TypeOK
  <2>6. UNCHANGED <<bound, queue, taken>> \/ UNCHANGED <<bound, queue, history>>
    BY <1>2 DEF Handle, Classify, DeleteReply, DeleteFails, Count, CountNot, Punish
  <2>. QED BY <2>3, <2>4, <2>5, <2>6 DEF TypeOK
<1>3. CASE Confirm
  BY <1>3 DEF Confirm, TypeOK
<1>4. CASE Bind
  BY <1>4 DEF Bind, TypeOK
<1>5. CASE Unbind
  BY <1>5 DEF Unbind, TypeOK
<1>6. CASE Restart
  BY <1>6 DEF Restart, TypeOK, Pc, Update
<1>7. CASE UNCHANGED vars
  BY <1>7 DEF vars, program, TypeOK
<1>. QED BY <1>1, <1>2, <1>3, <1>4, <1>5, <1>6, <1>7 DEF Next

\* The variables keep their types, and only received updates are in progress.
THEOREM TypeCorrect == Spec => []TypeOK
BY InitTypes, NextTypes, PTL DEF Spec

-----------------------------------------------------------------------------
(* The count of a user never exceeds the distinct replies that were counted  *)
(* and the surplus.                                                          *)

Counted(c) == RepliesOf(c, counted)

Backed(c) == violations[c] <= Cardinality(Counted(c)) + surplus[c]

\* A counted reply has its update behind it: in this process or an earlier one.
BehindIt(u) ==
  ReplyOf[u] \in counted => u <= taken \/ pc[u] \in {"mute", "ban", "done"}

\* The strengthening of PunishmentJustified.
CountInv ==
  /\ TypeOK
  /\ IsFiniteSet(judged) /\ counted \subseteq judged
  /\ \A c \in User : Backed(c)
  /\ \A u \in Update \ Edit : BehindIt(u)

LEMMA CountedFinite ==
  ASSUME NEW c, IsFiniteSet(judged), counted \subseteq judged
  PROVE  /\ IsFiniteSet(Counted(c)) /\ Cardinality(Counted(c)) \in Nat
         /\ Cardinality(RepliesOf(c, judged)) \in Nat
         /\ Cardinality(Counted(c)) <= Cardinality(RepliesOf(c, judged))
<1>1. RepliesOf(c, judged) \subseteq judged /\ Counted(c) \subseteq RepliesOf(c, judged)
  BY DEF RepliesOf, Counted
<1>2. IsFiniteSet(RepliesOf(c, judged))
  BY <1>1, FS_Subset
<1>. QED BY <1>1, <1>2, FS_Subset, FS_CardinalityType

\* The reply is counted: it is a new one, or the surplus grows.
LEMMA CountCounts ==
  ASSUME CountInv, NEW u \in Update, Count(u)
  PROVE  CountInv'
<1>. USE DataTypes
<1>. DEFINE own == Caller(u)
            r == ReplyOf[u]
            n == violations[own] + 1
<1>t. /\ u \in Update \ Edit /\ pc[u] = "count" /\ own \in User
      /\ violations' = [violations EXCEPT ![own] = n]
      /\ UNCHANGED <<judged, taken>> /\ TypeOK /\ TypeOK'
  BY NextTypes DEF Count, Counts, queue, CountInv, Next, Handle
<1>p. PICK l \in {"mute", "ban", "done"} : pc' = [pc EXCEPT ![u] = l]
  BY DEF Count, Goto, Penalty
<1>v. \A c \in User : /\ violations[c] \in Nat /\ surplus[c] \in Nat
                      /\ violations'[c] = IF c = own THEN n ELSE violations[c]
  BY <1>t DEF TypeOK
<1>1. CASE Undue(u)
  <2>1. counted' = counted /\ surplus' = [surplus EXCEPT ![own] = @ + 1]
    BY <1>1 DEF Count
  <2>2. ASSUME NEW c \in User PROVE Backed(c)'
    <3>1. surplus'[c] = IF c = own THEN surplus[own] + 1 ELSE surplus[c]
      BY <2>1, <1>t DEF TypeOK
    <3>2. Counted(c)' = Counted(c) /\ Cardinality(Counted(c)) \in Nat
      BY <2>1, CountedFinite DEF Counted, RepliesOf, CountInv
    <3>. QED BY <3>1, <3>2, <1>v DEF Backed, CountInv
  <2>3. \A v \in Update \ Edit : BehindIt(v)'
    BY <2>1, <1>t, <1>p DEF CountInv, BehindIt, TypeOK
  <2>. QED BY <1>t, <2>1, <2>2, <2>3 DEF CountInv
<1>2. CASE ~Undue(u)
  <2>1. counted' = counted \union {r} /\ surplus' = surplus /\ r \in judged
    BY <1>2 DEF Count, Undue
  <2>2. r \notin counted
    BY <1>2, <1>t DEF Undue, CountInv, BehindIt
  <2>3. ASSUME NEW c \in User PROVE Backed(c)'
    <3>f. Cardinality(Counted(c)) \in Nat /\ IsFiniteSet(Counted(c))
      BY CountedFinite DEF CountInv
    <3>1. CASE c = own
      <4>1. Counted(c)' = Counted(c) \union {r} /\ r \notin Counted(c)
        BY <3>1, <2>1, <2>2 DEF Counted, RepliesOf, Caller
      <4>2. Cardinality(Counted(c)') = Cardinality(Counted(c)) + 1
        BY <4>1, <3>f, FS_AddElement
      <4>. QED BY <4>2, <3>1, <3>f, <2>1, <1>v DEF Backed, CountInv
    <3>2. CASE c # own
      <4>1. Counted(c)' = Counted(c)
        BY <3>2, <2>1 DEF Counted, RepliesOf, Caller
      <4>. QED BY <4>1, <3>2, <2>1, <1>v DEF Backed, CountInv
    <3>. QED BY <3>1, <3>2
  <2>4. ASSUME NEW v \in Update \ Edit PROVE BehindIt(v)'
    <3>1. CASE v = u
      BY <3>1, <1>t, <1>p DEF BehindIt, TypeOK
    <3>2. CASE v # u
      <4>1. ReplyOf[v] # r /\ pc'[v] = pc[v]
        BY <3>2, <1>t, <1>p, PunishmentAssumption DEF TypeOK
      <4>. QED BY <4>1, <2>1, <1>t DEF BehindIt, CountInv
    <3>. QED BY <3>1, <3>2
  <2>5. counted' \subseteq judged' /\ IsFiniteSet(judged')
    BY <2>1, <1>t DEF CountInv
  <2>. QED BY <1>t, <2>3, <2>4, <2>5 DEF CountInv
<1>. QED BY <1>1, <1>2

\* Every other step of a process counts nothing, and no update goes back.
LEMMA OtherCounts ==
  ASSUME CountInv, TypeOK', UNCHANGED <<violations, counted, surplus>>,
         judged' = judged \/ \E r : judged' = judged \union {r}, taken' \in Nat,
         \A u \in Update : u <= taken => u <= taken',
         \A u \in Update : pc[u] \in {"mute", "ban", "done"} =>
                             pc'[u] \in {"mute", "ban", "done"} \/ u <= taken'
  PROVE  CountInv'
<1>1. IsFiniteSet(judged') /\ counted' \subseteq judged'
  BY FS_AddElement DEF CountInv
<1>2. \A c \in User : Backed(c)'
  BY DEF CountInv, Backed, Counted, RepliesOf
<1>3. \A u \in Update \ Edit : BehindIt(u)'
  BY DEF CountInv, BehindIt
<1>. QED BY <1>1, <1>2, <1>3 DEF CountInv

LEMMA NextCounts ==
  ASSUME CountInv, [Next]_vars
  PROVE  CountInv'
<1>. USE DataTypes
<1>t. TypeOK /\ TypeOK' /\ taken \in Nat /\ taken' \in Nat
  BY NextTypes DEF CountInv, TypeOK
<1>1. ASSUME NEW u \in Update, Deliver(u) PROVE CountInv'
  <2>1. /\ pc' = [pc EXCEPT ![u] = "classify"] /\ u = received + 1
        /\ UNCHANGED <<violations, history>>
    BY <1>1 DEF Deliver, Goto
  <2>2. pc[u] = "unseen"
    BY <2>1, <1>t DEF TypeOK
  <2>. QED BY <2>1, <2>2, <1>t, OtherCounts DEF TypeOK, history
<1>2. ASSUME NEW u \in Update, Count(u) PROVE CountInv'
  BY <1>2, CountCounts
<1>3. ASSUME NEW u \in Update,
             \/ Classify(u) \/ DeleteReply(u) \/ DeleteFails(u)
             \/ CountNot(u) \/ Punish(u)
      PROVE  CountInv'
  <2>1. /\ UNCHANGED <<violations, counted, surplus, taken>>
        /\ judged' = judged \/ \E r : judged' = judged \union {r}
    BY <1>3 DEF Classify, DeleteReply, DeleteFails, CountNot, Punish, history
  <2>2. PICK l \in {"delete", "count", "done"} :
          /\ pc' = [pc EXCEPT ![u] = l]
          /\ l # "done" => pc[u] \in {"classify", "delete"}
    BY <1>3 DEF Classify, DeleteReply, DeleteFails, CountNot, Punish, Goto
  <2>. QED BY <2>1, <2>2, <1>t, OtherCounts DEF TypeOK
<1>4. CASE Confirm \/ Bind \/ UNCHANGED vars
  <2>1. UNCHANGED <<violations, history, pc>>
    BY <1>4 DEF Confirm, Bind, vars, program
  <2>. QED BY <2>1, <1>t, OtherCounts DEF history
<1>5. CASE Unbind
  <2>1. /\ judged' = {} /\ counted' = {}
        /\ \A c \in User : violations'[c] = 0 /\ surplus'[c] = 0
    BY <1>5 DEF Unbind
  <2>2. \A c \in User : Counted(c)' = {}
    BY <2>1 DEF Counted, RepliesOf
  <2>3. \A c \in User : Backed(c)'
    <3>1. Cardinality({}) = 0 /\ 0 <= 0 + 0
      BY FS_EmptySet
    <3>2. ASSUME NEW c \in User PROVE Backed(c)'
      <4>1. violations'[c] = 0 /\ surplus'[c] = 0 /\ Cardinality(Counted(c)') = 0
        BY <2>1, <2>2, <3>1
      <4>2. violations'[c] <= Cardinality(Counted(c)') + surplus'[c]
        <5>. HIDE DEF Counted
        <5>. QED BY <4>1
      <4>. QED BY <4>2 DEF Backed
    <3>. QED BY <3>2
  <2>4. IsFiniteSet(judged') /\ counted' \subseteq judged'
    <3>1. IsFiniteSet({})
      BY FS_EmptySet
    <3>. QED BY <2>1, <3>1
  <2>5. \A u \in Update \ Edit : BehindIt(u)'
    BY <2>1 DEF BehindIt
  <2>. QED BY <2>3, <2>4, <2>5, <1>t DEF CountInv
<1>6. CASE Restart
  <2>1. /\ UNCHANGED <<violations, judged, counted, surplus>>
        /\ taken' = IF received > taken THEN received ELSE taken
    BY <1>6 DEF Restart
  <2>2. \A u \in Update : u <= taken \/ pc[u] # "unseen" => u <= taken'
    BY <2>1, <1>t DEF TypeOK
  <2>. QED BY <2>1, <2>2, <1>t, OtherCounts
<1>. QED BY <1>1, <1>2, <1>3, <1>4, <1>5, <1>6 DEF Next, Handle

LEMMA InitCounts == Init => CountInv
<1>. SUFFICES ASSUME Init PROVE CountInv
  OBVIOUS
<1>1. counted = {} /\ judged = {} /\ \A c : Counted(c) = {}
  BY DEF Init, Counted, RepliesOf
<1>2. \A c \in User : Backed(c)
  BY <1>1, FS_EmptySet DEF Init, Backed
<1>3. TypeOK
  BY InitTypes
<1>. QED BY <1>1, <1>2, <1>3, FS_EmptySet DEF CountInv, BehindIt

\* A mute (ban) rests on MuteThreshold (BanThreshold) distinct replies that were
\* judged under the present binding, less the recounts by a later process and the
\* counts that an /unbind came before.
THEOREM JustifiedTheorem == Spec => PunishmentJustified
<1>. DEFINE Justified == \A u \in Update :
              Punishes(u) => Threshold(pc'[u]) <= Offences(u) + surplus'[Caller(u)]
<1>1. CountInv /\ [Next]_vars => [Justified]_pc
  <2>. SUFFICES ASSUME CountInv, [Next]_vars, NEW u \in Update, Punishes(u)
                PROVE  Threshold(pc'[u]) <= Offences(u) + surplus'[Caller(u)]
    OBVIOUS
  <2>. USE DataTypes
  <2>t. TypeOK /\ TypeOK' /\ CountInv'
    BY NextTypes, NextCounts DEF CountInv
  <2>1. Count(u)
    BY <2>t DEF Next, Handle, Punishes, Deliver, Classify, DeleteReply, DeleteFails, Count,
                CountNot, Punish, Confirm, Bind, Unbind, Restart, vars, program, Goto, TypeOK
  <2>2. violations'[Caller(u)] >= Threshold(pc'[u])
    <3>1. /\ violations'[Caller(u)] = violations[Caller(u)] + 1
          /\ pc'[u] = Penalty(violations[Caller(u)] + 1)
      BY <2>1, <2>t DEF Count, Goto, TypeOK
    <3>2. violations[Caller(u)] + 1 \in Nat
      BY <2>t DEF TypeOK
    <3>. QED BY <3>1, <3>2 DEF Penalty, Exceeds, Threshold, Punishes
  <2>3. Backed(Caller(u))' /\ judged' = judged
    BY <2>1, <2>t DEF Count, CountInv
  <2>4. /\ Cardinality(Counted(Caller(u))') \in Nat /\ Offences(u) \in Nat
        /\ Cardinality(Counted(Caller(u))') <= Offences(u)
    <3>1. IsFiniteSet(judged') /\ counted' \subseteq judged'
      BY <2>t DEF CountInv
    <3>2. Counted(Caller(u))' \subseteq RepliesOf(Caller(u), judged)
      BY <3>1, <2>3 DEF Counted, RepliesOf, Caller
    <3>3. IsFiniteSet(RepliesOf(Caller(u), judged))
      BY <3>1, <2>3, FS_Subset DEF RepliesOf
    <3>. QED BY <3>2, <3>3, FS_Subset, FS_CardinalityType DEF Offences
  <2>5. surplus'[Caller(u)] \in Nat /\ violations'[Caller(u)] \in Nat
    BY <2>t DEF TypeOK
  <2>6. Threshold(pc'[u]) \in Nat
    BY DEF Threshold
  <2>. QED BY <2>2, <2>3, <2>4, <2>5, <2>6 DEF Backed, Caller
<1>2. Spec => []CountInv
  BY InitCounts, NextCounts, PTL DEF Spec
<1>. QED BY <1>1, <1>2, PTL DEF Spec, PunishmentJustified
==============================================================================
