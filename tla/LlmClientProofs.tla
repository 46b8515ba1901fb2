--------------------------- MODULE LlmClientProofs ---------------------------
(***************************************************************************)
(* The properties of LlmClient, for any number of jobs, any budget, floor  *)
(* and limits, and any number of parallel calls and attempts.              *)
(***************************************************************************)
EXTENDS LlmClient, FiniteSetTheorems, TLAPS

(* The choices of FiniteSetsExt, for two integers.                         *)
LEMMA MaxOfTwo ==
  ASSUME NEW a \in Int, NEW b \in Int
  PROVE  Max({a, b}) = IF a >= b THEN a ELSE b
<1> DEFINE m == IF a >= b THEN a ELSE b
<1>1. m \in {a, b} /\ \A y \in {a, b} : m >= y
  OBVIOUS
<1>2. \A x \in {a, b} : (\A y \in {a, b} : x >= y) => x = m
  OBVIOUS
<1> QED
  BY <1>1, <1>2 DEF Max

LEMMA MinOfTwo ==
  ASSUME NEW a \in Int, NEW b \in Int
  PROVE  Min({a, b}) = IF a <= b THEN a ELSE b
<1> DEFINE m == IF a <= b THEN a ELSE b
<1>1. m \in {a, b} /\ \A y \in {a, b} : m <= y
  OBVIOUS
<1>2. \A x \in {a, b} : (\A y \in {a, b} : x <= y) => x = m
  OBVIOUS
<1> QED
  BY <1>1, <1>2 DEF Min

(* The clamp: within the limit, and above the floor only within the share. *)
LEMMA ClampBounds ==
  ASSUME NEW limit \in Nat, Floor <= limit, NEW left \in Int
  PROVE  /\ Clamp(limit, left) \in Nat
         /\ Clamp(limit, left) <= Floor \/ Clamp(limit, left) <= left
<1> USE ClientAssumption
<1>1. Max({Floor, left}) = IF Floor >= left THEN Floor ELSE left
  BY MaxOfTwo
<1>2. Clamp(limit, left) = IF limit <= Max({Floor, left}) THEN limit
                                                          ELSE Max({Floor, left})
  BY <1>1, MinOfTwo DEF Clamp
<1> QED
  BY <1>1, <1>2

(* The share of each of n calls: together they are told no more than is    *)
(* left.                                                                   *)
LEMMA ShareBounds ==
  ASSUME NEW j \in Jobs, used[j] \in Nat, NEW n \in Nat
  PROVE  /\ Share(j, n) \in Int
         /\ n >= 1 => n * Share(j, n) <= Budget - used[j]
<1> USE ClientAssumption
<1>1. Max({n, 1}) = IF n >= 1 THEN n ELSE 1
  BY MaxOfTwo
<1>2. Share(j, n) = (Budget - used[j]) \div (IF n >= 1 THEN n ELSE 1)
  BY <1>1 DEF Share
<1>3. \A x \in Int : \A d \in Nat \ {0} : x \div d \in Int /\ d * (x \div d) <= x
  BY SMT
<1> QED
  BY <1>2, <1>3

-----------------------------------------------------------------------------
(* A call has attempts left while it waits for one.                        *)
AttemptsLeft ==
  \A j \in Jobs : \A i \in DOMAIN call[j] :
    call[j][i].is = "ready" => call[j][i].attempts < MaxAttempts

(* One call of one job moves.                                              *)
LEMMA CallMoves ==
  ASSUME TypeOK, NEW j \in Jobs, NEW i \in DOMAIN call[j], NEW state \in Call,
         Become(j, i, state)
  PROVE  /\ DOMAIN call' = Jobs
         /\ \A k \in Jobs : DOMAIN call'[k] = DOMAIN call[k]
         /\ call'[j][i] = state
         /\ \A k \in Jobs : \A m \in DOMAIN call[k] :
              (k = j /\ m = i) \/ call'[k][m] = call[k][m]
         /\ \A k \in Jobs : \E n \in 0..MaxFan : call'[k] \in [1..n -> Call]
<1>1. call' = [call EXCEPT ![j] = [call[j] EXCEPT ![i] = state]]
  BY DEF Become
<1>2. DOMAIN call = Jobs
  BY DEF TypeOK
<1>3. call'[j] = [call[j] EXCEPT ![i] = state]
      /\ \A k \in Jobs \ {j} : call'[k] = call[k]
  BY <1>1, <1>2
<1>4. PICK n \in 0..MaxFan : call[j] \in [1..n -> Call]
  BY DEF TypeOK
<1>5. call'[j] \in [1..n -> Call]
  BY <1>3, <1>4
<1>6. \A k \in Jobs : \E p \in 0..MaxFan : call'[k] \in [1..p -> Call]
  <2> SUFFICES ASSUME NEW k \in Jobs
               PROVE  \E p \in 0..MaxFan : call'[k] \in [1..p -> Call]
    OBVIOUS
  <2>1. CASE k = j
    BY <2>1, <1>5
  <2>2. CASE k # j
    BY <2>2, <1>3 DEF TypeOK
  <2> QED
    BY <2>1, <2>2
<1>7. \A k \in Jobs : DOMAIN call'[k] = DOMAIN call[k]
  BY <1>3
<1>8. call'[j][i] = state /\ \A m \in DOMAIN call[j] \ {i} : call'[j][m] = call[j][m]
  BY <1>3, <1>4
<1> QED
  BY <1>1, <1>2, <1>3, <1>6, <1>7, <1>8

LEMMA CallHasType ==
  ASSUME TypeOK, NEW j \in Jobs, NEW i \in DOMAIN call[j]
  PROVE  call[j][i] \in Call
BY DEF TypeOK

(* A call that is over keeps nothing but how it ended.                     *)
LEMMA EndedCalls ==
  \A how \in Over : EndedCall(how) \in Call /\ EndedCall(how).is = how
<1>1. NewCall \in Call
  BY ClientAssumption DEF NewCall, Call, Guess, Names
<1> QED
  BY <1>1 DEF EndedCall, Over, Call

(* Every step of a call moves that call to one of the others.              *)
LEMMA CallStepMoves ==
  ASSUME TypeOK, AttemptsLeft, NEW j \in Jobs, NEW i \in DOMAIN call[j],
         CallStep(j, i)
  PROVE  \E state \in Call :
           /\ Become(j, i, state)
           /\ call[j][i].is \notin Over
           /\ state.is = "ready" => state.attempts < MaxAttempts
           /\ state.is \notin Over => UNCHANGED <<pending, billed>>
           /\ \/ UNCHANGED <<pending, billed>>
              \/ \E tokens \in {1, MaxInput + cap[j]} :
                   /\ billed' = [billed EXCEPT ![j] = @ + tokens]
                   /\ \/ pending' = [pending EXCEPT ![j] = @ + tokens]
                      \/ state.is = "unusable" /\ UNCHANGED pending
           /\ \/ learned' = learned
              \/ state.is \in Over /\ call[j][i].name \in accepted
                 /\ learned' = call[j][i].name
<1> USE ClientAssumption
<1>0. call[j][i] \in Call
  BY CallHasType
<1>1. CASE Send(j, i)
  <2> DEFINE state == [is |-> "first",
               name |-> IF learned = "none" THEN Guess ELSE learned,
               knew |-> learned # "none",
               attempts |-> call[j][i].attempts + 1]
  <2>1. call[j][i].attempts < MaxAttempts
    BY <1>1 DEF Send, AttemptsLeft
  <2>2. (learned # "none") \in BOOLEAN
    OBVIOUS
  <2>3. state \in Call
    BY <2>1, <2>2, <1>0 DEF Call, TypeOK, Guess, Names
  <2> QED
    BY <1>1, <2>3 DEF Send, Over
<1>2. CASE SwitchName(j, i)
  <2> DEFINE state == [call[j][i] EXCEPT !.is = "second", !.name = Other(@)]
  <2>1. state \in Call /\ state.is = "second"
    BY <1>0 DEF Call, Names, Other
  <2> QED
    BY <1>2, <2>1 DEF SwitchName, Over
<1>3. CASE Reply(j, i)
  <2>1. "returned" \in Over /\ "unusable" \in Over
    BY DEF Over
  <2> QED
    BY <1>3, <2>1, EndedCalls DEF Reply, Over
<1>4. CASE Interrupted(j, i)
  <2>1. [call[j][i] EXCEPT !.is = "ready"] \in Call
        /\ [call[j][i] EXCEPT !.is = "ready"].attempts = call[j][i].attempts
        /\ [call[j][i] EXCEPT !.is = "ready"].is = "ready"
    BY <1>0 DEF Call
  <2>2. "raised" \in Over
    BY DEF Over
  <2>3. CASE call[j][i].attempts < MaxAttempts
    BY <1>4, <2>1, <2>3 DEF Interrupted, Over
  <2>4. CASE ~(call[j][i].attempts < MaxAttempts)
    BY <1>4, <2>2, <2>4, EndedCalls DEF Interrupted, Over
  <2> QED
    BY <2>3, <2>4
<1>5. CASE Refused(j, i)
  <2>1. "raised" \in Over
    BY DEF Over
  <2> QED
    BY <1>5, <2>1, EndedCalls DEF Refused, Over
<1> QED
  BY <1>1, <1>2, <1>3, <1>4, <1>5 DEF CallStep

(* Every variable holds what its declaration says, and no call makes more  *)
(* attempts than it has.                                                   *)
TypeInv == TypeOK /\ AttemptsLeft

LEMMA TypeInvariant == Spec => []TypeInv
<1> USE ClientAssumption
<1>1. Init => TypeInv
  <2> SUFFICES ASSUME Init PROVE TypeInv
    OBVIOUS
  <2>1. \A j \in Jobs : call[j] \in [1..0 -> Call] /\ DOMAIN call[j] = {}
    BY DEF Init
  <2>2. 0 \in 0..MaxFan
    OBVIOUS
  <2>3. \A j \in Jobs : \E n \in 0..MaxFan : call[j] \in [1..n -> Call]
    BY <2>1, <2>2
  <2>4. AttemptsLeft
    BY <2>1 DEF AttemptsLeft
  <2>5. running \in [Jobs -> BOOLEAN] /\ DOMAIN call = Jobs
    BY DEF Init
  <2>6. /\ used \in [Jobs -> Nat] /\ cap \in [Jobs -> Nat]
        /\ pending \in [Jobs -> Nat] /\ made \in [Jobs -> Nat]
        /\ billed \in [Jobs -> Nat] /\ spoiled \in [Jobs -> Nat]
        /\ nodes \in 0..MaxNodes
    BY DEF Init
  <2>7. accepted \in (SUBSET Names) \ {{}} /\ learned \in Names \cup {"none"}
    BY DEF Init
  <2> QED
    BY <2>3, <2>4, <2>5, <2>6, <2>7 DEF TypeInv, TypeOK
<1>2. TypeInv /\ [Next]_vars => TypeInv'
  <2> SUFFICES ASSUME TypeInv, [Next]_vars PROVE TypeInv'
    OBVIOUS
  <2>t. TypeOK /\ AttemptsLeft
    BY DEF TypeInv
  <2>1. ASSUME NEW j \in Jobs, FinishNode(j) PROVE TypeInv'
    <3>1. DOMAIN call' = Jobs /\ call'[j] = <<>>
          /\ \A k \in Jobs \ {j} : call'[k] = call[k]
      BY <2>1, <2>t DEF FinishNode, TypeOK
    <3>2. call'[j] \in [1..0 -> Call] /\ 0 \in 0..MaxFan /\ DOMAIN call'[j] = {}
      BY <3>1
    <3>3. ASSUME NEW k \in Jobs
          PROVE  \E n \in 0..MaxFan : call'[k] \in [1..n -> Call]
      <4>1. CASE k = j
        BY <4>1, <3>2
      <4>2. CASE k # j
        BY <4>2, <3>1, <2>t DEF TypeOK
      <4> QED
        BY <4>1, <4>2
    <3>4. AttemptsLeft'
      BY <3>1, <3>2, <2>t DEF AttemptsLeft
    <3>5. /\ used' \in [Jobs -> Nat] /\ pending' \in [Jobs -> Nat]
          /\ cap' \in [Jobs -> Nat] /\ running' \in [Jobs -> BOOLEAN]
          /\ spoiled' \in [Jobs -> Nat]
      BY <2>1, <2>t DEF FinishNode, TypeOK
    <3> QED
      BY <2>1, <2>t, <3>1, <3>3, <3>4, <3>5 DEF FinishNode, TypeInv, TypeOK
  <2>2. ASSUME NEW j \in Jobs, NEW n \in 0..MaxFan, NEW limit \in Limits,
               StartNode(j, n, limit)
        PROVE  TypeInv'
    <3>1. DOMAIN call' = Jobs /\ call'[j] = [i \in 1..n |-> NewCall]
          /\ \A k \in Jobs \ {j} : call'[k] = call[k]
      BY <2>2, <2>t DEF StartNode, TypeOK
    <3>2. NewCall \in Call /\ NewCall.attempts < MaxAttempts
      BY DEF NewCall, Call, Guess, Names
    <3>3. ASSUME NEW k \in Jobs
          PROVE  \E m \in 0..MaxFan : call'[k] \in [1..m -> Call]
      <4>1. CASE k = j
        BY <4>1, <3>1, <3>2
      <4>2. CASE k # j
        BY <4>2, <3>1, <2>t DEF TypeOK
      <4> QED
        BY <4>1, <4>2
    <3>4. AttemptsLeft'
      BY <3>1, <3>2, <2>t DEF AttemptsLeft
    <3>5. Clamp(limit, Share(j, n)) \in Nat
      <4>1. used[j] \in Nat /\ n \in Nat /\ limit \in Nat /\ Floor <= limit
        BY <2>t DEF TypeOK
      <4>2. Share(j, n) \in Int
        BY <4>1, ShareBounds
      <4> QED
        BY <4>1, <4>2, ClampBounds
    <3>6. cap' \in [Jobs -> Nat] /\ made' \in [Jobs -> Nat] /\ nodes' \in 0..MaxNodes
      BY <2>2, <2>t, <3>5 DEF StartNode, TypeOK
    <3> QED
      BY <2>2, <2>t, <3>1, <3>3, <3>4, <3>6 DEF StartNode, TypeInv, TypeOK
  <2>3. ASSUME NEW j \in Jobs, NEW i \in DOMAIN call[j], CallStep(j, i)
        PROVE  TypeInv'
    <3>0. call[j][i] \in Call
      BY <2>t, CallHasType
    <3>1. PICK state \in Call :
            /\ Become(j, i, state)
            /\ state.is = "ready" => state.attempts < MaxAttempts
            /\ \/ UNCHANGED <<pending, billed>>
               \/ \E tokens \in {1, MaxInput + cap[j]} :
                    /\ billed' = [billed EXCEPT ![j] = @ + tokens]
                    /\ \/ pending' = [pending EXCEPT ![j] = @ + tokens]
                       \/ UNCHANGED pending
            /\ learned' = learned \/ learned' = call[j][i].name
      BY <2>3, <2>t, CallStepMoves
    <3>2. AttemptsLeft'
      BY <3>1, <2>t, CallMoves DEF AttemptsLeft
    <3>3. learned' \in Names \cup {"none"}
      BY <3>0, <3>1, <2>t DEF Call, TypeOK
    <3>4. pending' \in [Jobs -> Nat] /\ billed' \in [Jobs -> Nat]
      <4>1. pending \in [Jobs -> Nat] /\ billed \in [Jobs -> Nat]
        BY <2>t DEF TypeOK
      <4>2. \A tokens \in {1, MaxInput + cap[j]} :
              /\ [pending EXCEPT ![j] = @ + tokens] \in [Jobs -> Nat]
              /\ [billed EXCEPT ![j] = @ + tokens] \in [Jobs -> Nat]
        BY <2>t DEF TypeOK
      <4>3. CASE UNCHANGED <<pending, billed>>
        BY <4>1, <4>3
      <4>4. CASE ~UNCHANGED <<pending, billed>>
        <5>1. PICK tokens \in {1, MaxInput + cap[j]} :
                /\ billed' = [billed EXCEPT ![j] = @ + tokens]
                /\ \/ pending' = [pending EXCEPT ![j] = @ + tokens]
                   \/ UNCHANGED pending
          BY <3>1, <4>4
        <5> QED
          BY <4>1, <4>2, <5>1
      <4> QED
        BY <4>3, <4>4
    <3>5. UNCHANGED <<accepted, used, running, cap, nodes, made, spoiled>>
      BY <2>3 DEF CallStep, Send, SwitchName, Reply, Interrupted, Refused
    <3> QED
      BY <2>t, <3>1, <3>2, <3>3, <3>4, <3>5, CallMoves DEF TypeInv, TypeOK
  <2>4. CASE UNCHANGED vars
    BY <2>4, <2>t DEF vars, TypeInv, TypeOK, AttemptsLeft
  <2> QED
    BY <2>1, <2>2, <2>3, <2>4 DEF Next
<1> QED
  BY <1>1, <1>2, PTL DEF Spec

(* Every variable holds what its declaration says.                         *)
THEOREM TypeCorrect == Spec => []TypeOK
BY TypeInvariant, PTL DEF TypeInv

-----------------------------------------------------------------------------
(* However many calls learn the name at once, what they keep is a name the *)
(* server takes, and no call is refused for it twice.  The invariant is    *)
(* inductive with the types: a call that sends the learned name sends an   *)
(* accepted one, and of two names, one of them refused, the other is.      *)
THEOREM LearnedNamesWork == Spec => []LearnedNameWorks
<1> USE ClientAssumption
<1>1. Init => LearnedNameWorks
  BY DEF Init, LearnedNameWorks
<1>2. TypeInv /\ LearnedNameWorks /\ [Next]_vars => LearnedNameWorks'
  <2> SUFFICES ASSUME TypeInv, LearnedNameWorks, [Next]_vars
               PROVE  LearnedNameWorks'
    OBVIOUS
  <2>t. TypeOK
    BY DEF TypeInv
  <2>1. ASSUME NEW j \in Jobs, FinishNode(j) PROVE LearnedNameWorks'
    <3>1. DOMAIN call'[j] = {} /\ \A k \in Jobs \ {j} : call'[k] = call[k]
      BY <2>1, <2>t DEF FinishNode, TypeOK
    <3> QED
      BY <2>1, <3>1 DEF FinishNode, LearnedNameWorks
  <2>2. ASSUME NEW j \in Jobs, NEW n \in 0..MaxFan, NEW limit \in Limits,
               StartNode(j, n, limit)
        PROVE  LearnedNameWorks'
    <3>1. call'[j] = [i \in 1..n |-> NewCall]
          /\ \A k \in Jobs \ {j} : call'[k] = call[k]
      BY <2>2, <2>t DEF StartNode, TypeOK
    <3> QED
      BY <2>2, <3>1 DEF StartNode, LearnedNameWorks, NewCall
  <2>c. ASSUME NEW j \in Jobs, NEW i \in DOMAIN call[j], NEW state \in Call,
               Become(j, i, state), accepted' = accepted,
               learned' \in accepted \cup {"none"},
               state.is \in {"first", "second"} /\ state.name \notin accepted
                 => state.is = "first" /\ ~state.knew
        PROVE  LearnedNameWorks'
    BY <2>c, <2>t, CallMoves DEF LearnedNameWorks
  <2>3. ASSUME NEW j \in Jobs, NEW i \in DOMAIN call[j], CallStep(j, i)
        PROVE  LearnedNameWorks'
    <3>1. call[j][i] \in Call /\ learned \in accepted \cup {"none"}
      BY <2>t, CallHasType DEF LearnedNameWorks
    <3>2. CASE Send(j, i)
      <4> DEFINE state == [is |-> "first",
                   name |-> IF learned = "none" THEN Guess ELSE learned,
                   knew |-> learned # "none",
                   attempts |-> call[j][i].attempts + 1]
      <4>1. call[j][i].attempts < MaxAttempts
        BY <3>2 DEF Send, TypeInv, AttemptsLeft
      <4>2. (learned # "none") \in BOOLEAN
        OBVIOUS
      <4>3. state \in Call
        BY <4>1, <4>2, <3>1, <2>t DEF Call, TypeOK, Guess, Names
      <4>4. state.name \notin accepted => ~state.knew
        BY <3>1
      <4> QED
        BY <3>2, <3>1, <4>3, <4>4, <2>c DEF Send
    <3>3. CASE SwitchName(j, i)
      <4> DEFINE state == [call[j][i] EXCEPT !.is = "second", !.name = Other(@)]
      <4>1. state \in Call
        BY <3>1 DEF Call, Names, Other
      <4>2. state.name \in accepted
        <5>1. call[j][i].name \in Names \ accepted
          BY <3>3, <3>1 DEF SwitchName, Call
        <5>2. Other(call[j][i].name) \in accepted
          <6>1. PICK name \in accepted : name \in Names
            BY <2>t DEF TypeOK
          <6>2. name # call[j][i].name
            BY <5>1
          <6>3. \A a, b \in Names : a # b => Other(a) = b
            BY DEF Names, Other
          <6> QED
            BY <5>1, <6>1, <6>2, <6>3
        <5>3. state.name = Other(call[j][i].name)
          BY <3>1 DEF Call
        <5> QED
          BY <5>2, <5>3
      <4>3. /\ Become(j, i, state)
            /\ accepted' = accepted /\ learned' = learned
        BY <3>3 DEF SwitchName
      <4> HIDE DEF state
      <4> QED
        BY <3>1, <4>1, <4>2, <4>3, <2>c
    <3>4. CASE Reply(j, i)
      <4>1. PICK s \in {"returned", "unusable"} : Become(j, i, EndedCall(s))
        BY <3>4 DEF Reply
      <4>2. EndedCall(s) \in Call /\ EndedCall(s).is = s
        BY <4>1, EndedCalls DEF Over
      <4>3. learned' \in accepted /\ accepted' = accepted
        BY <3>4 DEF Reply
      <4> QED
        BY <4>1, <4>2, <4>3, <2>c
    <3>5. CASE Interrupted(j, i)
      <4>1. [call[j][i] EXCEPT !.is = "ready"] \in Call
            /\ [call[j][i] EXCEPT !.is = "ready"].is = "ready"
        BY <3>1 DEF Call
      <4>2. EndedCall("raised") \in Call /\ EndedCall("raised").is = "raised"
        BY EndedCalls DEF Over
      <4>3. accepted' = accepted /\ learned' = learned
        BY <3>5 DEF Interrupted
      <4>4. CASE call[j][i].attempts < MaxAttempts
        BY <3>5, <3>1, <4>1, <4>3, <4>4, <2>c DEF Interrupted
      <4>5. CASE ~(call[j][i].attempts < MaxAttempts)
        BY <3>5, <3>1, <4>2, <4>3, <4>5, <2>c DEF Interrupted
      <4> QED
        BY <4>4, <4>5
    <3>6. CASE Refused(j, i)
      <4>1. EndedCall("raised") \in Call /\ EndedCall("raised").is = "raised"
        BY EndedCalls DEF Over
      <4> QED
        BY <3>6, <3>1, <4>1, <2>c DEF Refused
    <3> QED
      BY <2>3, <3>2, <3>3, <3>4, <3>5, <3>6 DEF CallStep
  <2>4. CASE UNCHANGED vars
    BY <2>4 DEF vars, LearnedNameWorks
  <2> QED
    BY <2>1, <2>2, <2>3, <2>4 DEF Next
<1> QED
  BY <1>1, <1>2, TypeInvariant, PTL DEF Spec

-----------------------------------------------------------------------------
(* The calls of a node that are not over.                                  *)
Open(j) == {i \in DOMAIN call[j] : call[j][i].is \notin Over}

(* What those may still cost, and the overdraft the calls made account for.*)
Worst(j) == Cardinality(Open(j)) * (MaxInput + cap[j])
Slack(j) == made[j] * (MaxInput + Floor)

(* What the calls under way may still cost is within both bounds already;  *)
(* until one of their replies cannot be parsed the bill is ahead of the    *)
(* account by what the spoiled nodes lost, a budget each; and a job whose  *)
(* node has been charged has no call left.                                 *)
MoneyFits(j) ==
  /\ used[j] + pending[j] + Worst(j) <= Budget + Slack(j)
  /\ billed[j] + Worst(j) <= Budget + Budget * spoiled[j] + Slack(j)
  /\ ~Spoilt(j) =>
       billed[j] <= used[j] + pending[j] + Budget * spoiled[j] + Slack(j)
  /\ ~running[j] => pending[j] = 0 /\ DOMAIN call[j] = {}

MoneyInv == \A j \in Jobs : MoneyFits(j)

LEMMA OpenIsFinite ==
  ASSUME TypeOK, NEW j \in Jobs
  PROVE  IsFiniteSet(Open(j)) /\ Cardinality(Open(j)) \in Nat
<1>1. PICK n \in 0..MaxFan : call[j] \in [1..n -> Call]
  BY DEF TypeOK
<1>2. IsFiniteSet(1..n)
  BY ClientAssumption, FS_Interval
<1>3. Open(j) \subseteq 1..n
  BY <1>1 DEF Open
<1> QED
  BY <1>2, <1>3, FS_Subset, FS_CardinalityType

LEMMA Amounts ==
  ASSUME TypeOK, NEW j \in Jobs
  PROVE  /\ used[j] \in Nat /\ pending[j] \in Nat /\ made[j] \in Nat
         /\ billed[j] \in Nat /\ spoiled[j] \in Nat
         /\ cap[j] \in Nat /\ MaxInput + cap[j] \in Nat
         /\ Worst(j) \in Nat /\ Slack(j) \in Nat
         /\ Budget \in Nat /\ Budget * spoiled[j] \in Nat
<1>1. /\ used[j] \in Nat /\ pending[j] \in Nat /\ made[j] \in Nat
      /\ cap[j] \in Nat /\ billed[j] \in Nat /\ spoiled[j] \in Nat
  BY DEF TypeOK
<1>2. \A a \in Nat, b \in Nat : a * b \in Nat
  OBVIOUS
<1>3. MaxInput + cap[j] \in Nat /\ MaxInput + Floor \in Nat /\ Budget \in Nat
  BY <1>1, ClientAssumption
<1>4. Slack(j) \in Nat
  BY <1>1, <1>2, <1>3 DEF Slack
<1>5. Worst(j) \in Nat
  BY <1>2, <1>3, OpenIsFinite DEF Worst
<1>6. Budget * spoiled[j] \in Nat
  BY <1>1, <1>2, <1>3
<1> QED
  BY <1>1, <1>3, <1>4, <1>5, <1>6

(* A job none of whose variables moves stays as it is.                     *)
LEMMA OtherJob ==
  ASSUME MoneyInv, NEW k \in Jobs,
         used'[k] = used[k], pending'[k] = pending[k], cap'[k] = cap[k],
         made'[k] = made[k], billed'[k] = billed[k],
         spoiled'[k] = spoiled[k], running'[k] = running[k],
         DOMAIN call'[k] = DOMAIN call[k],
         \A m \in DOMAIN call[k] : call'[k][m] = call[k][m]
  PROVE  MoneyFits(k)'
<1>1. Open(k)' = Open(k)
  BY DEF Open
<1>2. Spoilt(k)' = Spoilt(k)
  BY DEF Spoilt
<1>3. Worst(k)' = Worst(k) /\ Slack(k)' = Slack(k)
  BY <1>1 DEF Worst, Slack
<1>4. MoneyFits(k)
  BY DEF MoneyInv
<1> QED
  BY <1>2, <1>3, <1>4 DEF MoneyFits

(* A node that starts: whatever was told to its calls, together they get   *)
(* the floor each, or no more than what the account has left.              *)
LEMMA StartCosts ==
  ASSUME NEW n \in Nat, NEW u \in Nat, NEW c \in Nat, NEW s \in Int,
         c <= Floor \/ c <= s, n >= 1 => n * s <= Budget - u
  PROVE  \/ n * (MaxInput + c) <= n * (MaxInput + Floor)
         \/ n * (MaxInput + c) <= n * (MaxInput + Floor) + Budget - u
<1> USE ClientAssumption
<1>1. n * (MaxInput + c) = n * MaxInput + n * c
      /\ n * (MaxInput + Floor) = n * MaxInput + n * Floor
  BY SMT
<1>2. n * MaxInput \in Nat /\ n * Floor \in Nat /\ n * c \in Nat /\ n * s \in Int
  BY SMT
<1>3. CASE n = 0
  BY <1>3
<1>4. CASE n >= 1 /\ c <= Floor
  <2>1. n * c <= n * Floor
    BY <1>4, SMT
  <2> QED
    BY <2>1, <1>1, <1>2
<1>5. CASE n >= 1 /\ c <= s
  <2>1. n * c <= n * s
    BY <1>5, SMT
  <2> QED
    BY <2>1, <1>5, <1>1, <1>2
<1> QED
  BY <1>3, <1>4, <1>5

(* A call that is over has cost no more than the worst of an open one.     *)
LEMMA OneLess ==
  ASSUME NEW n \in Nat, n >= 1, NEW each \in Nat, NEW tokens \in Nat,
         tokens <= each
  PROVE  tokens + (n - 1) * each <= n * each
<1>1. (n - 1) * each = n * each - each
  OBVIOUS
<1>2. n * each \in Nat
  OBVIOUS
<1> QED
  BY <1>1, <1>2

-----------------------------------------------------------------------------
LEMMA FinishKeepsMoney ==
  ASSUME TypeInv, TypeInv', MoneyInv, NEW j \in Jobs, FinishNode(j)
  PROVE  MoneyFits(j)'
<1>t. TypeOK /\ TypeOK'
  BY DEF TypeInv
<1>1. call'[j] = <<>> /\ DOMAIN call'[j] = {}
  BY <1>t DEF FinishNode, TypeOK
<1>2. Open(j)' = {} /\ ~Spoilt(j)'
  BY <1>1 DEF Open, Spoilt
<1>3. Worst(j)' = 0
  <2>1. Cardinality(Open(j)') = 0
    BY <1>2, FS_EmptySet
  <2>2. (MaxInput + cap[j])' \in Nat
    BY <1>t, ClientAssumption DEF TypeOK
  <2> QED
    BY <2>1, <2>2 DEF Worst
<1>4. /\ used'[j] = used[j] + pending[j] /\ pending'[j] = 0
      /\ made'[j] = made[j] /\ billed'[j] = billed[j]
      /\ spoiled'[j] = IF Spoilt(j) THEN spoiled[j] + 1 ELSE spoiled[j]
  BY <1>t DEF FinishNode, TypeOK
<1>5. Slack(j)' = Slack(j)
  BY <1>4 DEF Slack
<1>6. (Budget * spoiled[j])' = IF Spoilt(j) THEN Budget * spoiled[j] + Budget
                                            ELSE Budget * spoiled[j]
  <2>1. spoiled[j] \in Nat /\ Budget \in Nat
    BY <1>t, Amounts
  <2>2. Budget * (spoiled[j] + 1) = Budget * spoiled[j] + Budget
    BY <2>1
  <2> QED
    BY <1>4, <2>2
<1>7. MoneyFits(j)
  BY DEF MoneyInv
<1>8. /\ used[j] \in Nat /\ pending[j] \in Nat /\ billed[j] \in Nat
      /\ Worst(j) \in Nat /\ Slack(j) \in Nat
      /\ Budget \in Nat /\ Budget * spoiled[j] \in Nat
  BY <1>t, Amounts
<1>9. used'[j] + pending'[j] + Worst(j)' <= Budget + Slack(j)'
  BY <1>3, <1>4, <1>5, <1>7, <1>8 DEF MoneyFits
<1>10. billed'[j] + Worst(j)' <= Budget + (Budget * spoiled[j])' + Slack(j)'
  BY <1>3, <1>4, <1>5, <1>6, <1>7, <1>8 DEF MoneyFits
<1>11. billed'[j] <= used'[j] + pending'[j] + (Budget * spoiled[j])' + Slack(j)'
  BY <1>4, <1>5, <1>6, <1>7, <1>8 DEF MoneyFits
<1> QED
  BY <1>1, <1>4, <1>9, <1>10, <1>11 DEF MoneyFits

LEMMA StartKeepsMoney ==
  ASSUME TypeInv, TypeInv', MoneyInv, NEW j \in Jobs, NEW n \in 0..MaxFan,
         NEW limit \in Limits, StartNode(j, n, limit)
  PROVE  MoneyFits(j)'
<1> USE ClientAssumption
<1> DEFINE c == Clamp(limit, Share(j, n))
           each == MaxInput + Floor
<1>t. TypeOK /\ TypeOK'
  BY DEF TypeInv
<1>1. call'[j] = [i \in 1..n |-> NewCall]
  BY <1>t DEF StartNode, TypeOK
<1>2. Open(j)' = 1..n /\ ~Spoilt(j)'
  BY <1>1 DEF Open, Spoilt, NewCall, Over
<1>3. Cardinality(Open(j)') = n
  BY <1>2, FS_Interval
<1>4. /\ used'[j] = used[j] /\ pending'[j] = pending[j] /\ running'[j]
      /\ cap'[j] = c /\ made'[j] = made[j] + n
      /\ billed'[j] = billed[j] /\ spoiled'[j] = spoiled[j] /\ ~running[j]
  BY <1>t DEF StartNode, TypeOK
<1>5. /\ used[j] \in Nat /\ made[j] \in Nat /\ n \in Nat
      /\ limit \in Nat /\ Floor <= limit
  BY <1>t DEF TypeOK
<1>6. Share(j, n) \in Int /\ (n >= 1 => n * Share(j, n) <= Budget - used[j])
  BY <1>5, ShareBounds
<1>7. c \in Nat /\ (c <= Floor \/ c <= Share(j, n))
  BY <1>5, <1>6, ClampBounds
<1>8. Worst(j)' = n * (MaxInput + c)
  BY <1>3, <1>4 DEF Worst
<1>9. Slack(j)' = Slack(j) + n * each
  <2>1. (made[j] + n) * each = made[j] * each + n * each
    BY <1>5
  <2> QED
    BY <1>4, <2>1 DEF Slack
<1>10. \/ n * (MaxInput + c) <= n * each
       \/ n * (MaxInput + c) <= n * each + Budget - used[j]
  <2> HIDE DEF c
  <2> QED
    BY <1>5, <1>6, <1>7, StartCosts
<1>11. n * (MaxInput + c) \in Nat /\ n * each \in Nat
  <2>1. MaxInput + c \in Nat /\ each \in Nat
    BY <1>7
  <2>2. \A a, b \in Nat : a * b \in Nat
    OBVIOUS
  <2> HIDE DEF c, each
  <2> QED
    BY <1>5, <2>1, <2>2
<1>12. /\ pending[j] = 0 /\ ~Spoilt(j)
       /\ used[j] + Worst(j) <= Budget + Slack(j)
       /\ billed[j] + Worst(j) <= Budget + Budget * spoiled[j] + Slack(j)
       /\ billed[j] <= used[j] + Budget * spoiled[j] + Slack(j)
  <2>1. MoneyFits(j)
    BY DEF MoneyInv
  <2>2. pending[j] = 0 /\ ~Spoilt(j)
    BY <1>4, <2>1 DEF MoneyFits, Spoilt
  <2> QED
    BY <1>5, <2>1, <2>2 DEF MoneyFits
<1>13. /\ billed[j] \in Nat /\ Worst(j) \in Nat /\ Slack(j) \in Nat
       /\ Budget \in Nat /\ Budget * spoiled[j] \in Nat
  BY <1>t, Amounts
<1>14. Budget * spoiled[j] = (Budget * spoiled[j])'
  BY <1>4
<1> HIDE DEF c, each
<1>15. used'[j] + pending'[j] + Worst(j)' <= Budget + Slack(j)'
  BY <1>4, <1>5, <1>8, <1>9, <1>10, <1>11, <1>12, <1>13
<1>16. billed'[j] + Worst(j)' <= Budget + (Budget * spoiled[j])' + Slack(j)'
  BY <1>4, <1>5, <1>8, <1>9, <1>10, <1>11, <1>12, <1>13, <1>14
<1>17. billed'[j] <= used'[j] + pending'[j] + (Budget * spoiled[j])' + Slack(j)'
  BY <1>4, <1>5, <1>9, <1>11, <1>12, <1>13, <1>14
<1> QED
  BY <1>4, <1>15, <1>16, <1>17 DEF MoneyFits

LEMMA CallKeepsMoney ==
  ASSUME TypeInv, TypeInv', MoneyInv, NEW j \in Jobs, NEW i \in DOMAIN call[j],
         CallStep(j, i)
  PROVE  MoneyInv'
<1> USE ClientAssumption
<1>t. TypeOK /\ AttemptsLeft
  BY DEF TypeInv
<1>1. PICK state \in Call :
        /\ Become(j, i, state)
        /\ call[j][i].is \notin Over
        /\ state.is \notin Over => UNCHANGED <<pending, billed>>
        /\ \/ UNCHANGED <<pending, billed>>
           \/ \E tokens \in {1, MaxInput + cap[j]} :
                /\ billed' = [billed EXCEPT ![j] = @ + tokens]
                /\ \/ pending' = [pending EXCEPT ![j] = @ + tokens]
                   \/ state.is = "unusable" /\ UNCHANGED pending
  BY <1>t, CallStepMoves
<1>2. UNCHANGED <<used, cap, running, made, spoiled>>
  BY DEF CallStep, Send, SwitchName, Reply, Interrupted, Refused
<1>3. /\ \A k \in Jobs : DOMAIN call'[k] = DOMAIN call[k]
      /\ call'[j][i] = state
      /\ \A k \in Jobs : \A m \in DOMAIN call[k] :
           (k = j /\ m = i) \/ call'[k][m] = call[k][m]
  BY <1>t, <1>1, CallMoves
<1>4. ASSUME NEW k \in Jobs \ {j} PROVE MoneyFits(k)'
  <2>1. pending'[k] = pending[k] /\ billed'[k] = billed[k]
    <3>1. CASE UNCHANGED <<pending, billed>>
      BY <3>1
    <3>2. CASE ~UNCHANGED <<pending, billed>>
      <4>1. pending \in [Jobs -> Nat] /\ billed \in [Jobs -> Nat]
        BY <1>t DEF TypeOK
      <4>2. PICK tokens \in {1, MaxInput + cap[j]} :
              /\ billed' = [billed EXCEPT ![j] = @ + tokens]
              /\ \/ pending' = [pending EXCEPT ![j] = @ + tokens]
                 \/ UNCHANGED pending
        BY <1>1, <3>2
      <4> QED
        BY <4>1, <4>2
    <3> QED
      BY <3>1, <3>2
  <2>2. /\ used'[k] = used[k] /\ cap'[k] = cap[k] /\ made'[k] = made[k]
        /\ spoiled'[k] = spoiled[k] /\ running'[k] = running[k]
    BY <1>2
  <2>3. \A m \in DOMAIN call[k] : call'[k][m] = call[k][m]
    BY <1>3
  <2> QED
    BY <1>3, <2>1, <2>2, <2>3, OtherJob
<1>5. MoneyFits(j)'
  <2> DEFINE each == MaxInput + cap[j]
             open == Cardinality(Open(j))
  <2>1. PICK t \in Nat :
          /\ t <= each
          /\ billed'[j] = billed[j] + t
          /\ \/ pending'[j] = pending[j] + t
             \/ pending'[j] = pending[j] /\ state.is = "unusable"
          /\ state.is \notin Over => t = 0
    <3>1. pending \in [Jobs -> Nat] /\ billed \in [Jobs -> Nat] /\ cap[j] \in Nat
      BY <1>t DEF TypeOK
    <3>2. CASE UNCHANGED <<pending, billed>>
      <4>1. 0 <= each /\ billed'[j] = billed[j] + 0 /\ pending'[j] = pending[j] + 0
        BY <3>1, <3>2
      <4> QED
        BY <4>1
    <3>3. CASE ~UNCHANGED <<pending, billed>>
      <4>1. PICK tokens \in {1, MaxInput + cap[j]} :
              /\ billed' = [billed EXCEPT ![j] = @ + tokens]
              /\ \/ pending' = [pending EXCEPT ![j] = @ + tokens]
                 \/ state.is = "unusable" /\ UNCHANGED pending
        BY <1>1, <3>3
      <4>2. tokens \in Nat /\ tokens <= each
        BY <3>1
      <4>3. state.is \in Over
        BY <1>1, <3>3
      <4>4. /\ billed'[j] = billed[j] + tokens
            /\ \/ pending'[j] = pending[j] + tokens
               \/ pending'[j] = pending[j] /\ state.is = "unusable"
        BY <3>1, <4>1
      <4> QED
        BY <4>2, <4>3, <4>4
    <3> QED
      BY <3>2, <3>3
  <2>2. /\ i \in Open(j)
        /\ Open(j)' = IF state.is \in Over THEN Open(j) \ {i} ELSE Open(j)
    BY <1>1, <1>3 DEF Open
  <2>3. /\ Spoilt(j) => Spoilt(j)'
        /\ state.is = "unusable" => Spoilt(j)'
    <3>1. call[j][i].is # "unusable"
      BY <1>1 DEF Over
    <3> QED
      BY <1>3, <3>1 DEF Spoilt
  <2>4. /\ IsFiniteSet(Open(j)) /\ open \in Nat /\ open >= 1
        /\ Cardinality(Open(j) \ {i}) = open - 1
    <3>1. IsFiniteSet(Open(j)) /\ open \in Nat
      BY <1>t, OpenIsFinite
    <3>2. Cardinality(Open(j) \ {i}) = open - 1 /\ IsFiniteSet(Open(j) \ {i})
      BY <3>1, <2>2, FS_RemoveElement
    <3>3. Cardinality(Open(j) \ {i}) \in Nat
      BY <3>2, FS_CardinalityType
    <3> QED
      BY <3>1, <3>2, <3>3
  <2>5. /\ used[j] \in Nat /\ pending[j] \in Nat /\ billed[j] \in Nat
        /\ each \in Nat /\ Worst(j) \in Nat /\ Slack(j) \in Nat
        /\ Budget \in Nat /\ Budget * spoiled[j] \in Nat
    BY <1>t, Amounts
  <2>6. t + Worst(j)' <= Worst(j) /\ Worst(j)' \in Int
    <3>1. Worst(j)' = Cardinality(Open(j)') * each /\ Worst(j) = open * each
      BY <1>2 DEF Worst
    <3>2. CASE state.is \in Over
      <4>1. t + (open - 1) * each <= open * each
        <5> HIDE DEF each, open
        <5> QED
          BY <2>1, <2>4, <2>5, OneLess
      <4>2. Worst(j)' = (open - 1) * each
        BY <2>2, <2>4, <3>1, <3>2
      <4>3. (open - 1) * each \in Int
        <5> HIDE DEF each, open
        <5> QED
          BY <2>4, <2>5
      <4> QED
        BY <3>1, <4>1, <4>2, <4>3
    <3>3. CASE state.is \notin Over
      <4>1. t = 0 /\ Worst(j)' = Worst(j)
        BY <2>1, <2>2, <3>1, <3>3
      <4> QED
        BY <2>5, <4>1
    <3> QED
      BY <3>2, <3>3
  <2>7. /\ Slack(j)' = Slack(j) /\ used'[j] = used[j]
        /\ (Budget * spoiled[j])' = Budget * spoiled[j]
        /\ running'[j] = running[j]
    BY <1>2 DEF Slack
  <2>8. MoneyFits(j) /\ running[j]
    BY DEF MoneyInv, MoneyFits
  <2> HIDE DEF each, open
  <2>9. pending'[j] \in Nat /\ pending'[j] <= pending[j] + t
    BY <2>1, <2>5
  <2>10. used'[j] + pending'[j] + Worst(j)' <= Budget + Slack(j)'
    BY <2>1, <2>5, <2>6, <2>7, <2>8, <2>9 DEF MoneyFits
  <2>11. billed'[j] + Worst(j)' <= Budget + (Budget * spoiled[j])' + Slack(j)'
    BY <2>1, <2>5, <2>6, <2>7, <2>8 DEF MoneyFits
  <2>12. ~Spoilt(j)' =>
           billed'[j] <= used'[j] + pending'[j] + (Budget * spoiled[j])' + Slack(j)'
    BY <2>1, <2>3, <2>5, <2>7, <2>8 DEF MoneyFits
  <2> QED
    BY <2>7, <2>8, <2>10, <2>11, <2>12 DEF MoneyFits
<1> QED
  BY <1>4, <1>5 DEF MoneyInv

LEMMA MoneyInvariant == Spec => [](TypeOK /\ MoneyInv)
<1> USE ClientAssumption
<1>1. Init => MoneyInv
  <2> SUFFICES ASSUME Init, NEW j \in Jobs PROVE MoneyFits(j)
    BY DEF MoneyInv
  <2>1. Open(j) = {} /\ DOMAIN call[j] = {} /\ ~Spoilt(j)
    BY DEF Init, Open, Spoilt
  <2>2. Cardinality(Open(j)) = 0
    BY <2>1, FS_EmptySet
  <2>3. /\ used[j] = 0 /\ pending[j] = 0 /\ cap[j] = 0 /\ made[j] = 0
        /\ billed[j] = 0 /\ spoiled[j] = 0
    BY DEF Init
  <2>4. Worst(j) = 0 /\ Slack(j) = 0 /\ Budget * spoiled[j] = 0
    BY <2>2, <2>3 DEF Worst, Slack
  <2> QED
    BY <2>1, <2>3, <2>4 DEF MoneyFits
<1>2. TypeInv /\ TypeInv' /\ MoneyInv /\ [Next]_vars => MoneyInv'
  <2> SUFFICES ASSUME TypeInv, TypeInv', MoneyInv, [Next]_vars PROVE MoneyInv'
    OBVIOUS
  <2>t. TypeOK
    BY DEF TypeInv
  <2>1. ASSUME NEW j \in Jobs, FinishNode(j) PROVE MoneyInv'
    <3>1. ASSUME NEW k \in Jobs \ {j} PROVE MoneyFits(k)'
      <4>1. /\ used'[k] = used[k] /\ pending'[k] = pending[k]
            /\ cap'[k] = cap[k] /\ made'[k] = made[k]
            /\ billed'[k] = billed[k] /\ spoiled'[k] = spoiled[k]
            /\ running'[k] = running[k] /\ call'[k] = call[k]
        BY <2>1, <2>t DEF FinishNode, TypeOK
      <4> QED
        BY <4>1, OtherJob
    <3> QED
      BY <2>1, <3>1, FinishKeepsMoney DEF MoneyInv
  <2>2. ASSUME NEW j \in Jobs, NEW n \in 0..MaxFan, NEW limit \in Limits,
               StartNode(j, n, limit)
        PROVE  MoneyInv'
    <3>1. ASSUME NEW k \in Jobs \ {j} PROVE MoneyFits(k)'
      <4>1. /\ used'[k] = used[k] /\ pending'[k] = pending[k]
            /\ cap'[k] = cap[k] /\ made'[k] = made[k]
            /\ billed'[k] = billed[k] /\ spoiled'[k] = spoiled[k]
            /\ running'[k] = running[k] /\ call'[k] = call[k]
        BY <2>2, <2>t DEF StartNode, TypeOK
      <4> QED
        BY <4>1, OtherJob
    <3> QED
      BY <2>2, <3>1, StartKeepsMoney DEF MoneyInv
  <2>3. ASSUME NEW j \in Jobs, NEW i \in DOMAIN call[j], CallStep(j, i)
        PROVE  MoneyInv'
    BY <2>3, CallKeepsMoney
  <2>4. CASE UNCHANGED vars
    <3>1. ASSUME NEW k \in Jobs PROVE MoneyFits(k)'
      BY <2>4, OtherJob DEF vars
    <3> QED
      BY <3>1 DEF MoneyInv
  <2> QED
    BY <2>1, <2>2, <2>3, <2>4 DEF Next
<1>3. TypeInv => TypeOK
  BY DEF TypeInv
<1> QED
  BY <1>1, <1>2, <1>3, TypeInvariant, PTL DEF Spec

(* Parallel calls that were all told of the same remainder overdraw it by  *)
(* no more than their prompts and the floor.                               *)
THEOREM OverrunStaysBounded == Spec => []OverrunIsBounded
<1>1. TypeOK /\ MoneyInv => OverrunIsBounded
  <2> SUFFICES ASSUME TypeOK, MoneyInv, NEW j \in Jobs
               PROVE  used[j] + pending[j] <= Budget + Slack(j)
    BY DEF OverrunIsBounded, Slack
  <2>1. MoneyFits(j)
    BY DEF MoneyInv
  <2> QED
    BY <2>1, Amounts DEF MoneyFits
<1> QED
  BY <1>1, MoneyInvariant, PTL

(* However many replies of a node cannot be parsed, paid for and charged   *)
(* to nobody, they cost the job one more budget at most.                   *)
THEOREM BillStaysBounded == Spec => []BillIsBounded
<1>1. TypeOK /\ MoneyInv => BillIsBounded
  <2> SUFFICES ASSUME TypeOK, MoneyInv, NEW j \in Jobs
               PROVE  billed[j] <= Budget * (1 + spoiled[j]) + Slack(j)
    BY DEF BillIsBounded, Slack
  <2>1. MoneyFits(j)
    BY DEF MoneyInv
  <2>2. Budget * (1 + spoiled[j]) = Budget + Budget * spoiled[j]
    BY Amounts
  <2> QED
    BY <2>1, <2>2, Amounts DEF MoneyFits
<1> QED
  BY <1>1, MoneyInvariant, PTL
=============================================================================
