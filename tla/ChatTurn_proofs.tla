---------------------------- MODULE ChatTurn_proofs ----------------------------
(***************************************************************************)
(* Theorems about ChatTurn, for every set of requests and keys.            *)
(***************************************************************************)
EXTENDS ChatTurn, FiniteSetTheorems, TLAPS

(***************************************************************************)
(* Prices and sums: what SpendLedger's reads make of one more step.        *)
(***************************************************************************)

\* CeilingPrice is the least integer whose thousandfold reaches the product.
LEMMA CeilingPriceBounds ==
  ASSUME NEW n \in Nat, NEW p \in Nat
  PROVE  /\ CeilingPrice(n, p) \in Nat
         /\ n * p <= 1000 * CeilingPrice(n, p)
         /\ 1000 * CeilingPrice(n, p) < n * p + 1000
<1> DEFINE x == n * p
<1>1. x \in Nat
  OBVIOUS
<1> HIDE DEF x
<1>2. /\ -((-x) \div 1000) \in Nat
      /\ x <= 1000 * (-((-x) \div 1000))
      /\ 1000 * (-((-x) \div 1000)) < x + 1000
  BY <1>1, SMT
<1>3. CeilingPrice(n, p) = -((-x) \div 1000)
  BY DEF CeilingPrice, x
<1> QED
  BY <1>2, <1>3 DEF x

\* Fewer tokens never cost more.
LEMMA CeilingPriceMonotone ==
  ASSUME NEW m \in Nat, NEW n \in Nat, NEW p \in Nat, m <= n
  PROVE  CeilingPrice(m, p) <= CeilingPrice(n, p)
<1>1. m * p <= n * p
  BY SMT
<1>2. m * p \in Nat /\ n * p \in Nat
  OBVIOUS
<1>3. CeilingPrice(m, p) \in Nat /\ 1000 * CeilingPrice(m, p) < m * p + 1000
  BY CeilingPriceBounds
<1>4. CeilingPrice(n, p) \in Nat /\ n * p <= 1000 * CeilingPrice(n, p)
  BY CeilingPriceBounds
<1> QED
  BY <1>1, <1>2, <1>3, <1>4, SMT

\* Rounding up once costs no more than rounding up twice.
LEMMA CeilingPriceSubadditive ==
  ASSUME NEW m \in Nat, NEW n \in Nat, NEW p \in Nat
  PROVE  CeilingPrice(m + n, p) <= CeilingPrice(m, p) + CeilingPrice(n, p)
<1>1. (m + n) * p = m * p + n * p
  BY SMT
<1>2. m * p \in Nat /\ n * p \in Nat /\ m + n \in Nat
  OBVIOUS
<1>3. CeilingPrice(m, p) \in Nat /\ m * p <= 1000 * CeilingPrice(m, p)
  BY CeilingPriceBounds
<1>4. CeilingPrice(n, p) \in Nat /\ n * p <= 1000 * CeilingPrice(n, p)
  BY CeilingPriceBounds
<1>5. /\ CeilingPrice(m + n, p) \in Nat
      /\ 1000 * CeilingPrice(m + n, p) < (m + n) * p + 1000
  BY <1>2, CeilingPriceBounds
<1> QED
  BY <1>1, <1>2, <1>3, <1>4, <1>5, SMT

\* The month of the next day starts no earlier.
LEMMA MonthStartMonotone ==
  ASSUME NEW d \in Nat
  PROVE  /\ MonthStart(d) \in Int
         /\ MonthStart(d + 1) \in Int
         /\ MonthStart(d) <= MonthStart(d + 1)
         /\ MonthStart(d) <= d
<1> DEFINE D == DaysPerMonth
<1>1. D \in Nat /\ D > 0
  BY BudgetAssumption
<1>2. /\ d % D \in 0 .. D - 1
      /\ (d + 1) % D \in 0 .. D - 1
  BY <1>1
<1>3. /\ d = D * (d \div D) + (d % D)
      /\ d + 1 = D * ((d + 1) \div D) + ((d + 1) % D)
      /\ d \div D \in Int /\ (d + 1) \div D \in Int
  BY <1>1
<1>4. (d + 1) % D <= (d % D) + 1
  <2>1. SUFFICES ASSUME (d + 1) % D > (d % D) + 1 PROVE FALSE
    BY <1>2
  <2> DEFINE q == d \div D
             u == (d + 1) \div D
  <2>2. q \in Int /\ u \in Int
    BY <1>3
  <2>3. D * u < D * q
    BY <1>1, <1>2, <1>3, <2>1
  <2>4. D * q < D * u + D
    BY <1>1, <1>2, <1>3
  <2> HIDE DEF q, u, D
  <2>5. u < q
    BY <1>1, <2>2, <2>3, SMT
  <2>6. q < u + 1
    <3>1. D * u + D = D * (u + 1)
      BY <1>1, <2>2, SMT
    <3> QED
      BY <3>1, <1>1, <2>2, <2>4, SMT
  <2> QED
    BY <2>2, <2>5, <2>6
<1> QED
  BY <1>2, <1>4 DEF MonthStart

-----------------------------------------------------------------------------
(* Sums over a ledger: a function on finitely many turns whose steps carry *)
(* a cost and a day.                                                       *)

IsLedger(steps) ==
  /\ IsFiniteSet(DOMAIN steps)
  /\ \A s \in DOMAIN steps : steps[s].cost \in Nat /\ steps[s].day \in Nat

\* The sums exist.
LEMMA PeriodTyping ==
  ASSUME NEW steps, NEW since \in Int, IsLedger(steps)
  PROVE  /\ IsFiniteSet(PeriodSteps(steps, since)) /\ PeriodCount(steps, since) \in Nat
         /\ IsFiniteSet(SpentUnits(steps, since)) /\ PeriodSpend(steps, since) \in Nat
<1> DEFINE P == PeriodSteps(steps, since)
           units(s) == {s} \X (1 .. steps[s].cost)
           U == {units(s) : s \in P}
<1>1. IsFiniteSet(P) /\ Cardinality(P) \in Nat
  <2>1. P \in SUBSET DOMAIN steps
    BY DEF PeriodSteps
  <2> QED
    BY <2>1, FS_Subset, FS_CardinalityType DEF IsLedger
<1>2. IsFiniteSet(U)
  <2> DEFINE f == [s \in P |-> units(s)]
  <2>1. f \in Surjection(P, U)
    BY DEF Surjection
  <2> QED
    BY <1>1, <2>1, FS_Surjection
<1>3. \A u \in U : IsFiniteSet(u)
  <2>1. SUFFICES ASSUME NEW s \in P PROVE IsFiniteSet(units(s))
    OBVIOUS
  <2>2. IsFiniteSet({s})
    BY FS_Singleton
  <2>3. steps[s].cost \in Int
    BY DEF PeriodSteps, IsLedger
  <2>4. IsFiniteSet(1 .. steps[s].cost)
    BY <2>3, FS_Interval
  <2> QED
    BY <2>2, <2>4, FS_Product
<1>4. SpentUnits(steps, since) = UNION U
  BY DEF SpentUnits
<1>5. IsFiniteSet(SpentUnits(steps, since))
  BY <1>2, <1>3, <1>4, FS_UNION
<1> QED
  BY <1>1, <1>5, FS_CardinalityType DEF PeriodCount, PeriodSpend

\* A later start leaves no more to count and to sum.
LEMMA PeriodShrinks ==
  ASSUME NEW steps, NEW since \in Int, NEW later \in Int, since <= later, IsLedger(steps)
  PROVE  /\ PeriodCount(steps, later) <= PeriodCount(steps, since)
         /\ PeriodSpend(steps, later) <= PeriodSpend(steps, since)
<1>1. PeriodSteps(steps, later) \in SUBSET PeriodSteps(steps, since)
  BY DEF PeriodSteps, IsLedger
<1>2. SpentUnits(steps, later) \in SUBSET SpentUnits(steps, since)
  BY <1>1 DEF SpentUnits
<1> QED
  BY <1>1, <1>2, PeriodTyping, FS_Subset DEF PeriodCount, PeriodSpend

\* Recording a step that is not a completed call changes no sum.
LEMMA PeriodFreeStep ==
  ASSUME NEW steps, NEW since \in Int, NEW t \in DOMAIN steps, NEW step,
         steps[t].status # "completed", step.status # "completed"
  PROVE  /\ PeriodCount([steps EXCEPT ![t] = step], since) = PeriodCount(steps, since)
         /\ PeriodSpend([steps EXCEPT ![t] = step], since) = PeriodSpend(steps, since)
<1> DEFINE new == [steps EXCEPT ![t] = step]
<1>1. PeriodSteps(new, since) = PeriodSteps(steps, since)
  BY DEF PeriodSteps
<1>2. \A s \in PeriodSteps(steps, since) : new[s] = steps[s]
  BY DEF PeriodSteps
<1>3. SpentUnits(new, since) = SpentUnits(steps, since)
  BY <1>1, <1>2 DEF SpentUnits
<1> QED
  BY <1>1, <1>3 DEF PeriodCount, PeriodSpend

\* Recording a completed call adds one to the count and its cost to the spend
\* of every period it falls in.
LEMMA PeriodCompletedStep ==
  ASSUME NEW steps, NEW since \in Int, NEW t \in DOMAIN steps, NEW step, IsLedger(steps),
         steps[t].status # "completed", step.status = "completed",
         step.cost \in Nat, step.day \in Nat, step.day >= since
  PROVE  /\ PeriodCount([steps EXCEPT ![t] = step], since) = PeriodCount(steps, since) + 1
         /\ PeriodSpend([steps EXCEPT ![t] = step], since)
              = PeriodSpend(steps, since) + step.cost
<1> DEFINE new == [steps EXCEPT ![t] = step]
           P == PeriodSteps(steps, since)
           U == SpentUnits(steps, since)
           V == {t} \X (1 .. step.cost)
<1>1. PeriodSteps(new, since) = P \cup {t} /\ t \notin P
  BY DEF PeriodSteps
<1>2. \A s \in P : new[s] = steps[s]
  BY <1>1
<1>3. new[t] = step
  OBVIOUS
<1>4. IsFiniteSet(P) /\ IsFiniteSet(U) /\ Cardinality(U) \in Nat
  BY PeriodTyping DEF PeriodSpend
<1>5. Cardinality(P \cup {t}) = Cardinality(P) + 1
  BY <1>1, <1>4, FS_AddElement
<1>6. SpentUnits(new, since) = U \cup V
  <2>1. SpentUnits(new, since) = UNION {{s} \X (1 .. new[s].cost) : s \in P \cup {t}}
    BY <1>1 DEF SpentUnits
  <2>2. UNION {{s} \X (1 .. new[s].cost) : s \in P} = U
    BY <1>2 DEF SpentUnits
  <2> QED
    BY <2>1, <2>2, <1>3
<1>7. U \cap V = {}
  BY <1>1 DEF SpentUnits
<1>8. IsFiniteSet(V) /\ Cardinality(V) = step.cost
  <2> DEFINE c == step.cost
             I == 1 .. c
  <2>1. c \in Nat
    OBVIOUS
  <2> HIDE DEF c
  <2>2. IsFiniteSet({t}) /\ Cardinality({t}) = 1
    BY FS_Singleton
  <2>3. IsFiniteSet(I) /\ Cardinality(I) = c
    <3>1. 1 \in Int /\ c \in Int
      BY <2>1
    <3>2. IsFiniteSet(1 .. c) /\ Cardinality(1 .. c) = IF 1 > c THEN 0 ELSE c - 1 + 1
      BY <3>1, FS_Interval, Zenon
    <3> QED
      BY <2>1, <3>2
  <2> HIDE DEF I
  <2>4. IsFiniteSet({t} \X I) /\ Cardinality({t} \X I) = Cardinality({t}) * Cardinality(I)
    BY <2>2, <2>3, FS_Product
  <2>5. Cardinality({t} \X I) = c
    BY <2>1, <2>2, <2>3, <2>4
  <2> QED
    BY <2>4, <2>5 DEF c, I
<1>9. Cardinality(U \cup V) = Cardinality(U) + step.cost
  <2> HIDE DEF U, V
  <2>1. Cardinality(U \cup V) = Cardinality(U) + Cardinality(V) - Cardinality(U \cap V)
    BY <1>4, <1>8, FS_Union
  <2>2. Cardinality(U \cap V) = 0
    BY <1>7, FS_EmptySet
  <2> QED
    BY <1>4, <1>8, <2>1, <2>2
<1> QED
  BY <1>1, <1>5, <1>6, <1>9 DEF PeriodCount, PeriodSpend

(***************************************************************************)
(* The turn itself.                                                        *)
(***************************************************************************)

StepRows == [status : StepStatuses,
             reason : {"none", "ai_not_configured"} \cup BudgetReasons \cup ProviderErrors,
             input : Nat, output : Nat, cost : Nat, day : Nat]

\* What an action may do to the database, as far as types go.
LEMMA DbUpdates ==
  ASSUME NEW d \in Db, NEW t \in Turns
  PROVE  /\ \A c \in Contents \cup {NoContent} : [d EXCEPT !.msg[t] = c] \in Db
         /\ \A s \in {"running", "completed"} : [d EXCEPT !.run[t] = s] \in Db
         /\ \A s \in StepRows : [d EXCEPT !.step[t] = s] \in Db
BY DEF Db, StepRows

LEMMA ReplyUpdate ==
  ASSUME NEW d \in Db, NEW t \in Turns \cup {BlankKey}, NEW x \in (Texts \ {Unstorable}) \cup {"none"}
  PROVE  [d EXCEPT !.reply[t] = x] \in Db
BY DEF Db

Calls == [tokens : Estimates \cup {0}, text : Texts \cup {"none"}]

LEMMA TurnTyping ==
  ASSUME TypeOK, NEW r \in Requests
  PROVE  TurnOf(r) \in Turns /\ ReplyOf(r) \in Turns \cup {BlankKey}
BY DEF TypeOK, TurnOf, ReplyOf, Turns

LEMMA StepTyping ==
  ASSUME NEW day \in Nat
  PROVE  /\ \A reason \in {"ai_not_configured"} \cup BudgetReasons :
              FreeStep("skipped", reason, day) \in StepRows
         /\ \A error \in ProviderErrors : FreeStep("failed", error, day) \in StepRows
         /\ \A input \in Nat, output \in Nat : CompletedStep(input, output, day) \in StepRows
         /\ NoStep \in StepRows
<1>1. ASSUME NEW input \in Nat, NEW output \in Nat
      PROVE  ActualCost(input, output) \in Nat
  <2>1. InputPrice \in Nat /\ OutputPrice \in Nat
    BY BudgetAssumption
  <2>2. CeilingPrice(input, InputPrice) \in Nat
    BY <2>1, CeilingPriceBounds
  <2>3. CeilingPrice(output, OutputPrice) \in Nat
    BY <2>1, CeilingPriceBounds
  <2> QED
    BY <2>2, <2>3 DEF ActualCost
<1> QED
  BY <1>1 DEF FreeStep, CompletedStep, NoStep, StepRows, StepStatuses

LEMMA AppendTyping ==
  ASSUME TypeOK, NEW r \in Requests, NEW step \in StepRows, NEW text \in Texts,
         AppendStep(r, step, text)
  PROVE  wdb' \in Db /\ call' \in [Requests -> Calls] /\ pc' \in [Requests -> Stages]
<1>1. TurnOf(r) \in Turns
  BY TurnTyping
<1>2. [wdb EXCEPT !.step[TurnOf(r)] = step] \in Db
  BY <1>1, DbUpdates DEF TypeOK
<1>3. wdb' \in Db
  BY <1>2 DEF AppendStep, TypeOK
<1>4. call' \in [Requests -> Calls]
  BY DEF AppendStep, TypeOK, Calls
<1>5. pc' \in [Requests -> Stages]
  BY DEF AppendStep, TypeOK, Goto, Stages, HeldStages
<1> QED
  BY <1>3, <1>4, <1>5

\* Every variable keeps its type, for every set of requests, keys and contents.
THEOREM TypeCorrect == Spec => []TypeOK
<1>1. Init => TypeOK
  <2> SUFFICES ASSUME Init PROVE TypeOK
    OBVIOUS
  <2>1. NoStep \in StepRows
    BY StepTyping
  <2>2. db \in Db
    BY <2>1 DEF Init, Db, StepRows
  <2> QED
    BY <2>2 DEF Init, TypeOK, Stages
<1>2. TypeOK /\ [Next]_vars => TypeOK'
  <2> SUFFICES ASSUME TypeOK, [Next]_vars PROVE TypeOK'
    OBVIOUS
  <2> USE DEF Stages, WaitStages, HeldStages, Ended
  <2>1. ASSUME NEW r \in Requests, Submit(r) PROVE TypeOK'
    BY <2>1, TurnAssumption DEF TypeOK, Submit, Goto, Db
  <2>2. ASSUME NEW r \in Requests, LookUpMessage(r) PROVE TypeOK'
    BY <2>2 DEF TypeOK, LookUpMessage, Goto, Db
  <2>3. ASSUME NEW r \in Requests, InsertMessage(r) PROVE TypeOK'
    <3>1. TurnOf(r) \in Turns
      BY TurnTyping
    <3>2. form[r].content \in Contents \cup {NoContent} /\ wdb \in Db
      BY DEF TypeOK
    <3>3. [wdb EXCEPT !.msg[TurnOf(r)] = form[r].content] \in Db
      BY <3>1, <3>2, DbUpdates
    <3>4. wdb' \in Db
      BY <2>3, <3>2, <3>3 DEF InsertMessage
    <3> QED
      BY <2>3, <3>4 DEF TypeOK, InsertMessage, Goto
  <2>4. ASSUME NEW r \in Requests, CreateRun(r) PROVE TypeOK'
    <3>1. TurnOf(r) \in Turns
      BY TurnTyping
    <3>2. [wdb EXCEPT !.run[TurnOf(r)] = "running"] \in Db /\ wdb \in Db
      BY <3>1, DbUpdates DEF TypeOK
    <3>3. wdb' \in Db
      BY <2>4, <3>2 DEF CreateRun
    <3> QED
      BY <2>4, <3>3 DEF TypeOK, CreateRun, Goto
  <2>5. ASSUME NEW r \in Requests, SetContext(r) PROVE TypeOK'
    <3>1. call' \in [Requests -> [tokens : Estimates \cup {0}, text : Texts \cup {"none"}]]
      BY <2>5 DEF TypeOK, SetContext, Texts, FixedTexts
    <3>2. pc' \in [Requests -> Stages]
      BY <2>5 DEF TypeOK, SetContext, Goto
    <3>3. lock' \in Requests \cup {NoRequest}
      BY <2>5 DEF TypeOK, SetContext
    <3> QED
      BY <2>5, <3>1, <3>2, <3>3 DEF TypeOK, SetContext
  <2>6. ASSUME NEW r \in Requests, RequestCompletion(r) PROVE TypeOK'
    <3>1. TurnOf(r) \in Turns /\ today \in Nat
      BY TurnTyping DEF TypeOK
    <3>2. CASE /\ AppendStep(r, FreeStep("skipped", "ai_not_configured", today), "disabled")
               /\ UNCHANGED placed
      BY <2>6, <3>1, <3>2, AppendTyping, StepTyping
         DEF RequestCompletion, TypeOK, Calls, Texts, FixedTexts
    <3>3. ASSUME NEW tokens \in Estimates, UNCHANGED placed,
                 BudgetDecision(wdb.step, tokens, today) # "allowed",
                 AppendStep(r, FreeStep("skipped", BudgetDecision(wdb.step, tokens, today),
                                        today), "budget")
          PROVE  TypeOK'
      <4>1. BudgetDecision(wdb.step, tokens, today) \in BudgetReasons
        BY <3>3 DEF BudgetDecision, BudgetReasons
      <4> QED
        BY <2>6, <3>1, <3>3, <4>1, AppendTyping, StepTyping
           DEF RequestCompletion, TypeOK, Calls, Texts, FixedTexts
    <3>4. ASSUME NEW tokens \in Estimates,
                 call' = [call EXCEPT ![r].tokens = tokens],
                 placed' = [placed EXCEPT ![TurnOf(r)] = @ + 1],
                 Goto(r, "calling"), UNCHANGED wdb
          PROVE  TypeOK'
      BY <2>6, <3>1, <3>4, SMTT(30) DEF RequestCompletion, TypeOK, Goto
    <3>5. CASE Goto(r, "reject") /\ UNCHANGED <<wdb, call, placed>>
      BY <2>6, <3>5 DEF RequestCompletion, TypeOK, Goto
    <3> QED
      BY <2>6, <3>2, <3>3, <3>4, <3>5 DEF RequestCompletion
  <2>7. ASSUME NEW r \in Requests, ProviderAnswers(r) PROVE TypeOK'
    <3>1. CASE Goto(r, "reject") /\ UNCHANGED <<wdb, call>>
      BY <2>7, <3>1 DEF ProviderAnswers, TypeOK, Goto
    <3>2. ASSUME NEW input \in 0 .. call[r].tokens + ExtraTokens,
                 NEW output \in 0 .. MaxOutputTokens, NEW text \in {r, Unstorable},
                 AppendStep(r, CompletedStep(input, output, today), text)
          PROVE  TypeOK'
      <4>1. input \in Nat /\ output \in Nat /\ today \in Nat
        BY DEF TypeOK
      <4>2. CompletedStep(input, output, today) \in StepRows /\ text \in Texts
        BY <4>1, StepTyping DEF Texts
      <4> QED
        BY <2>7, <3>2, <4>2, AppendTyping DEF ProviderAnswers, TypeOK, Calls
    <3> QED
      BY <2>7, <3>1, <3>2 DEF ProviderAnswers
  <2>8. ASSUME NEW r \in Requests, ProviderFails(r) PROVE TypeOK'
    <3>1. today \in Nat
      BY DEF TypeOK
    <3>2. PICK error \in ProviderErrors :
            AppendStep(r, FreeStep("failed", error, today), "failure")
      BY <2>8 DEF ProviderFails
    <3> QED
      BY <2>8, <3>1, <3>2, AppendTyping, StepTyping
         DEF ProviderFails, TypeOK, Calls, Texts, FixedTexts
  <2>9. ASSUME NEW r \in Requests, ProviderTimesOut(r) PROVE TypeOK'
    BY <2>9 DEF TypeOK, ProviderTimesOut, Goto
  <2>10. ASSUME NEW r \in Requests, SaveReply(r) PROVE TypeOK'
    <3>1. ReplyOf(r) \in Turns \cup {BlankKey} /\ call[r].text \in Texts \cup {"none"}
      BY TurnTyping DEF TypeOK
    <3>2. \/ wdb' = wdb
          \/ /\ call[r].text # Unstorable
             /\ wdb' = [wdb EXCEPT !.reply[ReplyOf(r)] = call[r].text]
      BY <2>10 DEF SaveReply
    <3>3. wdb \in Db
      BY DEF TypeOK
    <3>4. call[r].text # Unstorable
            => [wdb EXCEPT !.reply[ReplyOf(r)] = call[r].text] \in Db
      BY <3>1, <3>3, ReplyUpdate
    <3>5. wdb' \in Db
      BY <3>2, <3>3, <3>4
    <3> QED
      BY <2>10, <3>5 DEF TypeOK, SaveReply, Goto
  <2>11. ASSUME NEW r \in Requests, FinalizeRun(r) PROVE TypeOK'
    <3>1. wdb' \in Db
      BY <2>11, TurnTyping, DbUpdates DEF FinalizeRun, TypeOK
    <3> QED
      BY <2>11, <3>1 DEF TypeOK, FinalizeRun, Goto
  <2>12. ASSUME NEW r \in Requests, Commit(r) PROVE TypeOK'
    BY <2>12 DEF TypeOK, Commit, Goto
  <2>13. ASSUME NEW r \in Requests, LockTimeout(r) PROVE TypeOK'
    BY <2>13 DEF TypeOK, LockTimeout, Goto
  <2>14. CASE Restart
    BY <2>14 DEF TypeOK, Restart
  <2>15. CASE Midnight
    BY <2>15 DEF TypeOK, Midnight
  <2>16. CASE UNCHANGED vars
    BY <2>16 DEF TypeOK, vars
  <2> QED
    BY <2>1, <2>2, <2>3, <2>4, <2>5, <2>6, <2>7, <2>8, <2>9, <2>10, <2>11, <2>12,
       <2>13, <2>14, <2>15, <2>16 DEF Next, Handle, Quiet
<1> QED
  BY <1>1, <1>2, PTL DEF Spec
-----------------------------------------------------------------------------
(* The write lock.                                                         *)

\* Whoever is past its first write holds the lock, and a free lock leaves
\* nothing uncommitted: the discipline every other invariant leans on.
THEOREM WriterIsSingle == Spec => []SingleWriter
<1>1. Init => SingleWriter
  BY DEF Init, SingleWriter, HeldStages
<1>2. TypeOK /\ SingleWriter /\ [Next]_vars => SingleWriter'
  <2> SUFFICES ASSUME TypeOK, SingleWriter, [Next]_vars PROVE SingleWriter'
    OBVIOUS
  <2> USE DEF SingleWriter, HeldStages
  <2>0. NoRequest \notin Requests /\ pc \in [Requests -> Stages]
    BY TurnAssumption DEF TypeOK
  <2>1. ASSUME NEW r \in Requests, Submit(r) PROVE SingleWriter'
    BY <2>0, <2>1 DEF Submit, Goto
  <2>2. ASSUME NEW r \in Requests, LookUpMessage(r) PROVE SingleWriter'
    BY <2>0, <2>2 DEF LookUpMessage, Goto
  <2>3. ASSUME NEW r \in Requests, InsertMessage(r) PROVE SingleWriter'
    BY <2>0, <2>3 DEF InsertMessage, Goto
  <2>4. ASSUME NEW r \in Requests, CreateRun(r) PROVE SingleWriter'
    BY <2>0, <2>4 DEF CreateRun, Goto
  <2>5. ASSUME NEW r \in Requests, SetContext(r) PROVE SingleWriter'
    BY <2>0, <2>5 DEF SetContext, Goto
  <2>6. ASSUME NEW r \in Requests, NEW step, NEW text, pc[r] \in HeldStages,
               UNCHANGED <<db, lock>>, AppendStep(r, step, text)
        PROVE  SingleWriter'
    BY <2>0, <2>6 DEF AppendStep, Goto
  <2>7. ASSUME NEW r \in Requests, RequestCompletion(r) PROVE SingleWriter'
    <3>1. CASE (Goto(r, "calling") \/ Goto(r, "reject")) /\ UNCHANGED wdb
      BY <2>0, <2>7, <3>1 DEF RequestCompletion, Goto
    <3> QED
      BY <2>6, <2>7, <3>1 DEF RequestCompletion
  <2>8. ASSUME NEW r \in Requests, ProviderAnswers(r) PROVE SingleWriter'
    <3>1. CASE Goto(r, "reject") /\ UNCHANGED wdb
      BY <2>0, <2>8, <3>1 DEF ProviderAnswers, Goto
    <3> QED
      BY <2>6, <2>8, <3>1 DEF ProviderAnswers
  <2>9. ASSUME NEW r \in Requests, ProviderFails(r) PROVE SingleWriter'
    BY <2>6, <2>9 DEF ProviderFails
  <2>10. ASSUME NEW r \in Requests, ProviderTimesOut(r) PROVE SingleWriter'
    BY <2>0, <2>10 DEF ProviderTimesOut, Goto
  <2>11. ASSUME NEW r \in Requests, SaveReply(r) PROVE SingleWriter'
    BY <2>0, <2>11 DEF SaveReply, Goto
  <2>12. ASSUME NEW r \in Requests, FinalizeRun(r) PROVE SingleWriter'
    BY <2>0, <2>12 DEF FinalizeRun, Goto
  <2>13. ASSUME NEW r \in Requests, Commit(r) PROVE SingleWriter'
    BY <2>0, <2>13 DEF Commit, Goto
  <2>14. ASSUME NEW r \in Requests, LockTimeout(r) PROVE SingleWriter'
    BY <2>0, <2>14 DEF LockTimeout, Goto
  <2>15. CASE Restart
    BY <2>0, <2>15 DEF Restart, Ended
  <2>16. CASE Midnight
    BY <2>16 DEF Midnight
  <2>17. CASE UNCHANGED vars
    BY <2>17 DEF vars
  <2> QED
    BY <2>1, <2>2, <2>3, <2>4, <2>5, <2>7, <2>8, <2>9, <2>10, <2>11, <2>12, <2>13,
       <2>14, <2>15, <2>16, <2>17 DEF Next, Handle, Quiet
<1> QED
  BY <1>1, <1>2, TypeCorrect, PTL DEF Spec

-----------------------------------------------------------------------------
(* The budget.                                                             *)

\* The caps hold of one image of the steps.
WithinCaps(steps) ==
  /\ PeriodCount(steps, DayStart(today)) <= DailyRequestCap
  /\ PeriodSpend(steps, DayStart(today)) <= DailyBudget + Overrun
  /\ PeriodSpend(steps, MonthStart(today)) <= MonthlyBudget + Overrun

\* A handler that waits for the provider still has room for its worst case.
Reserved(r) ==
  /\ call[r].tokens \in Estimates
  /\ PeriodCount(wdb.step, DayStart(today)) < DailyRequestCap
  /\ PeriodSpend(wdb.step, DayStart(today)) + WorstCaseCost(call[r].tokens) <= DailyBudget
  /\ PeriodSpend(wdb.step, MonthStart(today)) + WorstCaseCost(call[r].tokens)
       <= MonthlyBudget

\* The inductive strengthening of WithinBudget: the uncommitted image is within
\* the caps too, and every pending call is covered by what was checked.
BudgetInv ==
  /\ WithinCaps(db.step) /\ WithinCaps(wdb.step)
  /\ \A r \in Requests : pc[r] = "calling" => Reserved(r)

LEMMA TurnsFinite == IsFiniteSet(Turns)
BY TurnAssumption, FS_Union DEF Turns

LEMMA DbLedger ==
  ASSUME NEW d \in Db
  PROVE  IsLedger(d.step) /\ DOMAIN d.step = Turns
BY TurnsFinite DEF Db, IsLedger

LEMMA Periods ==
  ASSUME today \in Nat
  PROVE  DayStart(today) \in Int /\ MonthStart(today) \in Int
         /\ DayStart(today) <= today /\ MonthStart(today) <= today
BY MonthStartMonotone DEF DayStart

LEMMA PriceTyping ==
  ASSUME NEW tokens \in Nat
  PROVE  WorstCaseCost(tokens) \in Nat /\ Overrun \in Nat
<1>1. InputPrice \in Nat /\ OutputPrice \in Nat /\ MaxOutputTokens \in Nat /\ ExtraTokens \in Nat
  BY BudgetAssumption, TurnAssumption
<1>2. CeilingPrice(tokens, InputPrice) \in Nat
  BY <1>1, CeilingPriceBounds
<1>3. CeilingPrice(MaxOutputTokens, OutputPrice) \in Nat
  BY <1>1, CeilingPriceBounds
<1>4. CeilingPrice(ExtraTokens, InputPrice) \in Nat
  BY <1>1, CeilingPriceBounds
<1> QED
  BY <1>2, <1>3, <1>4 DEF WorstCaseCost, Overrun

\* What one call costs is what was reserved for it, and the overrun at most.
LEMMA CostCovered ==
  ASSUME NEW tokens \in Nat, NEW input \in 0 .. tokens + ExtraTokens,
         NEW output \in 0 .. MaxOutputTokens
  PROVE  /\ ActualCost(input, output) \in Nat
         /\ ActualCost(input, output) <= WorstCaseCost(tokens) + Overrun
<1>1. /\ InputPrice \in Nat /\ OutputPrice \in Nat /\ MaxOutputTokens \in Nat
      /\ ExtraTokens \in Nat /\ input \in Nat /\ output \in Nat
      /\ tokens + ExtraTokens \in Nat
      /\ input <= tokens + ExtraTokens /\ output <= MaxOutputTokens
  BY BudgetAssumption, TurnAssumption
<1>2. CeilingPrice(input, InputPrice) <= CeilingPrice(tokens + ExtraTokens, InputPrice)
  BY <1>1, CeilingPriceMonotone
<1>3. CeilingPrice(tokens + ExtraTokens, InputPrice)
        <= CeilingPrice(tokens, InputPrice) + CeilingPrice(ExtraTokens, InputPrice)
  BY <1>1, CeilingPriceSubadditive
<1>4. CeilingPrice(output, OutputPrice) <= CeilingPrice(MaxOutputTokens, OutputPrice)
  BY <1>1, CeilingPriceMonotone
<1>5. CeilingPrice(input, InputPrice) \in Nat
  BY <1>1, CeilingPriceBounds
<1>6. CeilingPrice(output, OutputPrice) \in Nat
  BY <1>1, CeilingPriceBounds
<1>7. CeilingPrice(tokens + ExtraTokens, InputPrice) \in Nat
  BY <1>1, CeilingPriceBounds
<1>8. CeilingPrice(tokens, InputPrice) \in Nat
  BY <1>1, CeilingPriceBounds
<1>9. CeilingPrice(ExtraTokens, InputPrice) \in Nat
  BY <1>1, CeilingPriceBounds
<1>10. CeilingPrice(MaxOutputTokens, OutputPrice) \in Nat
  BY <1>1, CeilingPriceBounds
<1> QED
  BY <1>2, <1>3, <1>4, <1>5, <1>6, <1>7, <1>8, <1>9, <1>10
     DEF ActualCost, WorstCaseCost, Overrun

\* An append that is not a completed call leaves every sum as it is: a step is
\* only written where there was none.
LEMMA FreeAppendKeepsBudget ==
  ASSUME TypeOK, SingleWriter, BudgetInv, NEW r \in Requests, NEW step, NEW text,
         pc[r] \in HeldStages, step.status # "completed",
         AppendStep(r, step, text), UNCHANGED <<db, lock, today>>
  PROVE  BudgetInv'
<1>1. TurnOf(r) \in DOMAIN wdb.step /\ wdb \in Db
  BY TurnTyping, DbLedger DEF TypeOK
<1>2. today \in Nat /\ DayStart(today) \in Int /\ MonthStart(today) \in Int
  BY Periods DEF TypeOK
<1>3. \/ wdb' = wdb
      \/ /\ wdb.step[TurnOf(r)] = NoStep
         /\ wdb'.step = [wdb.step EXCEPT ![TurnOf(r)] = step]
  BY <1>1 DEF AppendStep, Db
<1>4. /\ PeriodCount(wdb'.step, DayStart(today)) = PeriodCount(wdb.step, DayStart(today))
      /\ PeriodSpend(wdb'.step, DayStart(today)) = PeriodSpend(wdb.step, DayStart(today))
      /\ PeriodSpend(wdb'.step, MonthStart(today))
           = PeriodSpend(wdb.step, MonthStart(today))
  <2>1. CASE wdb' = wdb
    BY <2>1
  <2>2. CASE /\ wdb.step[TurnOf(r)] = NoStep
             /\ wdb'.step = [wdb.step EXCEPT ![TurnOf(r)] = step]
    <3>1. wdb.step[TurnOf(r)].status # "completed"
      BY <2>2 DEF NoStep
    <3>2. /\ PeriodCount(wdb'.step, DayStart(today)) = PeriodCount(wdb.step, DayStart(today))
          /\ PeriodSpend(wdb'.step, DayStart(today)) = PeriodSpend(wdb.step, DayStart(today))
      BY <1>1, <1>2, <2>2, <3>1, PeriodFreeStep
    <3>3. PeriodSpend(wdb'.step, MonthStart(today))
            = PeriodSpend(wdb.step, MonthStart(today))
      BY <1>1, <1>2, <2>2, <3>1, PeriodFreeStep
    <3> QED
      BY <3>2, <3>3
  <2> QED
    BY <1>3, <2>1, <2>2
<1>5. \A q \in Requests : pc'[q] = "calling" => q # r /\ pc[q] = "calling"
  BY DEF AppendStep, Goto, TypeOK
<1>6. \A q \in Requests : pc'[q] = "calling" => FALSE
  BY <1>5 DEF SingleWriter, HeldStages
<1> QED
  BY <1>4, <1>6 DEF BudgetInv, WithinCaps

\* A completed call was reserved for: its cost fits, up to the overrun.
LEMMA AnswerKeepsBudget ==
  ASSUME TypeOK, SingleWriter, BudgetInv, NEW r \in Requests, ProviderAnswers(r),
         NEW input \in 0 .. call[r].tokens + ExtraTokens, NEW output \in 0 .. MaxOutputTokens,
         NEW text, AppendStep(r, CompletedStep(input, output, today), text)
  PROVE  BudgetInv'
<1> DEFINE step == CompletedStep(input, output, today)
           t == TurnOf(r)
<1>1. Reserved(r) /\ pc[r] = "calling"
  BY DEF ProviderAnswers, BudgetInv
<1>2. call[r].tokens \in Nat
  BY <1>1, TurnAssumption DEF Reserved
<1>3. step.cost \in Nat /\ step.cost <= WorstCaseCost(call[r].tokens) + Overrun
  BY <1>2, CostCovered DEF CompletedStep
<1>4. t \in DOMAIN wdb.step /\ wdb \in Db /\ IsLedger(wdb.step)
  BY TurnTyping, DbLedger DEF TypeOK
<1>5. /\ today \in Nat /\ DayStart(today) \in Int /\ MonthStart(today) \in Int
      /\ DayStart(today) <= today /\ MonthStart(today) <= today
  BY Periods DEF TypeOK
<1>6. \A q \in Requests : pc'[q] # "calling"
  <2>1. \A q \in Requests : pc'[q] = "calling" => q # r /\ pc[q] = "calling"
    BY <1>1 DEF AppendStep, Goto, TypeOK
  <2> QED
    BY <2>1, <1>1 DEF SingleWriter, HeldStages
<1>7. WithinCaps(wdb.step)' /\ WithinCaps(db.step)'
  <2>1. db' = db /\ today' = today
    BY DEF ProviderAnswers
  <2>2. CASE wdb' = wdb
    BY <2>1, <2>2 DEF BudgetInv, WithinCaps
  <2>3. CASE /\ wdb.step[t] = NoStep
             /\ wdb'.step = [wdb.step EXCEPT ![t] = step]
    <3>1. /\ wdb.step[t].status # "completed" /\ step.status = "completed"
          /\ step.day \in Nat /\ step.day >= DayStart(today) /\ step.day >= MonthStart(today)
      BY <1>5, <2>3 DEF NoStep, CompletedStep
    <3> HIDE DEF step, t
    <3>2. /\ PeriodCount(wdb'.step, DayStart(today))
               = PeriodCount(wdb.step, DayStart(today)) + 1
          /\ PeriodSpend(wdb'.step, DayStart(today))
               = PeriodSpend(wdb.step, DayStart(today)) + step.cost
      BY <1>3, <1>4, <1>5, <2>3, <3>1, PeriodCompletedStep
    <3>3. PeriodSpend(wdb'.step, MonthStart(today))
            = PeriodSpend(wdb.step, MonthStart(today)) + step.cost
      BY <1>3, <1>4, <1>5, <2>3, <3>1, PeriodCompletedStep
    <3>4. /\ PeriodCount(wdb.step, DayStart(today)) \in Nat
          /\ PeriodSpend(wdb.step, DayStart(today)) \in Nat
      BY <1>4, <1>5, PeriodTyping
    <3>5. PeriodSpend(wdb.step, MonthStart(today)) \in Nat
      BY <1>4, <1>5, PeriodTyping
    <3>6. WorstCaseCost(call[r].tokens) \in Nat /\ Overrun \in Nat
      BY <1>2, PriceTyping
    <3>7. DailyRequestCap \in Nat /\ DailyBudget \in Nat /\ MonthlyBudget \in Nat
      BY BudgetAssumption
    <3>8. WithinCaps(wdb.step)'
      BY <1>1, <1>3, <2>1, <3>2, <3>3, <3>4, <3>5, <3>6, <3>7 DEF Reserved, WithinCaps
    <3> QED
      BY <2>1, <3>8 DEF BudgetInv, WithinCaps
  <2> QED
    BY <1>4, <2>2, <2>3 DEF AppendStep, Db
<1> QED
  BY <1>6, <1>7 DEF BudgetInv

\* A new day starts no earlier, and a new month neither: nothing is added.
LEMMA MidnightKeepsBudget ==
  ASSUME TypeOK, BudgetInv, Midnight
  PROVE  BudgetInv'
<1>1. /\ today \in Nat /\ today' = today + 1 /\ today' \in Nat
      /\ DayStart(today) \in Int /\ DayStart(today') \in Int
      /\ MonthStart(today) \in Int /\ MonthStart(today') \in Int
      /\ DayStart(today) <= DayStart(today') /\ MonthStart(today) <= MonthStart(today')
  BY MonthStartMonotone DEF TypeOK, Midnight, DayStart
<1>2. ASSUME NEW d \in Db
      PROVE  /\ PeriodCount(d.step, DayStart(today')) <= PeriodCount(d.step, DayStart(today))
             /\ PeriodSpend(d.step, DayStart(today')) <= PeriodSpend(d.step, DayStart(today))
             /\ PeriodSpend(d.step, MonthStart(today'))
                  <= PeriodSpend(d.step, MonthStart(today))
             /\ PeriodCount(d.step, DayStart(today)) \in Nat
             /\ PeriodCount(d.step, DayStart(today')) \in Nat
             /\ PeriodSpend(d.step, DayStart(today)) \in Nat
             /\ PeriodSpend(d.step, DayStart(today')) \in Nat
             /\ PeriodSpend(d.step, MonthStart(today)) \in Nat
             /\ PeriodSpend(d.step, MonthStart(today')) \in Nat
  <2>0. IsLedger(d.step)
    BY DbLedger
  <2>1. /\ PeriodCount(d.step, DayStart(today')) <= PeriodCount(d.step, DayStart(today))
        /\ PeriodSpend(d.step, DayStart(today')) <= PeriodSpend(d.step, DayStart(today))
    BY <1>1, <2>0, PeriodShrinks
  <2>2. PeriodSpend(d.step, MonthStart(today')) <= PeriodSpend(d.step, MonthStart(today))
    BY <1>1, <2>0, PeriodShrinks
  <2>3. /\ PeriodCount(d.step, DayStart(today)) \in Nat
        /\ PeriodSpend(d.step, DayStart(today)) \in Nat
    BY <1>1, <2>0, PeriodTyping
  <2>4. /\ PeriodCount(d.step, DayStart(today')) \in Nat
        /\ PeriodSpend(d.step, DayStart(today')) \in Nat
    BY <1>1, <2>0, PeriodTyping
  <2>5. PeriodSpend(d.step, MonthStart(today)) \in Nat
    BY <1>1, <2>0, PeriodTyping
  <2>6. PeriodSpend(d.step, MonthStart(today')) \in Nat
    BY <1>1, <2>0, PeriodTyping
  <2> QED
    BY <2>1, <2>2, <2>3, <2>4, <2>5, <2>6
<1>3. /\ DailyRequestCap \in Nat /\ DailyBudget \in Nat /\ MonthlyBudget \in Nat
      /\ Overrun \in Nat
  BY BudgetAssumption, PriceTyping
<1>4. WithinCaps(db.step)'
  BY <1>2, <1>3 DEF BudgetInv, WithinCaps, Midnight, TypeOK
<1>5. WithinCaps(wdb.step)'
  BY <1>2, <1>3 DEF BudgetInv, WithinCaps, Midnight, TypeOK
<1>6. ASSUME NEW r \in Requests, pc'[r] = "calling" PROVE Reserved(r)'
  <2>1. Reserved(r) /\ call' = call /\ wdb' = wdb /\ wdb \in Db
    BY <1>6 DEF BudgetInv, Midnight, TypeOK
  <2>2. WorstCaseCost(call[r].tokens) \in Nat
    BY <2>1, PriceTyping, TurnAssumption DEF Reserved
  <2> QED
    BY <1>2, <1>3, <2>1, <2>2 DEF Reserved
<1> QED
  BY <1>4, <1>5, <1>6 DEF BudgetInv

\* Nothing is spent to begin with.
LEMMA NothingSpent ==
  ASSUME NEW since, NEW steps, \A t \in DOMAIN steps : steps[t] = NoStep
  PROVE  PeriodCount(steps, since) = 0 /\ PeriodSpend(steps, since) = 0
<1>1. PeriodSteps(steps, since) = {}
  BY DEF PeriodSteps, NoStep
<1>2. SpentUnits(steps, since) = {}
  BY <1>1 DEF SpentUnits
<1> QED
  BY <1>1, <1>2, FS_EmptySet DEF PeriodCount, PeriodSpend

\* An action that changes no step and starts no call.
LEMMA QuietKeepsBudget ==
  ASSUME BudgetInv, UNCHANGED today,
         db'.step \in {db.step, wdb.step}, wdb'.step \in {db.step, wdb.step},
         \A q \in Requests : pc'[q] = "calling" =>
           pc[q] = "calling" /\ call'[q].tokens = call[q].tokens /\ wdb'.step = wdb.step
  PROVE  BudgetInv'
<1>1. WithinCaps(db.step)' /\ WithinCaps(wdb.step)'
  BY DEF BudgetInv, WithinCaps
<1>2. ASSUME NEW q \in Requests, pc'[q] = "calling" PROVE Reserved(q)'
  BY <1>2 DEF BudgetInv, Reserved
<1> QED
  BY <1>1, <1>2 DEF BudgetInv

\* The strengthening is an invariant.
LEMMA BudgetHolds == Spec => []BudgetInv
<1>1. Init => BudgetInv
  <2> SUFFICES ASSUME Init PROVE BudgetInv
    OBVIOUS
  <2>1. \A t \in DOMAIN db.step : db.step[t] = NoStep
    BY DEF Init
  <2>2. /\ PeriodCount(db.step, DayStart(today)) = 0
        /\ PeriodSpend(db.step, DayStart(today)) = 0
    BY <2>1, NothingSpent
  <2>3. PeriodSpend(db.step, MonthStart(today)) = 0
    BY <2>1, NothingSpent
  <2>4. /\ DailyRequestCap \in Nat /\ DailyBudget \in Nat /\ MonthlyBudget \in Nat
        /\ Overrun \in Nat
    BY BudgetAssumption, PriceTyping
  <2>5. WithinCaps(db.step)
    BY <2>2, <2>3, <2>4 DEF WithinCaps
  <2> QED
    BY <2>5 DEF Init, BudgetInv
<1>2. TypeOK /\ SingleWriter /\ BudgetInv /\ [Next]_vars => BudgetInv'
  <2> SUFFICES ASSUME TypeOK, SingleWriter, BudgetInv, [Next]_vars PROVE BudgetInv'
    OBVIOUS
  <2>0. pc \in [Requests -> Stages] /\ db \in Db /\ wdb \in Db
    BY DEF TypeOK
  <2>1. ASSUME NEW r \in Requests, Submit(r) PROVE BudgetInv'
    BY <2>0, <2>1, QuietKeepsBudget DEF Submit, Goto
  <2>2. ASSUME NEW r \in Requests, LookUpMessage(r) PROVE BudgetInv'
    BY <2>0, <2>2, QuietKeepsBudget DEF LookUpMessage, Goto
  <2>3. ASSUME NEW r \in Requests, InsertMessage(r) PROVE BudgetInv'
    BY <2>0, <2>3, QuietKeepsBudget DEF InsertMessage, Goto, Db
  <2>4. ASSUME NEW r \in Requests, CreateRun(r) PROVE BudgetInv'
    BY <2>0, <2>4, QuietKeepsBudget DEF CreateRun, Goto, Db
  <2>5. ASSUME NEW r \in Requests, SetContext(r) PROVE BudgetInv'
    <3>1. \A q \in Requests : call'[q].tokens = call[q].tokens
      BY <2>5 DEF SetContext, TypeOK
    <3> QED
      BY <2>0, <2>5, <3>1, QuietKeepsBudget DEF SetContext, Goto
  <2>6. ASSUME NEW r \in Requests, RequestCompletion(r) PROVE BudgetInv'
    <3>0. UNCHANGED <<db, lock, today>> /\ pc[r] \in HeldStages
      BY <2>6 DEF RequestCompletion, HeldStages
    <3>1. CASE AppendStep(r, FreeStep("skipped", "ai_not_configured", today), "disabled")
      <4>1. FreeStep("skipped", "ai_not_configured", today).status # "completed"
        BY DEF FreeStep, NoStep
      <4> QED
        BY <3>0, <3>1, <4>1, FreeAppendKeepsBudget
    <3>2. ASSUME NEW tokens \in Estimates,
                 AppendStep(r, FreeStep("skipped", BudgetDecision(wdb.step, tokens, today),
                                        today), "budget")
          PROVE  BudgetInv'
      <4>1. FreeStep("skipped", BudgetDecision(wdb.step, tokens, today), today).status
              # "completed"
        BY DEF FreeStep, NoStep
      <4> QED
        BY <3>0, <3>2, <4>1, FreeAppendKeepsBudget
    <3>3. ASSUME NEW tokens \in Estimates,
                 BudgetDecision(wdb.step, tokens, today) = "allowed",
                 call' = [call EXCEPT ![r].tokens = tokens],
                 Goto(r, "calling"), UNCHANGED wdb
          PROVE  BudgetInv'
      <4>1. call'[r].tokens = tokens /\ call \in [Requests -> Calls]
        BY <3>3 DEF TypeOK, Calls
      <4>2. Reserved(r)'
        <5>1. IsLedger(wdb.step) /\ DayStart(today) \in Int /\ MonthStart(today) \in Int
          BY <2>0, DbLedger, Periods DEF TypeOK
        <5>2. /\ PeriodCount(wdb.step, DayStart(today)) \in Nat
              /\ PeriodSpend(wdb.step, DayStart(today)) \in Nat
          BY <5>1, PeriodTyping
        <5>3. PeriodSpend(wdb.step, MonthStart(today)) \in Nat
          BY <5>1, PeriodTyping
        <5>4. WorstCaseCost(tokens) \in Nat
          BY PriceTyping, TurnAssumption
        <5>5. DailyRequestCap \in Nat /\ DailyBudget \in Nat /\ MonthlyBudget \in Nat
          BY BudgetAssumption
        <5>6. /\ PeriodCount(wdb.step, DayStart(today)) < DailyRequestCap
              /\ PeriodSpend(wdb.step, DayStart(today)) + WorstCaseCost(tokens) <= DailyBudget
              /\ PeriodSpend(wdb.step, MonthStart(today)) + WorstCaseCost(tokens)
                   <= MonthlyBudget
          BY <3>3, <5>2, <5>3, <5>4, <5>5 DEF BudgetDecision
        <5> QED
          BY <3>0, <3>3, <4>1, <5>6 DEF Reserved
      <4>3. \A q \in Requests : pc'[q] = "calling" => q = r
        <5>1. \A q \in Requests : q # r => pc'[q] = pc[q]
          BY <2>0, <3>3 DEF Goto
        <5>2. \A q \in Requests : pc[q] = "calling" => q = r
          BY <3>0 DEF SingleWriter, HeldStages
        <5> QED
          BY <5>1, <5>2
      <4>4. WithinCaps(db.step)' /\ WithinCaps(wdb.step)'
        BY <3>0, <3>3 DEF BudgetInv, WithinCaps
      <4> QED
        BY <4>2, <4>3, <4>4 DEF BudgetInv
    <3>4. CASE Goto(r, "reject") /\ UNCHANGED <<wdb, call, placed>>
      BY <2>0, <2>6, <3>4, QuietKeepsBudget DEF RequestCompletion, Goto
    <3> QED
      BY <2>6, <3>1, <3>2, <3>3, <3>4 DEF RequestCompletion
  <2>7. ASSUME NEW r \in Requests, ProviderAnswers(r) PROVE BudgetInv'
    <3>1. CASE Goto(r, "reject") /\ UNCHANGED <<wdb, call>>
      BY <2>0, <2>7, <3>1, QuietKeepsBudget DEF ProviderAnswers, Goto
    <3> QED
      BY <2>7, <3>1, AnswerKeepsBudget DEF ProviderAnswers
  <2>8. ASSUME NEW r \in Requests, ProviderFails(r) PROVE BudgetInv'
    <3>1. PICK error \in ProviderErrors :
            AppendStep(r, FreeStep("failed", error, today), "failure")
      BY <2>8 DEF ProviderFails
    <3>2. FreeStep("failed", error, today).status # "completed"
      BY DEF FreeStep, NoStep
    <3>3. UNCHANGED <<db, lock, today>> /\ pc[r] \in HeldStages
      BY <2>8 DEF ProviderFails, HeldStages
    <3> QED
      BY <3>1, <3>2, <3>3, FreeAppendKeepsBudget
  <2>9. ASSUME NEW r \in Requests, ProviderTimesOut(r) PROVE BudgetInv'
    <3>1. \A q \in Requests : pc'[q] # "calling"
      BY <2>0, <2>9 DEF ProviderTimesOut, Goto, SingleWriter, HeldStages
    <3> QED
      BY <2>9, <3>1, QuietKeepsBudget DEF ProviderTimesOut
  <2>10. ASSUME NEW r \in Requests, SaveReply(r) PROVE BudgetInv'
    BY <2>0, <2>10, QuietKeepsBudget DEF SaveReply, Goto, Db
  <2>11. ASSUME NEW r \in Requests, FinalizeRun(r) PROVE BudgetInv'
    BY <2>0, <2>11, QuietKeepsBudget DEF FinalizeRun, Goto, Db
  <2>12. ASSUME NEW r \in Requests, Commit(r) PROVE BudgetInv'
    BY <2>0, <2>12, QuietKeepsBudget DEF Commit, Goto
  <2>13. ASSUME NEW r \in Requests, LockTimeout(r) PROVE BudgetInv'
    BY <2>0, <2>13, QuietKeepsBudget DEF LockTimeout, Goto
  <2>14. CASE Restart
    BY <2>0, <2>14, QuietKeepsBudget DEF Restart, Ended
  <2>15. CASE Midnight
    BY <2>15, MidnightKeepsBudget
  <2>16. CASE UNCHANGED vars
    BY <2>16, QuietKeepsBudget DEF vars
  <2> QED
    BY <2>1, <2>2, <2>3, <2>4, <2>5, <2>6, <2>7, <2>8, <2>9, <2>10, <2>11, <2>12,
       <2>13, <2>14, <2>15, <2>16 DEF Next, Handle, Quiet
<1> QED
  BY <1>1, <1>2, TypeCorrect, WriterIsSingle, PTL DEF Spec

\* check_budget holds under concurrency: handlers that check and charge in two
\* steps, with a call, a midnight or a crash in between, never jointly pass a
\* cap by more than the overrun of a single call.
THEOREM BudgetRespected == Spec => []WithinBudget
<1>1. BudgetInv => WithinBudget
  BY DEF BudgetInv, WithinCaps, WithinBudget
<1> QED
  BY <1>1, BudgetHolds, PTL

-----------------------------------------------------------------------------
(* Closed turns.                                                           *)

\* Where a turn's run is closed for everybody, the writer left it alone.
ClosedKept ==
  \A t \in Turns : db.run[t] = "completed" =>
    /\ wdb.msg[t] = db.msg[t] /\ wdb.run[t] = db.run[t]
    /\ wdb.step[t] = db.step[t] /\ wdb.reply[t] = db.reply[t]

\* A handler past SetContext works on a run that is open.
RunOpen == \A r \in Requests : pc[r] \in HeldStages => wdb.run[TurnOf(r)] = "running"

\* A run has its message, no message is ever changed, and a handler past the message
\* sees the one it was sent.
MessageFirst ==
  /\ \A t \in Turns : wdb.run[t] # "none" => wdb.msg[t] # NoContent
  /\ \A t \in Turns : db.msg[t] # NoContent => wdb.msg[t] = db.msg[t]
  /\ \A r \in Requests : pc[r] # "idle" => form[r].content # NoContent
  /\ \A r \in Requests : pc[r] \in {"run", "context"} \cup HeldStages =>
       View(r).msg[TurnOf(r)] = form[r].content

\* The same of the committed database: what a rollback returns to.
CommittedFirst == \A t \in Turns : db.run[t] # "none" => db.msg[t] # NoContent

FrozenInv == ClosedKept /\ RunOpen /\ MessageFirst /\ CommittedFirst

\* What the steps that neither commit nor roll back do to one turn.
Untouched(t) ==
  /\ wdb'.msg[t] = wdb.msg[t] /\ wdb'.run[t] = wdb.run[t]
  /\ wdb'.step[t] = wdb.step[t] /\ wdb'.reply[t] = wdb.reply[t]

LEMMA BlankIsNoTurn == BlankKey \notin Turns
BY TurnAssumption DEF Turns

LEMMA FrozenStep ==
  ASSUME TypeOK, SingleWriter, FrozenInv, [Next]_vars
  PROVE  FrozenInv' /\ \A t \in Turns : db.run[t] = "completed" =>
           /\ db'.msg[t] = db.msg[t] /\ db'.run[t] = db.run[t]
           /\ db'.step[t] = db.step[t] /\ db'.reply[t] = db.reply[t]
           /\ placed'[t] = placed[t]
<1> DEFINE Frozen == \A t \in Turns : db.run[t] = "completed" =>
             /\ db'.msg[t] = db.msg[t] /\ db'.run[t] = db.run[t]
             /\ db'.step[t] = db.step[t] /\ db'.reply[t] = db.reply[t]
             /\ placed'[t] = placed[t]
<1> SUFFICES FrozenInv' /\ Frozen
  OBVIOUS
<1> USE DEF FrozenInv, ClosedKept, RunOpen, MessageFirst, CommittedFirst, View,
            SingleWriter, HeldStages
<1>0. /\ pc \in [Requests -> Stages] /\ db \in Db /\ wdb \in Db
      /\ NoRequest \notin Requests
      /\ \A r \in Requests : TurnOf(r) \in Turns
  BY TurnTyping, TurnAssumption DEF TypeOK
<1>1. ASSUME NEW r \in Requests, Submit(r) PROVE FrozenInv' /\ Frozen
  <2>1. form'[r].content # NoContent
    BY <1>1, TurnAssumption DEF Submit, TypeOK
  <2>2. \A q \in Requests : q # r => form'[q] = form[q] /\ pc'[q] = pc[q]
    BY <1>0, <1>1 DEF Submit, TypeOK, Goto
  <2>3. pc'[r] = "save"
    BY <1>0, <1>1 DEF Submit, Goto
  <2> QED
    BY <1>0, <1>1, <2>1, <2>2, <2>3 DEF Submit, TurnOf
<1>2. ASSUME NEW r \in Requests, LookUpMessage(r) PROVE FrozenInv' /\ Frozen
  BY <1>0, <1>2 DEF LookUpMessage, Goto, TurnOf
<1>3. ASSUME NEW r \in Requests, InsertMessage(r) PROVE FrozenInv' /\ Frozen
  BY <1>0, <1>3 DEF InsertMessage, Goto, TurnOf, Db
<1>4. ASSUME NEW r \in Requests, CreateRun(r) PROVE FrozenInv' /\ Frozen
  <2> DEFINE t == TurnOf(r)
  <2>1. /\ pc[r] = "run" /\ t \in Turns /\ UNCHANGED <<db, form, placed>>
        /\ \A q \in Requests : TurnOf(q)' = TurnOf(q)
        /\ \A q \in Requests : q # r => pc'[q] = pc[q]
        /\ pc'[r] \in {"context", "settle"}
    BY <1>0, <1>4 DEF CreateRun, Goto, TurnOf
  <2>2. CASE UNCHANGED <<lock, wdb>>
    BY <1>0, <2>1, <2>2
  <2>3. CASE /\ View(r).run[t] = "none" /\ lock \in {NoRequest, r} /\ lock' = r
             /\ wdb' = [wdb EXCEPT !.run[t] = "running"]
    <3>1. wdb.run[t] = "none" /\ wdb.msg[t] # NoContent
      BY <1>0, <2>1, <2>3
    <3>2. /\ wdb'.msg = wdb.msg /\ wdb'.step = wdb.step /\ wdb'.reply = wdb.reply
          /\ wdb'.run[t] = "running" /\ \A u \in Turns \ {t} : wdb'.run[u] = wdb.run[u]
      BY <1>0, <2>1, <2>3 DEF Db
    <3>3. \A q \in Requests : pc'[q] \notin HeldStages
      BY <1>0, <2>1, <2>3
    <3>4. ClosedKept'
      BY <2>1, <3>1, <3>2
    <3>5. MessageFirst'
      BY <1>0, <2>1, <2>3, <3>1, <3>2
    <3> QED
      BY <2>1, <3>3, <3>4, <3>5
  <2> QED
    BY <1>4, <2>2, <2>3 DEF CreateRun
<1>5. ASSUME NEW r \in Requests, SetContext(r) PROVE FrozenInv' /\ Frozen
  BY <1>0, <1>5 DEF SetContext, Goto, TurnOf, Db
<1>6. ASSUME NEW r \in Requests, NEW step, NEW text, pc[r] \in HeldStages,
             UNCHANGED <<db, lock, form>>,
             placed' \in {placed, [placed EXCEPT ![TurnOf(r)] = @ + 1]},
             \/ AppendStep(r, step, text)
             \/ UNCHANGED wdb /\ (Goto(r, "calling") \/ Goto(r, "reject"))
      PROVE  FrozenInv' /\ Frozen
  <2> DEFINE t == TurnOf(r)
  <2>1. /\ t \in Turns /\ wdb.run[t] = "running"
        /\ \A q \in Requests : TurnOf(q)' = TurnOf(q)
        /\ \A q \in Requests : q # r => pc'[q] = pc[q] /\ pc'[q] \notin HeldStages
        /\ pc'[r] \in {"reply", "reject", "calling"}
    BY <1>0, <1>6 DEF AppendStep, Goto, TurnOf
  <2>2. /\ wdb'.msg = wdb.msg /\ wdb'.run = wdb.run /\ wdb'.reply = wdb.reply
        /\ \A u \in Turns \ {t} : wdb'.step[u] = wdb.step[u]
    BY <1>0, <1>6, <2>1 DEF AppendStep, Db
  <2>3. db.run[t] # "completed" /\ \A u \in Turns \ {t} : placed'[u] = placed[u]
    BY <1>6, <2>1 DEF TypeOK
  <2>4. ClosedKept' /\ RunOpen' /\ Frozen
    BY <1>6, <2>1, <2>2, <2>3
  <2>5. MessageFirst' /\ CommittedFirst'
    BY <1>6, <2>1, <2>2
  <2> QED
    BY <2>4, <2>5
<1>7. ASSUME NEW r \in Requests, RequestCompletion(r) PROVE FrozenInv' /\ Frozen
  BY <1>6, <1>7, SMTT(30) DEF RequestCompletion
<1>8. ASSUME NEW r \in Requests, ProviderAnswers(r) PROVE FrozenInv' /\ Frozen
  BY <1>6, <1>8 DEF ProviderAnswers
<1>9. ASSUME NEW r \in Requests, ProviderFails(r) PROVE FrozenInv' /\ Frozen
  BY <1>6, <1>9 DEF ProviderFails
<1>10. ASSUME NEW r \in Requests, ProviderTimesOut(r) PROVE FrozenInv' /\ Frozen
  BY <1>0, <1>10 DEF ProviderTimesOut, Goto, TurnOf
<1>11. ASSUME NEW r \in Requests, SaveReply(r) PROVE FrozenInv' /\ Frozen
  <2> DEFINE t == TurnOf(r)
  <2>1. /\ t \in Turns /\ wdb.run[t] = "running" /\ UNCHANGED <<db, lock, form, placed>>
        /\ \A q \in Requests : TurnOf(q)' = TurnOf(q)
        /\ \A q \in Requests : q # r => pc'[q] = pc[q] /\ pc'[q] \notin HeldStages
        /\ pc[r] = "reply" /\ pc'[r] \in {"finalize", "reject"}
    BY <1>0, <1>11 DEF SaveReply, Goto, TurnOf
  <2>2. ReplyOf(r) \in {t, BlankKey}
    BY DEF ReplyOf
  <2>3. /\ wdb'.msg = wdb.msg /\ wdb'.run = wdb.run /\ wdb'.step = wdb.step
        /\ \A u \in Turns \ {t} : wdb'.reply[u] = wdb.reply[u]
    BY <1>0, <1>11, <2>2, BlankIsNoTurn DEF SaveReply, Db
  <2>4. db.run[t] # "completed"
    BY <2>1
  <2>5. ClosedKept' /\ RunOpen' /\ Frozen
    BY <2>1, <2>3, <2>4
  <2>6. MessageFirst' /\ CommittedFirst'
    BY <2>1, <2>3
  <2> QED
    BY <2>5, <2>6
<1>12. ASSUME NEW r \in Requests, FinalizeRun(r) PROVE FrozenInv' /\ Frozen
  BY <1>0, <1>12 DEF FinalizeRun, Goto, TurnOf, Db
<1>13. ASSUME NEW r \in Requests, Commit(r) PROVE FrozenInv' /\ Frozen
  BY <1>0, <1>13 DEF Commit, Goto, TurnOf
<1>14. ASSUME NEW r \in Requests, LockTimeout(r) PROVE FrozenInv' /\ Frozen
  BY <1>0, <1>14 DEF LockTimeout, Goto, TurnOf, WaitStages
<1>15. CASE Restart
  BY <1>0, <1>15 DEF Restart, Ended, TurnOf
<1>16. CASE Midnight
  BY <1>0, <1>16 DEF Midnight, TurnOf
<1>17. CASE UNCHANGED vars
  BY <1>0, <1>17 DEF vars, TurnOf
<1> QED
  BY <1>1, <1>2, <1>3, <1>4, <1>5, <1>7, <1>8, <1>9, <1>10, <1>11, <1>12, <1>13,
     <1>14, <1>15, <1>16, <1>17 DEF Next, Handle, Quiet

LEMMA FrozenHolds == Spec => []FrozenInv
<1>1. Init => FrozenInv
  BY DEF Init, FrozenInv, ClosedKept, RunOpen, MessageFirst, CommittedFirst, HeldStages
<1>2. TypeOK /\ SingleWriter /\ FrozenInv /\ [Next]_vars => FrozenInv'
  BY FrozenStep
<1> QED
  BY <1>1, <1>2, TypeCorrect, WriterIsSingle, PTL DEF Spec

\* The `already_processed` return: a closed turn is never touched again, however
\* many submissions of its key race, are retried or are lost in a crash.
THEOREM ClosedTurnsFrozen == Spec => CompletedTurnsFrozen
<1>1. TypeOK /\ SingleWriter /\ FrozenInv /\ [Next]_vars =>
        [\A t \in Turns : db.run[t] = "completed" =>
           /\ db'.msg[t] = db.msg[t] /\ db'.run[t] = db.run[t]
           /\ db'.step[t] = db.step[t] /\ db'.reply[t] = db.reply[t]
           /\ placed'[t] = placed[t]]_vars
  BY FrozenStep
<1> QED
  BY <1>1, TypeCorrect, WriterIsSingle, FrozenHolds, PTL DEF Spec, CompletedTurnsFrozen

-----------------------------------------------------------------------------
(* The pipeline implements the atomic ledger of turns.                     *)

\* A bill the writer has added, and has not committed yet: the turn was open and
\* had none, and on the day of the bill every cap was respected.
NewBill(t) ==
  /\ db.step[t] = NoStep /\ db.run[t] # "completed" /\ wdb.run[t] # "none"
  /\ wdb.step[t].status # "none" /\ wdb.step[t].day <= today
  /\ Atomic!Affordable(wdb.step, wdb.step[t].day)

\* The writer changes the rows of its own turn only, and only while it is open.
OneTurnAtATime ==
  \A r \in Requests : lock = r =>
    /\ pc[r] # "idle"
    /\ \A t \in Turns \ {TurnOf(r)} :
         wdb.run[t] = db.run[t] /\ wdb.step[t] = db.step[t]
    /\ \/ wdb.run[TurnOf(r)] = db.run[TurnOf(r)]
       \/ db.run[TurnOf(r)] # "completed" /\ wdb.run[TurnOf(r)] # "none"
    /\ wdb.step[TurnOf(r)] = db.step[TurnOf(r)] \/ NewBill(TurnOf(r))

LEMMA CapsAffordable ==
  ASSUME NEW steps, NEW day,
         PeriodCount(steps, DayStart(day)) <= DailyRequestCap,
         PeriodSpend(steps, DayStart(day)) <= DailyBudget + Overrun,
         PeriodSpend(steps, MonthStart(day)) <= MonthlyBudget + Overrun
  PROVE  Atomic!Affordable(steps, day)
<1>1. ASSUME NEW since
      PROVE  Atomic!PeriodSteps(steps, since) = PeriodSteps(steps, since)
  BY DEF Atomic!PeriodSteps, PeriodSteps
<1>2. ASSUME NEW since
      PROVE  Atomic!SpentUnits(steps, since) = SpentUnits(steps, since)
  BY <1>1, Zenon DEF Atomic!SpentUnits, SpentUnits
<1>0. ASSUME NEW S PROVE Atomic!Cardinality(S) = Cardinality(S)
  BY Zenon DEF Atomic!Cardinality, Cardinality
<1>3. ASSUME NEW since
      PROVE  /\ Atomic!PeriodCount(steps, since) = PeriodCount(steps, since)
             /\ Atomic!PeriodSpend(steps, since) = PeriodSpend(steps, since)
  <2>1. Atomic!PeriodCount(steps, since) = PeriodCount(steps, since)
    <3>1. Atomic!PeriodSteps(steps, since) = PeriodSteps(steps, since)
      BY <1>1
    <3> QED
      BY <1>0, <3>1, Zenon DEF Atomic!PeriodCount, PeriodCount
  <2>2. Atomic!PeriodSpend(steps, since) = PeriodSpend(steps, since)
    <3>1. Atomic!SpentUnits(steps, since) = SpentUnits(steps, since)
      BY <1>2
    <3> QED
      BY <1>0, <3>1, Zenon DEF Atomic!PeriodSpend, PeriodSpend
  <2> QED
    BY <2>1, <2>2
<1>4. Atomic!DayStart(day) = DayStart(day) /\ Atomic!MonthStart(day) = MonthStart(day)
  BY DEF Atomic!DayStart, Atomic!MonthStart, DayStart, MonthStart
<1>5. /\ Atomic!PeriodCount(steps, Atomic!DayStart(day)) <= DailyRequestCap
      /\ Atomic!PeriodSpend(steps, Atomic!DayStart(day)) <= DailyBudget + Overrun
      /\ Atomic!PeriodSpend(steps, Atomic!MonthStart(day)) <= MonthlyBudget + Overrun
  BY <1>3, <1>4
<1> QED
  BY <1>5 DEF Atomic!Affordable

LEMMA OneTurnStep ==
  ASSUME TypeOK, SingleWriter, BudgetInv, BudgetInv', FrozenInv, OneTurnAtATime, [Next]_vars
  PROVE  OneTurnAtATime'
<1> USE DEF OneTurnAtATime, NewBill
<1>0. /\ pc \in [Requests -> Stages] /\ db \in Db /\ wdb \in Db
      /\ NoRequest \notin Requests /\ today \in Nat
      /\ \A r \in Requests : TurnOf(r) \in Turns
      /\ lock = NoRequest => wdb = db
  BY TurnTyping, TurnAssumption DEF TypeOK, SingleWriter
<1>1. ASSUME NEW r \in Requests, Submit(r) PROVE OneTurnAtATime'
  <2>1. lock # r /\ UNCHANGED <<db, wdb, lock, today>>
    BY <1>1 DEF Submit
  <2>2. \A q \in Requests : q # r => TurnOf(q)' = TurnOf(q) /\ pc'[q] = pc[q]
    BY <1>0, <1>1 DEF Submit, TypeOK, Goto, TurnOf
  <2> QED
    BY <2>1, <2>2
<1>2. ASSUME NEW r \in Requests, pc[r] # "idle", pc'[r] # "idle",
             UNCHANGED <<db, form, today>>,
             lock' \in {NoRequest, lock} \/ (lock' = r /\ lock = NoRequest /\ wdb = db),
             \A q \in Requests : q # r => pc'[q] = pc[q],
             \/ wdb'.run = wdb.run /\ wdb'.step = wdb.step
             \/ lock' = NoRequest
      PROVE  OneTurnAtATime'
  <2>1. \A q \in Requests : TurnOf(q)' = TurnOf(q)
    BY <1>2 DEF TurnOf
  <2> QED
    BY <1>0, <1>2, <2>1
<1>3. ASSUME NEW r \in Requests, LookUpMessage(r) PROVE OneTurnAtATime'
  BY <1>0, <1>2, <1>3 DEF LookUpMessage, Goto
<1>4. ASSUME NEW r \in Requests, InsertMessage(r) PROVE OneTurnAtATime'
  BY <1>0, <1>2, <1>4 DEF InsertMessage, Goto
<1>5. ASSUME NEW r \in Requests, CreateRun(r) PROVE OneTurnAtATime'
  <2> DEFINE t == TurnOf(r)
  <2>1. /\ pc[r] = "run" /\ t \in Turns /\ UNCHANGED <<db, form, today>>
        /\ TurnOf(r)' = t /\ pc'[r] # "idle"
        /\ \A q \in Requests : q # r => pc'[q] = pc[q]
    BY <1>0, <1>5 DEF CreateRun, Goto, TurnOf
  <2>2. CASE UNCHANGED <<lock, wdb>>
    BY <1>2, <2>1, <2>2
  <2>3. CASE /\ View(r).run[t] = "none" /\ lock \in {NoRequest, r} /\ lock' = r
             /\ wdb' = [wdb EXCEPT !.run[t] = "running"]
    <3>1. /\ wdb'.step = wdb.step /\ wdb'.run[t] = "running"
          /\ \A u \in Turns \ {t} : wdb'.run[u] = wdb.run[u]
      BY <1>0, <2>1, <2>3 DEF Db
    <3>2. wdb.run[t] = "none" /\ db.run[t] # "completed"
      BY <1>0, <2>1, <2>3 DEF View, FrozenInv, ClosedKept
    <3>3. \A u \in Turns \ {t} : wdb.run[u] = db.run[u] /\ wdb.step[u] = db.step[u]
      BY <1>0, <2>3
    <3>4. wdb.step[t] = db.step[t]
      BY <1>0, <2>3, <3>2
    <3> QED
      BY <2>1, <2>3, <3>1, <3>2, <3>3, <3>4
  <2> QED
    BY <1>5, <2>2, <2>3, SMTT(30) DEF CreateRun
<1>6. ASSUME NEW r \in Requests, SetContext(r) PROVE OneTurnAtATime'
  BY <1>0, <1>2, <1>6 DEF SetContext, Goto
<1>7. ASSUME NEW r \in Requests, NEW step, NEW text, pc[r] \in HeldStages,
             step.status # "none", step.day = today,
             UNCHANGED <<db, lock, form, today>>, AppendStep(r, step, text)
      PROVE  OneTurnAtATime'
  <2> DEFINE t == TurnOf(r)
  <2>1. /\ lock = r /\ pc[r] # "idle" /\ t \in Turns /\ wdb.run[t] = "running"
        /\ TurnOf(r)' = t /\ pc'[r] # "idle"
        /\ \A q \in Requests : q # r => pc'[q] = pc[q]
        /\ db.run[t] # "completed"
    BY <1>0, <1>7 DEF AppendStep, Goto, TurnOf, SingleWriter, HeldStages, FrozenInv,
                      RunOpen, ClosedKept
  <2>2. CASE UNCHANGED wdb
    BY <1>2, <1>7, <2>1, <2>2
  <2>3. CASE wdb.step[t] = NoStep /\ wdb' = [wdb EXCEPT !.step[t] = step]
    <3>1. /\ wdb'.run = wdb.run /\ wdb'.step[t] = step
          /\ \A u \in Turns \ {t} : wdb'.step[u] = wdb.step[u]
      BY <1>0, <2>1, <2>3 DEF Db
    <3>2. db.step[t] = NoStep
      BY <2>1, <2>3 DEF NoStep
    <3>3. Atomic!Affordable(wdb.step, today)'
      BY CapsAffordable DEF BudgetInv, WithinCaps
    <3>4. NewBill(t)'
      BY <1>0, <1>7, <2>1, <3>1, <3>2, <3>3
    <3> QED
      BY <1>7, <2>1, <3>1, <3>4
  <2> QED
    BY <1>7, <2>2, <2>3, SMTT(30) DEF AppendStep
<1>8. ASSUME NEW r \in Requests, RequestCompletion(r) PROVE OneTurnAtATime'
  <2>1. UNCHANGED <<db, lock, form, today>> /\ pc[r] = "ai" /\ pc[r] \in HeldStages
    BY <1>8 DEF RequestCompletion, HeldStages
  <2>2. CASE AppendStep(r, FreeStep("skipped", "ai_not_configured", today), "disabled")
    BY <1>7, <2>1, <2>2 DEF FreeStep, NoStep
  <2>3. ASSUME NEW tokens \in Estimates,
               AppendStep(r, FreeStep("skipped", BudgetDecision(wdb.step, tokens, today),
                                      today), "budget")
        PROVE  OneTurnAtATime'
    <3>1. /\ FreeStep("skipped", BudgetDecision(wdb.step, tokens, today), today).status
               # "none"
          /\ FreeStep("skipped", BudgetDecision(wdb.step, tokens, today), today).day = today
      BY DEF FreeStep, NoStep
    <3> QED
      BY <1>7, <2>1, <2>3, <3>1
  <2>4. CASE (Goto(r, "calling") \/ Goto(r, "reject")) /\ UNCHANGED wdb
    BY <1>0, <1>2, <2>1, <2>4 DEF Goto
  <2> QED
    BY <1>8, <2>2, <2>3, <2>4 DEF RequestCompletion
<1>9. ASSUME NEW r \in Requests, ProviderAnswers(r) PROVE OneTurnAtATime'
  <2>1. UNCHANGED <<db, lock, form, today>> /\ pc[r] \in HeldStages /\ pc[r] # "idle"
    BY <1>9 DEF ProviderAnswers, HeldStages
  <2>2. CASE Goto(r, "reject") /\ UNCHANGED <<wdb, call>>
    BY <1>0, <1>2, <2>1, <2>2 DEF Goto
  <2>3. ASSUME NEW input, NEW output, NEW text,
               AppendStep(r, CompletedStep(input, output, today), text)
        PROVE  OneTurnAtATime'
    <3>1. /\ CompletedStep(input, output, today).status # "none"
          /\ CompletedStep(input, output, today).day = today
      BY DEF CompletedStep
    <3> QED
      BY <1>7, <2>1, <2>3, <3>1
  <2> QED
    BY <1>9, <2>2, <2>3 DEF ProviderAnswers
<1>10. ASSUME NEW r \in Requests, ProviderFails(r) PROVE OneTurnAtATime'
  <2>1. UNCHANGED <<db, lock, form, today>> /\ pc[r] \in HeldStages
    BY <1>10 DEF ProviderFails, HeldStages
  <2>2. PICK error \in ProviderErrors :
          AppendStep(r, FreeStep("failed", error, today), "failure")
    BY <1>10 DEF ProviderFails
  <2>3. /\ FreeStep("failed", error, today).status # "none"
        /\ FreeStep("failed", error, today).day = today
    BY DEF FreeStep, NoStep
  <2> QED
    BY <1>7, <2>1, <2>2, <2>3
<1>11. ASSUME NEW r \in Requests, ProviderTimesOut(r) PROVE OneTurnAtATime'
  BY <1>0, <1>2, <1>11 DEF ProviderTimesOut, Goto
<1>12. ASSUME NEW r \in Requests, SaveReply(r) PROVE OneTurnAtATime'
  <2>1. wdb'.run = wdb.run /\ wdb'.step = wdb.step
    BY <1>0, <1>12 DEF SaveReply, Db
  <2> QED
    BY <1>0, <1>2, <1>12, <2>1 DEF SaveReply, Goto
<1>13. ASSUME NEW r \in Requests, FinalizeRun(r) PROVE OneTurnAtATime'
  <2> DEFINE t == TurnOf(r)
  <2>1. /\ lock = r /\ lock' = r /\ t \in Turns /\ wdb.run[t] = "running"
        /\ UNCHANGED <<db, form, today>> /\ TurnOf(r)' = t /\ pc'[r] # "idle"
        /\ db.run[t] # "completed"
    BY <1>0, <1>13 DEF FinalizeRun, Goto, TurnOf, SingleWriter, HeldStages, FrozenInv,
                       RunOpen, ClosedKept
  <2>2. /\ wdb'.step = wdb.step /\ wdb'.run[t] = "completed"
        /\ \A u \in Turns \ {t} : wdb'.run[u] = wdb.run[u]
    BY <1>0, <1>13, <2>1 DEF FinalizeRun, Db
  <2> QED
    BY <2>1, <2>2
<1>14. ASSUME NEW r \in Requests, Commit(r) PROVE OneTurnAtATime'
  <2>1. CASE lock = r
    BY <1>0, <1>14, <2>1 DEF Commit
  <2>2. CASE lock # r
    BY <1>0, <1>2, <1>14, <2>2 DEF Commit, Goto
  <2> QED
    BY <2>1, <2>2
<1>15. ASSUME NEW r \in Requests, LockTimeout(r) PROVE OneTurnAtATime'
  BY <1>0, <1>2, <1>15 DEF LockTimeout, Goto, WaitStages
<1>16. CASE Restart
  BY <1>0, <1>16 DEF Restart
<1>17. CASE Midnight
  <2>1. \A q \in Requests : TurnOf(q)' = TurnOf(q)
    BY <1>17 DEF Midnight, TurnOf
  <2>2. \A q \in Requests : lock = q => wdb.step[TurnOf(q)].day \in Nat
    BY <1>0 DEF Db
  <2>3. today' = today + 1 /\ UNCHANGED <<db, wdb, lock, pc>>
    BY <1>17 DEF Midnight
  <2> QED
    BY <1>0, <2>1, <2>2, <2>3 DEF Atomic!Affordable
<1>18. CASE UNCHANGED vars
  BY <1>18 DEF vars, TurnOf
<1> QED
  BY <1>1, <1>3, <1>4, <1>5, <1>6, <1>8, <1>9, <1>10, <1>11, <1>12, <1>13,
     <1>14, <1>15, <1>16, <1>17, <1>18 DEF Next, Handle, Quiet

\* Seen from other connections the pipeline is the atomic ledger: whatever the
\* interleaving, retries, lost turns and midnights, a turn is settled in one
\* step, never changes once closed, and is billed once and within the caps.
THEOREM ImplementsLedger == Spec => ImplementsTurnLedger
<1>1. Init => Atomic!LedgerInit /\ OneTurnAtATime
  <2> SUFFICES ASSUME Init PROVE Atomic!LedgerInit /\ OneTurnAtATime
    OBVIOUS
  <2>1. Atomic!LedgerInit
    <3>1. [t \in Turns |-> TurnState(db.run[t])] = [t \in Turns |-> "none"]
      BY DEF Init, TurnState
    <3>2. db.step = [t \in Turns |-> Atomic!NoStep] /\ today = 0
      BY DEF Init, Atomic!NoStep, NoStep
    <3> QED
      BY <3>1, <3>2 DEF Atomic!LedgerInit
  <2> QED
    BY <2>1, TurnAssumption DEF Init, OneTurnAtATime
<1>2. TypeOK /\ SingleWriter /\ BudgetInv /\ BudgetInv' /\ FrozenInv /\ OneTurnAtATime
        /\ [Next]_vars => OneTurnAtATime'
  BY OneTurnStep
<1> DEFINE turn == [t \in Turns |-> TurnState(db.run[t])]
<1>3. TypeOK /\ SingleWriter /\ OneTurnAtATime /\ [Next]_vars
        => [Atomic!LedgerNext]_<<turn, db.step, today>>
  <2> SUFFICES ASSUME TypeOK, SingleWriter, OneTurnAtATime, [Next]_vars
               PROVE  [Atomic!LedgerNext]_<<turn, db.step, today>>
    OBVIOUS
  <2>1. CASE Midnight
    BY <2>1 DEF Midnight, Atomic!LedgerNext, Atomic!NextDay
  <2>2. ASSUME NEW r \in Requests, Commit(r), lock = r
        PROVE  [Atomic!LedgerNext]_<<turn, db.step, today>>
    <3> DEFINE t == TurnOf(r)
    <3>1. /\ t \in Turns /\ db \in Db /\ wdb \in Db /\ db' = wdb /\ today' = today
          /\ \A u \in Turns \ {t} : wdb.run[u] = db.run[u] /\ wdb.step[u] = db.step[u]
      BY <2>2, TurnTyping DEF Commit, OneTurnAtATime, TypeOK
    <3>2. turn = [u \in Turns |-> TurnState(db.run[u])]
          /\ turn' = [u \in Turns |-> TurnState(wdb.run[u])]
      BY <3>1
    <3> HIDE DEF turn
    <3>3. CASE db.run[t] = wdb.run[t] /\ db.step[t] = wdb.step[t]
      <4>1. \A u \in Turns : db.run[u] = wdb.run[u] /\ db.step[u] = wdb.step[u]
        BY <3>1, <3>3
      <4>2. turn' = turn
        BY <3>2, <4>1
      <4>3. db'.step = db.step
        BY <3>1, <4>1 DEF Db
      <4> QED
        BY <3>1, <4>2, <4>3
    <3>4. CASE /\ db.run[t] # "completed" /\ wdb.run[t] # "none"
               /\ db.step[t] = wdb.step[t] \/ NewBill(t)
      <4>0. /\ wdb.run[t] \in {"running", "completed"} /\ db.run[t] \in {"none", "running"}
        BY <3>1, <3>4 DEF Db
      <4>1. TurnState(db.run[t]) # "closed" /\ TurnState(wdb.run[t]) \in {"open", "closed"}
        BY <4>0 DEF TurnState
      <4>2. /\ turn[t] # "closed"
            /\ \E state \in {"open", "closed"} : turn' = [turn EXCEPT ![t] = state]
        BY <3>1, <3>2, <4>1
      <4>3. db'.step = [db.step EXCEPT ![t] = db'.step[t]]
        BY <3>1 DEF Db
      <4>4. \/ db'.step = db.step
            \/ /\ db.step[t] = Atomic!NoStep /\ db'.step[t].status # "none"
               /\ db'.step[t].day <= today
               /\ Atomic!Affordable(db'.step, db'.step[t].day)
        BY <3>1, <3>4, <4>3 DEF NewBill, NoStep, Atomic!NoStep, Db
      <4>5. Atomic!Settle(t)
        BY <3>1, <4>2, <4>3, <4>4 DEF Atomic!Settle, turn
      <4> QED
        BY <3>1, <4>5 DEF Atomic!LedgerNext, turn
    <3> QED
      BY <2>2, <3>3, <3>4 DEF OneTurnAtATime, NewBill, turn
  <2>3. CASE UNCHANGED <<db, today>>
    BY <2>3
  <2> QED
    BY <2>1, <2>2, <2>3
       DEF Next, Handle, Quiet, vars, Submit, LookUpMessage, InsertMessage, CreateRun,
           SetContext, RequestCompletion, ProviderAnswers, ProviderFails,
           ProviderTimesOut, SaveReply, FinalizeRun, Commit, LockTimeout, Restart
<1> QED
  BY <1>1, <1>2, <1>3, TypeCorrect, WriterIsSingle, BudgetHolds, FrozenHolds, PTL
     DEF Spec, ImplementsTurnLedger, Atomic!LedgerSpec
-----------------------------------------------------------------------------
(* Whole turns, matching replies and explained calls.                      *)

\* Turns whose keys fit: a short key, or none.
Fitting == ShortKeys \cup Requests

\* A submission with a blank key: its reply goes where all such replies go.
Blank(t) == t \in Requests /\ form[t].key = BlankKey
ReplyAt(t) == IF Blank(t) THEN BlankKey ELSE t

\* A reply is what the step accounts for.
Matches(step, text, t) ==
  CASE step.status = "none"      -> text = "deterministic"
    [] step.status = "failed"    -> text = "failure"
    [] step.status = "skipped"   ->
         text = IF step.reason = "ai_not_configured" THEN "disabled" ELSE "budget"
    [] step.status = "completed" -> text \in Requests /\ (t \in Requests => text = t)

\* What an image of the database says of a turn: nothing, or all of it.
NothingYet(d, t) ==
  d.run[t] = "none" /\ d.step[t] = NoStep /\ (Blank(t) \/ d.reply[t] = "none")

EmptyTurn(d, t) == d.msg[t] = NoContent /\ NothingYet(d, t)

Stepped(d, t) == d.step[t] # NoStep <=> d.msg[t] \in ModelContents

ClosedTurn(d, t) ==
  /\ d.msg[t] # NoContent /\ d.run[t] = "completed" /\ Stepped(d, t)
  /\ d.reply[ReplyAt(t)] # "none" /\ Matches(d.step[t], d.reply[ReplyAt(t)], t)

\* A run that has no reply; a step is only that of an answer to a message that needed
\* the model.
Unanswered(d, t) ==
  /\ d.run[t] = "running" /\ (Blank(t) \/ d.reply[t] = "none")
  /\ d.step[t] = NoStep \/ (d.step[t].status = "completed" /\ d.msg[t] \in ModelContents)

OpenTurn(d, t) == Unanswered(d, t) /\ d.msg[t] \in ModelContents

\* What is committed is whole or left open, but for blank keys that were refused.
CommittedWhole ==
  \A t \in Fitting : \/ EmptyTurn(db, t) \/ ClosedTurn(db, t) \/ LeftOpen(t)
                     \/ Blank(t) /\ pc[t] \in Ended /\ db.run[t] # "completed"

\* A key that does not fit never has a closed run.
LongStayOpen == \A t \in Turns \ Fitting : wdb.run[t] # "completed" /\ db.run[t] # "completed"

\* The writer leaves other turns, and the reply of the blank keys, as they are.
OthersSame ==
  \A r \in Requests : lock = r =>
    /\ pc[r] \notin {"idle", "save", "insert"} \cup Ended
    /\ \A t \in Turns \ {TurnOf(r)} :
         /\ wdb.msg[t] = db.msg[t] /\ wdb.run[t] = db.run[t]
         /\ wdb.step[t] = db.step[t] /\ wdb.reply[t] = db.reply[t]
    /\ db.reply[BlankKey] \in {"none", wdb.reply[BlankKey]}

\* Who can tell of the open turn the writer would commit: the writer itself, or
\* whoever was told when it was left open.
Witnessed(r) ==
  LET t == TurnOf(r)
  IN  \/ wdb.msg[t] = form[r].content /\ (wdb.step[t] = NoStep \/ call[r].tokens # 0)
      \/ LeftOpen(t) /\ wdb.msg[t] = db.msg[t] /\ wdb.step[t] = db.step[t]

\* How far the writer has come with a turn that fits.
Progress(r) ==
  LET t == TurnOf(r)
  IN  /\ pc[r] = "run" => \/ ClosedTurn(wdb, t)
                          \/ Witnessed(r) /\ (NothingYet(wdb, t) \/ OpenTurn(wdb, t))
      /\ pc[r] \in {"context", "ai", "calling"} => Witnessed(r) /\ Unanswered(wdb, t)
      /\ pc[r] \in {"ai", "calling"} => wdb.msg[t] \in ModelContents
      /\ pc[r] = "calling" => call[r].tokens # 0
      /\ pc[r] \in {"reply", "finalize"} =>
           wdb.run[t] = "running" /\ Stepped(wdb, t) /\ call[r].text # "none"
      /\ pc[r] = "reply" =>
           /\ Blank(t) \/ wdb.reply[t] = "none"
           /\ \/ Matches(wdb.step[t], call[r].text, t)
              \/ /\ call[r].text = Unstorable
                 /\ wdb.step[t].status = "completed" /\ call[r].tokens # 0
      /\ pc[r] = "finalize" =>
           Matches(wdb.step[t], call[r].text, t) /\ wdb.reply[ReplyAt(t)] = call[r].text
      /\ pc[r] = "settle" => ClosedTurn(wdb, t)
      /\ pc[r] = "reject" => \/ ClosedTurn(wdb, t)
                             \/ Witnessed(r) /\ OpenTurn(wdb, t)
                             \/ Blank(t) /\ wdb.run[t] # "completed"

WriterProgresses == \A r \in Requests : lock = r /\ TurnOf(r) \in Fitting => Progress(r)

\* Where a handler stands says what it has seen.
StagesExplained ==
  \A r \in Requests :
    /\ pc[r] \in {"finalize", "settle", "answered"} => TurnOf(r) \in Fitting
    /\ pc[r] = "settle" /\ lock # r => db.run[TurnOf(r)] = "completed"
    /\ pc[r] = "answered" => db.run[TurnOf(r)] = "completed"
    /\ pc[r] = "idle" => form[r].key = NoKey /\ EmptyTurn(db, r)

\* What every step keeps.
TurnInv ==
  CommittedWhole /\ LongStayOpen /\ OthersSame /\ WriterProgresses /\ StagesExplained

\* Which turn is whose: a turn without a key has one submission, and its key
\* says whether everything of it fits.
LEMMA TurnFacts ==
  ASSUME TypeOK
  PROVE  /\ \A r \in Requests : TurnOf(r) \in Turns /\ ReplyOf(r) = ReplyAt(TurnOf(r))
         /\ \A r \in Requests, t \in Requests : TurnOf(r) = t => r = t
         /\ \A r \in Requests : TurnOf(r) \in Fitting <=> form[r].key \notin MidKeys \cup LongKeys
         /\ Fitting \subseteq Turns /\ BlankKey \notin Turns /\ NoRequest \notin Requests
<1>1. BlankKey \notin Turns /\ NoRequest \notin Requests /\ Fitting \subseteq Turns
  BY TurnAssumption DEF Turns, Keys, Fitting
<1>2. ASSUME NEW r \in Requests
      PROVE  /\ TurnOf(r) \in Turns /\ ReplyOf(r) = ReplyAt(TurnOf(r))
             /\ \A t \in Requests : TurnOf(r) = t => r = t
             /\ TurnOf(r) \in Fitting <=> form[r].key \notin MidKeys \cup LongKeys
  <2>1. CASE form[r].key \in Keys
    BY <2>1, TurnAssumption DEF TurnOf, ReplyOf, ReplyAt, Blank, Turns, Fitting, Keys
  <2>2. CASE form[r].key \notin Keys
    BY <2>2, TurnAssumption DEF TurnOf, ReplyOf, ReplyAt, Blank, Turns, Fitting, Keys
  <2> QED
    BY <2>1, <2>2
<1> QED
  BY <1>1, <1>2

\* Before its first write a submission sees nothing of its turn, all of it, or a turn
\* that an earlier submission has left open.
LEMMA SeenWhole ==
  ASSUME TypeOK, TurnInv, NEW r \in Requests, TurnOf(r) \in Fitting,
         pc[r] \notin Ended
  PROVE  \/ EmptyTurn(db, TurnOf(r)) \/ ClosedTurn(db, TurnOf(r))
         \/ LeftOpen(TurnOf(r)) /\ OpenTurn(db, TurnOf(r))
<1>1. ASSUME LeftOpen(TurnOf(r)) PROVE OpenTurn(db, TurnOf(r))
  BY <1>1 DEF LeftOpen, OpenTurn, Unanswered
<1> QED
  BY <1>1, TurnFacts DEF TurnInv, CommittedWhole, Blank

\* A turn stays open while its rows, and those who were told, stay as they are.
LEMMA LeftOpenKept ==
  ASSUME NEW t \in Turns, LeftOpen(t),
         db'.msg[t] = db.msg[t], db'.run[t] = db.run[t],
         db'.step[t] = db.step[t], db'.reply[t] = db.reply[t],
         \A q \in Requests : pc[q] = "rejected" =>
           pc'[q] = "rejected" /\ form'[q] = form[q] /\ call'[q] = call[q]
  PROVE  LeftOpen(t)'
<1>1. PICK q \in Requests :
        /\ TurnOf(q) = t /\ pc[q] = "rejected" /\ form[q].content = db.msg[t]
        /\ \/ db.step[t] = NoStep
           \/ db.step[t].status = "completed" /\ call[q].tokens # 0
  BY DEF LeftOpen
<1>2. pc'[q] = "rejected" /\ form'[q] = form[q] /\ call'[q] = call[q] /\ TurnOf(q)' = t
  BY <1>1 DEF TurnOf
<1> QED
  BY <1>1, <1>2 DEF LeftOpen

\* A handler that only reads, or gives up, without the lock.
Reads(r, s) ==
  /\ lock # r /\ pc[r] \notin Ended \cup {"idle"} /\ s # "idle"
  /\ pc' = [pc EXCEPT ![r] = s]
  /\ s \in {"finalize", "settle", "answered"} =>
       TurnOf(r) \in Fitting /\ db.run[TurnOf(r)] = "completed"
  /\ UNCHANGED <<db, wdb, lock, form, call>>

LEMMA ReadStep ==
  ASSUME TypeOK, TurnInv, NEW r \in Requests, NEW s \in Stages, Reads(r, s)
  PROVE  TurnInv'
<1> USE DEF TurnInv, Reads
<1>1. /\ \A q \in Requests : TurnOf(q)' = TurnOf(q) /\ (q # r => pc'[q] = pc[q])
      /\ pc'[r] = s
      /\ \A t \in Turns : Blank(t)' = Blank(t) /\ ReplyAt(t)' = ReplyAt(t)
  BY DEF TurnOf, Blank, ReplyAt, TypeOK
<1>2. /\ \A t \in Turns : EmptyTurn(db, t)' = EmptyTurn(db, t)
      /\ \A t \in Turns : ClosedTurn(db, t)' = ClosedTurn(db, t)
      /\ \A t \in Turns : LeftOpen(t) => LeftOpen(t)'
  <2>1. \A q \in Requests : pc[q] = "rejected" =>
          pc'[q] = "rejected" /\ form'[q] = form[q] /\ call'[q] = call[q]
    BY <1>1 DEF Ended
  <2> QED
    BY <1>1, <2>1, LeftOpenKept DEF EmptyTurn, NothingYet, ClosedTurn, Stepped
<1>3. CommittedWhole'
  <2> SUFFICES ASSUME NEW t \in Fitting
               PROVE  \/ EmptyTurn(db, t)' \/ ClosedTurn(db, t)' \/ LeftOpen(t)'
                      \/ Blank(t)' /\ pc'[t] \in Ended /\ db'.run[t] # "completed"
    BY DEF CommittedWhole
  <2>1. t \in Turns /\ (Blank(t) => t \in Requests)
    BY TurnFacts DEF Blank
  <2> QED
    BY <1>1, <1>2, <2>1 DEF CommittedWhole
<1>4. LongStayOpen'
  BY DEF LongStayOpen
<1>5. OthersSame'
  BY <1>1 DEF OthersSame
<1>6. WriterProgresses'
  <2> SUFFICES ASSUME NEW q \in Requests, lock = q, TurnOf(q) \in Fitting
               PROVE  Progress(q)'
    BY <1>1 DEF WriterProgresses
  <2>1. Progress(q) /\ q # r /\ TurnOf(q) \in Turns
    BY TurnFacts DEF WriterProgresses
  <2>2. Witnessed(q) => Witnessed(q)'
    BY <1>1, <1>2, <2>1 DEF Witnessed
  <2> QED
    BY <1>1, <2>1, <2>2 DEF Progress, NothingYet, ClosedTurn, Stepped, Unanswered, OpenTurn
<1>7. StagesExplained'
  <2> SUFFICES ASSUME NEW q \in Requests
               PROVE  (/\ pc[q] \in {"finalize", "settle", "answered"} => TurnOf(q) \in Fitting
                       /\ pc[q] = "settle" /\ lock # q => db.run[TurnOf(q)] = "completed"
                       /\ pc[q] = "answered" => db.run[TurnOf(q)] = "completed"
                       /\ pc[q] = "idle" => form[q].key = NoKey /\ EmptyTurn(db, q))'
    BY DEF StagesExplained
  <2>0. q \in Turns
    BY DEF Turns
  <2>1. CASE q # r
    BY <1>1, <1>2, <2>0, <2>1 DEF StagesExplained
  <2>2. CASE q = r
    BY <1>1, <2>2
  <2> QED
    BY <2>1, <2>2
<1> QED
  BY <1>3, <1>4, <1>5, <1>6, <1>7

\* A handler that writes its own turn, or goes on, with the lock.
Writes(r, s) ==
  /\ lock \in {NoRequest, r} /\ lock' = r /\ pc[r] \notin Ended \cup {"idle"}
  /\ s \notin {"idle", "save", "insert"} \cup Ended
  /\ s \in {"finalize", "settle"} => TurnOf(r) \in Fitting
  /\ pc' = [pc EXCEPT ![r] = s]
  /\ \A t \in Turns \ {TurnOf(r)} : Untouched(t)
  /\ wdb.reply[BlankKey] \in {"none", wdb'.reply[BlankKey]}
  /\ TurnOf(r) \notin Fitting => wdb'.run[TurnOf(r)] # "completed"
  /\ \A q \in Requests \ {r} : call'[q] = call[q]
  /\ UNCHANGED <<db, form>>

LEMMA WriteStep ==
  ASSUME TypeOK, SingleWriter, TurnInv, NEW r \in Requests, NEW s \in Stages,
         Writes(r, s), TurnOf(r) \in Fitting => Progress(r)'
  PROVE  TurnInv'
<1> USE DEF TurnInv, Writes
<1>1. /\ \A q \in Requests : TurnOf(q)' = TurnOf(q) /\ (q # r => pc'[q] = pc[q])
      /\ pc'[r] = s
      /\ \A t \in Turns : Blank(t)' = Blank(t) /\ ReplyAt(t)' = ReplyAt(t)
  BY DEF TurnOf, Blank, ReplyAt, TypeOK
<1>2. /\ \A t \in Turns : EmptyTurn(db, t)' = EmptyTurn(db, t)
      /\ \A t \in Turns : ClosedTurn(db, t)' = ClosedTurn(db, t)
      /\ \A t \in Turns : LeftOpen(t) => LeftOpen(t)'
  <2>1. \A q \in Requests : pc[q] = "rejected" =>
          pc'[q] = "rejected" /\ form'[q] = form[q] /\ call'[q] = call[q]
    BY <1>1 DEF Ended
  <2> QED
    BY <1>1, <2>1, LeftOpenKept DEF EmptyTurn, NothingYet, ClosedTurn, Stepped
<1>3. CommittedWhole'
  <2> SUFFICES ASSUME NEW t \in Fitting
               PROVE  \/ EmptyTurn(db, t)' \/ ClosedTurn(db, t)' \/ LeftOpen(t)'
                      \/ Blank(t)' /\ pc'[t] \in Ended /\ db'.run[t] # "completed"
    BY DEF CommittedWhole
  <2>1. t \in Turns /\ (Blank(t) => t \in Requests)
    BY TurnFacts DEF Blank
  <2> QED
    BY <1>1, <1>2, <2>1 DEF CommittedWhole
<1>4. LongStayOpen'
  <2> SUFFICES ASSUME NEW t \in Turns \ Fitting
               PROVE  wdb'.run[t] # "completed" /\ db'.run[t] # "completed"
    BY DEF LongStayOpen
  <2> QED
    BY DEF LongStayOpen, Untouched
<1>5. OthersSame'
  <2>1. \A t \in Turns \ {TurnOf(r)} :
          /\ wdb.msg[t] = db.msg[t] /\ wdb.run[t] = db.run[t]
          /\ wdb.step[t] = db.step[t] /\ wdb.reply[t] = db.reply[t]
    BY DEF OthersSame, SingleWriter
  <2>2. db.reply[BlankKey] \in {"none", wdb.reply[BlankKey]}
    BY DEF OthersSame, SingleWriter
  <2> QED
    BY <1>1, <2>1, <2>2 DEF OthersSame, Untouched, Ended
<1>6. WriterProgresses'
  BY <1>1 DEF WriterProgresses
<1>7. StagesExplained'
  <2> SUFFICES ASSUME NEW q \in Requests
               PROVE  (/\ pc[q] \in {"finalize", "settle", "answered"} => TurnOf(q) \in Fitting
                       /\ pc[q] = "settle" /\ lock # q => db.run[TurnOf(q)] = "completed"
                       /\ pc[q] = "answered" => db.run[TurnOf(q)] = "completed"
                       /\ pc[q] = "idle" => form[q].key = NoKey /\ EmptyTurn(db, q))'
    BY DEF StagesExplained
  <2>0. q \in Turns
    BY DEF Turns
  <2>1. CASE q # r
    <3>1. lock # q
      BY <2>1, TurnFacts
    <3> QED
      BY <1>1, <1>2, <2>0, <2>1, <3>1 DEF StagesExplained
  <2>2. CASE q = r
    BY <1>1, <2>2 DEF Ended
  <2> QED
    BY <2>1, <2>2
<1> QED
  BY <1>3, <1>4, <1>5, <1>6, <1>7

\* A rollback: what is committed is what there is, and whoever had the lock failed.
LEMMA RollbackStep ==
  ASSUME TypeOK, TurnInv, lock' = NoRequest, wdb' = db, UNCHANGED <<db, form, call>>,
         \A q \in Requests : pc'[q] = pc[q] \/ (pc'[q] = "failed" /\ pc[q] \notin Ended \cup {"idle"}),
         \A q \in Requests : lock = q => pc'[q] = "failed"
  PROVE  TurnInv'
<1> USE DEF TurnInv
<1>1. /\ \A q \in Requests : TurnOf(q)' = TurnOf(q)
      /\ \A t \in Turns : Blank(t)' = Blank(t) /\ ReplyAt(t)' = ReplyAt(t)
      /\ NoRequest \notin Requests
  BY TurnFacts DEF TurnOf, Blank, ReplyAt
<1>2. /\ \A t \in Turns : EmptyTurn(db, t)' = EmptyTurn(db, t)
      /\ \A t \in Turns : ClosedTurn(db, t)' = ClosedTurn(db, t)
      /\ \A t \in Turns : LeftOpen(t) => LeftOpen(t)'
  <2>1. \A q \in Requests : pc[q] = "rejected" =>
          pc'[q] = "rejected" /\ form'[q] = form[q] /\ call'[q] = call[q]
    BY <1>1 DEF Ended
  <2> QED
    BY <1>1, <2>1, LeftOpenKept DEF EmptyTurn, NothingYet, ClosedTurn, Stepped
<1>3. CommittedWhole'
  <2> SUFFICES ASSUME NEW t \in Fitting
               PROVE  \/ EmptyTurn(db, t)' \/ ClosedTurn(db, t)' \/ LeftOpen(t)'
                      \/ Blank(t)' /\ pc'[t] \in Ended /\ db'.run[t] # "completed"
    BY DEF CommittedWhole
  <2>1. t \in Turns /\ (Blank(t) => t \in Requests)
    BY TurnFacts DEF Blank
  <2> QED
    BY <1>1, <1>2, <2>1 DEF CommittedWhole, Ended
<1>4. LongStayOpen'
  BY DEF LongStayOpen
<1>5. OthersSame' /\ WriterProgresses'
  BY <1>1 DEF OthersSame, WriterProgresses
<1>7. StagesExplained'
  <2> SUFFICES ASSUME NEW q \in Requests
               PROVE  (/\ pc[q] \in {"finalize", "settle", "answered"} => TurnOf(q) \in Fitting
                       /\ pc[q] = "settle" /\ lock # q => db.run[TurnOf(q)] = "completed"
                       /\ pc[q] = "answered" => db.run[TurnOf(q)] = "completed"
                       /\ pc[q] = "idle" => form[q].key = NoKey /\ EmptyTurn(db, q))'
    BY DEF StagesExplained
  <2>0. q \in Turns
    BY DEF Turns
  <2>1. CASE pc'[q] = "failed"
    BY <2>1
  <2>2. CASE pc'[q] = pc[q] /\ pc'[q] # "failed"
    BY <1>1, <1>2, <2>0, <2>2 DEF StagesExplained
  <2> QED
    BY <2>1, <2>2
<1> QED
  BY <1>3, <1>4, <1>5, <1>7

\* The commit of a writer: its turn is closed, or it is a refused blank key, or
\* its key does not fit.
LEMMA CommitStep ==
  ASSUME TypeOK, SingleWriter, FrozenInv, TurnInv, NEW r \in Requests, Commit(r), lock = r
  PROVE  TurnInv'
<1> USE DEF TurnInv
<1> DEFINE u == TurnOf(r)
<1>1. /\ \A q \in Requests : TurnOf(q)' = TurnOf(q) /\ (q # r => pc'[q] = pc[q])
      /\ pc[r] \in {"settle", "reject"}
      /\ pc'[r] = IF pc[r] = "settle" THEN "answered" ELSE "rejected"
      /\ db' = wdb /\ wdb' = wdb /\ lock' = NoRequest /\ form' = form /\ call' = call
      /\ u \in Turns /\ NoRequest \notin Requests
      /\ \A t \in Turns : Blank(t)' = Blank(t) /\ ReplyAt(t)' = ReplyAt(t)
  BY TurnFacts DEF TurnOf, Blank, ReplyAt, TypeOK, Commit, Goto
<1>2. \A t \in Turns \ {u} :
        /\ db'.msg[t] = db.msg[t] /\ db'.run[t] = db.run[t]
        /\ db'.step[t] = db.step[t] /\ db'.reply[t] = db.reply[t]
  BY <1>1 DEF OthersSame
<1>3. db.reply[BlankKey] \in {"none", db'.reply[BlankKey]}
  BY <1>1 DEF OthersSame
<1>4. u \in Fitting => Progress(r)
  BY DEF WriterProgresses
<1>5. pc[r] = "settle" => u \in Fitting
  BY DEF StagesExplained
<1>6. ASSUME NEW t \in Turns \ {u}
      PROVE  /\ EmptyTurn(db, t) => EmptyTurn(db, t)'
             /\ ClosedTurn(db, t) => ClosedTurn(db, t)'
             /\ LeftOpen(t) => LeftOpen(t)'
  <2>1. EmptyTurn(db, t) => EmptyTurn(db, t)'
    BY <1>1, <1>2, <1>6 DEF EmptyTurn, NothingYet
  <2>2. ASSUME ClosedTurn(db, t) PROVE db'.reply[ReplyAt(t)] = db.reply[ReplyAt(t)]
    <3>1. CASE Blank(t)
      BY <1>3, <2>2, <3>1 DEF ReplyAt, ClosedTurn
    <3>2. CASE ~Blank(t)
      BY <1>2, <1>6, <3>2 DEF ReplyAt
    <3> QED
      BY <3>1, <3>2
  <2>3. LeftOpen(t) => LeftOpen(t)'
    BY <1>1, <1>2, <1>6, LeftOpenKept
  <2> QED
    BY <1>1, <1>2, <1>6, <2>1, <2>2, <2>3 DEF ClosedTurn, Stepped
<1>7. u \in Fitting => \/ ClosedTurn(wdb, u)' \/ LeftOpen(u)'
                       \/ Blank(u)' /\ wdb'.run[u] # "completed"
  <2>1. CASE ClosedTurn(wdb, u)
    BY <1>1, <2>1 DEF ClosedTurn, Stepped
  <2>2. CASE Blank(u) /\ wdb.run[u] # "completed"
    BY <1>1, <2>2
  <2>3. CASE ~Blank(u) /\ Witnessed(r) /\ OpenTurn(wdb, u) /\ pc[r] = "reject"
    <3>1. /\ db'.msg[u] \in ModelContents /\ db'.run[u] = "running"
          /\ db'.reply[u] = "none"
          /\ db'.step[u] = NoStep \/ db'.step[u].status = "completed"
      BY <1>1, <2>3 DEF OpenTurn, Unanswered
    <3>2. CASE /\ wdb.msg[u] = form[r].content
               /\ wdb.step[u] = NoStep \/ call[r].tokens # 0
      BY <1>1, <2>3, <3>1, <3>2 DEF LeftOpen
    <3>3. CASE LeftOpen(u) /\ wdb.msg[u] = db.msg[u] /\ wdb.step[u] = db.step[u]
      <4>1. PICK q \in Requests :
              /\ TurnOf(q) = u /\ pc[q] = "rejected" /\ form[q].content = db.msg[u]
              /\ \/ db.step[u] = NoStep
                 \/ db.step[u].status = "completed" /\ call[q].tokens # 0
        BY <3>3 DEF LeftOpen
      <4>2. TurnOf(q)' = u /\ pc'[q] = "rejected" /\ q # r
        BY <1>1, <4>1
      <4> QED
        BY <1>1, <3>1, <3>3, <4>1, <4>2 DEF LeftOpen
    <3> QED
      BY <2>3, <3>2, <3>3 DEF Witnessed
  <2>4. OpenTurn(wdb, u) => wdb.run[u] # "completed"
    BY DEF OpenTurn, Unanswered
  <2> QED
    BY <1>1, <1>4, <2>1, <2>2, <2>3, <2>4 DEF Progress
<1>8. pc[r] = "settle" => db'.run[u] = "completed"
  BY <1>1, <1>4, <1>5 DEF Progress, ClosedTurn
<1>9. CommittedWhole'
  <2> SUFFICES ASSUME NEW t \in Fitting
               PROVE  \/ EmptyTurn(db, t)' \/ ClosedTurn(db, t)' \/ LeftOpen(t)'
                      \/ Blank(t)' /\ pc'[t] \in Ended /\ db'.run[t] # "completed"
    BY DEF CommittedWhole
  <2>0. t \in Turns
    BY TurnFacts
  <2>1. CASE t # u
    <3>1. CASE EmptyTurn(db, t) \/ ClosedTurn(db, t) \/ LeftOpen(t)
      BY <1>6, <2>0, <2>1, <3>1
    <3>2. CASE Blank(t) /\ pc[t] \in Ended /\ db.run[t] # "completed"
      <4>1. t \in Requests /\ t # r
        BY <1>1, <3>2 DEF Blank, Ended
      <4> QED
        BY <1>1, <1>2, <2>0, <2>1, <3>2, <4>1
    <3> QED
      BY <3>1, <3>2 DEF CommittedWhole
  <2>2. CASE t = u
    <3>1. CASE ClosedTurn(wdb, u)' \/ LeftOpen(u)'
      BY <1>1, <2>2, <3>1
    <3>2. CASE Blank(u)' /\ wdb'.run[u] # "completed"
      <4>1. u \in Requests /\ u = r
        BY <1>1, <3>2, TurnFacts DEF Blank
      <4> QED
        BY <1>1, <2>2, <3>2, <4>1 DEF Ended
    <3> QED
      BY <1>7, <2>2, <3>1, <3>2
  <2> QED
    BY <2>1, <2>2
<1>10. LongStayOpen'
  BY <1>1 DEF LongStayOpen
<1>11. OthersSame' /\ WriterProgresses'
  BY <1>1 DEF OthersSame, WriterProgresses
<1>12. StagesExplained'
  <2> SUFFICES ASSUME NEW q \in Requests
               PROVE  (/\ pc[q] \in {"finalize", "settle", "answered"} => TurnOf(q) \in Fitting
                       /\ pc[q] = "settle" /\ lock # q => db.run[TurnOf(q)] = "completed"
                       /\ pc[q] = "answered" => db.run[TurnOf(q)] = "completed"
                       /\ pc[q] = "idle" => form[q].key = NoKey /\ EmptyTurn(db, q))'
    BY DEF StagesExplained
  <2>0. q \in Turns /\ TurnOf(q) \in Turns
    BY TurnFacts DEF Turns
  <2>1. CASE q # r
    <3>1. lock # q /\ lock' # q /\ pc'[q] = pc[q] /\ TurnOf(q)' = TurnOf(q)
      BY <1>1, <2>1
    <3>2. db.run[TurnOf(q)] = "completed" => db'.run[TurnOf(q)] = "completed"
      BY <1>1, <2>0 DEF FrozenInv, ClosedKept
    <3>3. pc'[q] = "idle" => q # u
      BY <2>1, TurnFacts
    <3>4. pc'[q] = "idle" => form'[q].key = NoKey /\ EmptyTurn(db, q)'
      BY <1>1, <1>6, <2>0, <3>1, <3>3 DEF StagesExplained
    <3> QED
      BY <3>1, <3>2, <3>4 DEF StagesExplained
  <2>2. CASE q = r
    BY <1>1, <1>5, <1>8, <2>2
  <2> QED
    BY <2>1, <2>2
<1> QED
  BY <1>9, <1>10, <1>11, <1>12

\* A submission arrives: nothing of its turn is there yet, or its key was seen.
LEMMA SubmitStep ==
  ASSUME TypeOK, TurnInv, NEW r \in Requests, Submit(r)
  PROVE  TurnInv'
<1> USE DEF TurnInv
<1>1. /\ pc[r] = "idle" /\ pc'[r] = "save"
      /\ \A q \in Requests : q # r => pc'[q] = pc[q] /\ form'[q] = form[q]
      /\ UNCHANGED <<db, wdb, lock, call>>
  BY DEF Submit, Goto, TypeOK
<1>2. \A q \in Requests : q # r => TurnOf(q)' = TurnOf(q)
  BY <1>1 DEF TurnOf
<1>3. \A t \in Turns : t # r => Blank(t)' = Blank(t) /\ ReplyAt(t)' = ReplyAt(t)
  BY <1>1 DEF Blank, ReplyAt
<1>4. lock # r
  BY <1>1 DEF OthersSame
<1>5. EmptyTurn(db, r)'
  BY <1>1, TurnAssumption DEF StagesExplained, EmptyTurn, NothingYet, Blank
<1>6. /\ \A t \in Turns : t # r =>
           EmptyTurn(db, t)' = EmptyTurn(db, t) /\ ClosedTurn(db, t)' = ClosedTurn(db, t)
      /\ \A t \in Turns : LeftOpen(t) => LeftOpen(t)'
  <2>1. \A q \in Requests : pc[q] = "rejected" =>
          pc'[q] = "rejected" /\ form'[q] = form[q] /\ call'[q] = call[q]
    BY <1>1
  <2> QED
    BY <1>1, <1>3, <2>1, LeftOpenKept DEF EmptyTurn, NothingYet, ClosedTurn, Stepped
<1>7. CommittedWhole'
  <2> SUFFICES ASSUME NEW t \in Fitting
               PROVE  \/ EmptyTurn(db, t)' \/ ClosedTurn(db, t)' \/ LeftOpen(t)'
                      \/ Blank(t)' /\ pc'[t] \in Ended /\ db'.run[t] # "completed"
    BY DEF CommittedWhole
  <2>1. t \in Turns /\ (Blank(t) => t \in Requests)
    BY TurnFacts DEF Blank
  <2>2. CASE t # r
    BY <1>1, <1>3, <1>6, <2>1, <2>2 DEF CommittedWhole
  <2> QED
    BY <1>5, <2>2
<1>8. LongStayOpen'
  BY <1>1 DEF LongStayOpen
<1>9. OthersSame'
  BY <1>1, <1>2, <1>4 DEF OthersSame
<1>10. WriterProgresses'
  <2> SUFFICES ASSUME NEW q \in Requests, lock = q, TurnOf(q) \in Fitting, q # r
               PROVE  Progress(q)'
    BY <1>1, <1>2, <1>4 DEF WriterProgresses
  <2>1. Progress(q) /\ TurnOf(q) \in Turns /\ TurnOf(q) # r
    BY TurnFacts DEF WriterProgresses
  <2>2. Witnessed(q) => Witnessed(q)'
    BY <1>1, <1>2, <1>6, <2>1 DEF Witnessed
  <2> QED
    BY <1>1, <1>2, <1>3, <2>1, <2>2
       DEF Progress, NothingYet, ClosedTurn, Stepped, Unanswered, OpenTurn
<1>11. StagesExplained'
  <2> SUFFICES ASSUME NEW q \in Requests, q # r
               PROVE  (/\ pc[q] \in {"finalize", "settle", "answered"} => TurnOf(q) \in Fitting
                       /\ pc[q] = "settle" /\ lock # q => db.run[TurnOf(q)] = "completed"
                       /\ pc[q] = "answered" => db.run[TurnOf(q)] = "completed"
                       /\ pc[q] = "idle" => form[q].key = NoKey /\ EmptyTurn(db, q))'
    BY <1>1 DEF StagesExplained
  <2>1. q \in Turns
    BY DEF Turns
  <2> QED
    BY <1>1, <1>2, <1>6, <2>1 DEF StagesExplained
<1> QED
  BY <1>7, <1>8, <1>9, <1>10, <1>11

\* Steps that agree but for the day have the same status and the same reason.
LEMMA SameStepFields ==
  ASSUME NEW one \in StepRows, NEW other \in StepRows, SameStepAppend(one, other)
  PROVE  one.status = other.status /\ one.reason = other.reason
<1>1. /\ [one EXCEPT !.day = 0].status = one.status
      /\ [one EXCEPT !.day = 0].reason = one.reason
  BY DEF StepRows
<1>2. /\ [other EXCEPT !.day = 0].status = other.status
      /\ [other EXCEPT !.day = 0].reason = other.reason
  BY DEF StepRows
<1> QED
  BY <1>1, <1>2 DEF SameStepAppend

\* The answer, the refusal or the error text goes with the step that is recorded.
LEMMA AppendStage ==
  ASSUME TypeOK, SingleWriter, FrozenInv, TurnInv, NEW r \in Requests,
         NEW step \in StepRows, NEW text \in Texts,
         pc[r] \in {"ai", "calling"}, AppendStep(r, step, text), UNCHANGED <<db, lock, form>>,
         step.status # "none",
         \/ Matches(step, text, TurnOf(r))
         \/ text = Unstorable /\ step.status = "completed" /\ pc[r] = "calling"
  PROVE  TurnInv'
<1> DEFINE t == TurnOf(r)
<1>1. /\ lock = r /\ t \in Turns /\ wdb \in Db /\ pc \in [Requests -> Stages]
      /\ call \in [Requests -> Calls] /\ wdb.run[t] = "running"
      /\ t \in Fitting <=> form[r].key \notin MidKeys \cup LongKeys
      /\ BlankKey \notin Turns
      /\ TurnOf(r)' = t /\ Blank(t)' = Blank(t) /\ ReplyAt(t)' = ReplyAt(t)
  BY TurnFacts DEF SingleWriter, HeldStages, TypeOK, Calls, FrozenInv, RunOpen, TurnOf,
     Blank, ReplyAt
<1>2. PICK s \in {"reply", "reject"} :
        pc' = [pc EXCEPT ![r] = s] /\ wdb' \in {wdb, [wdb EXCEPT !.step[t] = step]}
  BY DEF AppendStep, Goto
<1>3. /\ wdb'.msg = wdb.msg /\ wdb'.run = wdb.run /\ wdb'.reply = wdb.reply
      /\ \A u \in Turns \ {t} : wdb'.step[u] = wdb.step[u]
  BY <1>1, <1>2 DEF Db
<1>4. \A u \in Turns \ {t} : Untouched(u)
  BY <1>3 DEF Untouched
<1>5. /\ \A q \in Requests \ {r} : call'[q] = call[q]
      /\ call'[r].tokens = call[r].tokens
  BY <1>1 DEF AppendStep, Calls
<1>6. ASSUME t \in Fitting PROVE Progress(r)'
  <2>1. Witnessed(r) /\ OpenTurn(wdb, t) /\ (pc[r] = "calling" => call[r].tokens # 0)
    BY <1>1, <1>6 DEF TurnInv, WriterProgresses, Progress, OpenTurn
  <2>2. CASE /\ pc' = [pc EXCEPT ![r] = "reply"]
             /\ call' = [call EXCEPT ![r].text = text]
             /\ wdb' = (IF wdb.step[t] = NoStep THEN [wdb EXCEPT !.step[t] = step] ELSE wdb)
             /\ wdb.step[t] = NoStep \/ SameStepAppend(wdb.step[t], step)
    <3>0. "none" \notin Requests
      BY TurnAssumption
    <3>1. call'[r].text = text /\ pc'[r] = "reply" /\ text # "none"
      BY <1>1, <2>2, <3>0 DEF Calls, Texts, FixedTexts, Unstorable
    <3>2. wdb.step[t] \in StepRows
      BY <1>1 DEF Db, StepRows
    <3>3. wdb'.step[t].status = step.status /\ wdb'.step[t].reason = step.reason
      <4>1. CASE wdb.step[t] = NoStep
        <5>1. wdb' = [wdb EXCEPT !.step[t] = step]
          BY <2>2, <4>1
        <5>2. wdb'.step[t] = step
          BY <1>1, <5>1 DEF Db
        <5> QED
          BY <5>2
      <4>2. CASE wdb.step[t] # NoStep
        <5>1. wdb' = wdb /\ SameStepAppend(wdb.step[t], step)
          BY <2>2, <4>2
        <5>2. wdb.step[t].status = step.status /\ wdb.step[t].reason = step.reason
          BY <3>2, <5>1, SameStepFields
        <5> QED
          BY <5>1, <5>2
      <4> QED
        BY <4>1, <4>2
    <3>4. /\ wdb'.step[t] # NoStep /\ wdb'.msg[t] \in ModelContents
          /\ wdb'.run[t] = "running" /\ (Blank(t) \/ wdb'.reply[t] = "none")
      BY <1>3, <2>1, <3>3 DEF NoStep, OpenTurn, Unanswered
    <3>5. Matches(step, text, t) => Matches(wdb'.step[t], call'[r].text, t)
      BY <3>1, <3>3 DEF Matches
    <3>6. \/ Matches(wdb.step[t], call[r].text, t)'
          \/ /\ call'[r].text = Unstorable
             /\ wdb'.step[t].status = "completed" /\ call'[r].tokens # 0
      BY <1>1, <1>5, <2>1, <3>1, <3>3, <3>5 DEF Matches
    <3> QED
      BY <1>1, <3>1, <3>4, <3>6 DEF Progress, Stepped
  <2>3. CASE pc' = [pc EXCEPT ![r] = "reject"] /\ UNCHANGED <<wdb, call>>
    <3>1. pc'[r] = "reject"
      BY <1>1, <2>3
    <3>2. \A q \in Requests : pc[q] = "rejected" =>
            pc'[q] = "rejected" /\ form'[q] = form[q] /\ call'[q] = call[q]
      BY <1>1, <2>3
    <3>3. LeftOpen(t) => LeftOpen(t)'
      BY <1>1, <3>2, LeftOpenKept
    <3>4. Witnessed(r)' /\ OpenTurn(wdb, t)'
      BY <1>1, <2>1, <2>3, <3>3 DEF Witnessed, OpenTurn, Unanswered
    <3> QED
      BY <1>1, <3>1, <3>4 DEF Progress
  <2> QED
    BY <2>2, <2>3 DEF AppendStep, Goto
<1>7. wdb.reply[BlankKey] = wdb'.reply[BlankKey] /\ wdb'.run[t] # "completed"
  BY <1>1, <1>3
<1>8. s \in Stages /\ Writes(r, s)
  BY <1>1, <1>2, <1>4, <1>5, <1>7 DEF Writes, Ended, Stages, HeldStages
<1> QED
  BY <1>6, <1>8, WriteStep

\* The lookup and the INSERT of the message.
LEMMA MessageStage ==
  ASSUME TypeOK, SingleWriter, FrozenInv, TurnInv, NEW r \in Requests
  PROVE  /\ LookUpMessage(r) => TurnInv'
         /\ InsertMessage(r) => TurnInv'
<1> DEFINE t == TurnOf(r)
<1>1. /\ t \in Turns /\ wdb \in Db /\ pc \in [Requests -> Stages] /\ NoRequest \notin Requests
      /\ BlankKey \notin Turns /\ lock \in Requests \cup {NoRequest}
  BY TurnFacts DEF TypeOK
<1>2. ASSUME LookUpMessage(r) PROVE TurnInv'
  <2>1. lock # r /\ pc[r] = "save"
    BY <1>2 DEF LookUpMessage, TurnInv, OthersSame
  <2>2. PICK s \in {"insert", "run", "reject"} : pc' = [pc EXCEPT ![r] = s]
    BY <1>2 DEF LookUpMessage, Goto
  <2>3. s \in Stages /\ Reads(r, s)
    BY <1>2, <2>1, <2>2 DEF Reads, LookUpMessage, Ended, Stages, WaitStages
  <2> QED
    BY <2>3, ReadStep
<1>3. ASSUME InsertMessage(r) PROVE TurnInv'
  <2>1. /\ lock = NoRequest /\ lock' = r /\ pc[r] = "insert" /\ UNCHANGED <<db, form, call>>
        /\ wdb = db /\ form[r].content # NoContent
        /\ TurnOf(r)' = t /\ Blank(t)' = Blank(t) /\ ReplyAt(t)' = ReplyAt(t)
    BY <1>3 DEF InsertMessage, SingleWriter, FrozenInv, MessageFirst, TurnOf, Blank, ReplyAt
  <2> DEFINE s == IF wdb.msg[t] \in {NoContent, form[r].content} THEN "run" ELSE "reject"
  <2>2. s \in {"run", "reject"} /\ pc' = [pc EXCEPT ![r] = s] /\ pc'[r] = s
    BY <1>1, <1>3 DEF InsertMessage, Goto
  <2>3. /\ wdb'.run = wdb.run /\ wdb'.step = wdb.step /\ wdb'.reply = wdb.reply
        /\ \A u \in Turns \ {t} : wdb'.msg[u] = wdb.msg[u]
        /\ wdb'.msg[t] = IF wdb.msg[t] = NoContent THEN form[r].content ELSE wdb.msg[t]
    BY <1>1, <1>3 DEF InsertMessage, Db
  <2>4. \A u \in Turns \ {t} : Untouched(u)
    BY <2>3 DEF Untouched
  <2>5. t \notin Fitting => wdb'.run[t] # "completed"
    BY <1>1, <2>3 DEF TurnInv, LongStayOpen
  <2>6. wdb'.reply[BlankKey] = wdb.reply[BlankKey]
    BY <2>3
  <2>7. s \in Stages /\ Writes(r, s)
    BY <2>1, <2>2, <2>4, <2>5, <2>6 DEF Writes, Stages, WaitStages, Ended
  <2>8. ASSUME t \in Fitting PROVE Progress(r)'
    <3>1. EmptyTurn(wdb, t) \/ ClosedTurn(wdb, t) \/ (LeftOpen(t) /\ OpenTurn(wdb, t))
      BY <2>1, <2>8, SeenWhole DEF Ended
    <3>2. CASE EmptyTurn(wdb, t)
      <4>1. wdb.msg[t] = NoContent /\ pc'[r] = "run"
        BY <2>2, <3>2 DEF EmptyTurn
      <4>2. wdb'.msg[t] = form'[r].content /\ wdb'.step[t] = NoStep /\ NothingYet(wdb, t)'
        BY <2>1, <2>3, <3>2, <4>1 DEF EmptyTurn, NothingYet
      <4>3. Witnessed(r)'
        BY <2>1, <4>2 DEF Witnessed
      <4> QED
        BY <2>1, <4>1, <4>2, <4>3 DEF Progress
    <3>4. CASE LeftOpen(t) /\ OpenTurn(wdb, t)
      <4>1. wdb.msg[t] # NoContent
        BY <3>4, TurnAssumption DEF OpenTurn
      <4>2. wdb'.msg = wdb.msg
        BY <1>3, <4>1 DEF InsertMessage
      <4>3. \A q \in Requests : pc[q] = "rejected" =>
              pc'[q] = "rejected" /\ form'[q] = form[q] /\ call'[q] = call[q]
        BY <1>1, <2>1, <2>2
      <4>4. LeftOpen(t)'
        BY <1>1, <2>1, <3>4, <4>3, LeftOpenKept
      <4>5. Witnessed(r)' /\ OpenTurn(wdb, t)'
        BY <2>1, <2>3, <3>4, <4>2, <4>4 DEF Witnessed, OpenTurn, Unanswered
      <4> QED
        BY <2>1, <2>2, <4>5 DEF Progress
    <3>3. CASE ClosedTurn(wdb, t)
      <4>1. wdb.msg[t] # NoContent /\ ClosedTurn(wdb, t)'
        BY <2>1, <2>3, <3>3 DEF ClosedTurn, Stepped
      <4> QED
        BY <2>1, <2>2, <2>3, <4>1 DEF Progress
    <3> QED
      BY <3>1, <3>2, <3>3, <3>4
  <2> QED
    BY <2>7, <2>8, WriteStep
<1> QED
  BY <1>2, <1>3

\* create_agent_run: a run is opened by the one who wrote the message, or found open.
LEMMA RunStage ==
  ASSUME TypeOK, SingleWriter, FrozenInv, TurnInv, NEW r \in Requests, CreateRun(r)
  PROVE  TurnInv'
<1> DEFINE t == TurnOf(r)
<1>1. /\ t \in Turns /\ wdb \in Db /\ pc \in [Requests -> Stages] /\ NoRequest \notin Requests
      /\ BlankKey \notin Turns /\ lock \in Requests \cup {NoRequest}
      /\ pc[r] = "run" /\ pc[r] \notin Ended \cup {"idle"} /\ UNCHANGED <<db, form, call>>
      /\ TurnOf(r)' = t /\ Blank(t)' = Blank(t) /\ ReplyAt(t)' = ReplyAt(t)
  BY TurnFacts DEF TypeOK, CreateRun, Ended, TurnOf, Blank, ReplyAt
<1>0. View(r).msg[t] = form[r].content /\ form[r].content # NoContent
  BY <1>1 DEF FrozenInv, MessageFirst
<1>2. t \in Fitting /\ lock # r => ClosedTurn(db, t) \/ OpenTurn(db, t)
  BY <1>0, <1>1, SeenWhole DEF View, EmptyTurn
<1>3. t \in Fitting /\ lock = r =>
        ClosedTurn(wdb, t) \/ (Witnessed(r) /\ (NothingYet(wdb, t) \/ OpenTurn(wdb, t)))
  BY <1>1 DEF TurnInv, WriterProgresses, Progress
<1>4. CASE /\ View(r).run[t] = "none" /\ lock \in {NoRequest, r} /\ lock' = r
           /\ wdb' = [wdb EXCEPT !.run[t] = "running"] /\ Goto(r, "context")
  <2>1. t \in Fitting => lock = r /\ wdb.run[t] = "none"
    BY <1>2, <1>4 DEF View, ClosedTurn, OpenTurn, Unanswered
  <2>2. /\ wdb'.msg = wdb.msg /\ wdb'.step = wdb.step /\ wdb'.reply = wdb.reply
        /\ wdb'.run[t] = "running" /\ \A u \in Turns \ {t} : wdb'.run[u] = wdb.run[u]
        /\ pc' = [pc EXCEPT ![r] = "context"] /\ pc'[r] = "context"
    BY <1>1, <1>4 DEF Db, Goto
  <2>3. \A u \in Turns \ {t} : Untouched(u)
    BY <2>2 DEF Untouched
  <2>4. wdb'.reply[BlankKey] = wdb.reply[BlankKey]
    BY <2>2
  <2>5. "context" \in Stages /\ Writes(r, "context")
    BY <1>1, <1>4, <2>2, <2>3, <2>4 DEF Writes, Stages, WaitStages, Ended
  <2>6. ASSUME t \in Fitting PROVE Progress(r)'
    <3>1. NothingYet(wdb, t) /\ wdb.msg[t] = form[r].content
      BY <1>0, <1>3, <2>1, <2>6 DEF ClosedTurn, OpenTurn, Unanswered, View
    <3>2. Witnessed(r)' /\ Unanswered(wdb, t)'
      BY <1>1, <2>2, <3>1 DEF Witnessed, Unanswered, NothingYet
    <3> QED
      BY <1>1, <2>2, <3>2 DEF Progress
  <2> QED
    BY <2>5, <2>6, WriteStep
<1>5. ASSUME NEW s \in {"context", "settle"}, Goto(r, s), UNCHANGED <<lock, wdb>>,
             View(r).run[t] = IF s = "context" THEN "running" ELSE "completed"
      PROVE  TurnInv'
  <2>1. s \in Stages /\ pc' = [pc EXCEPT ![r] = s] /\ pc'[r] = s
    BY <1>1, <1>5 DEF Goto, Stages, WaitStages
  <2>3. s = "settle" => t \in Fitting
    BY <1>1, <1>5 DEF View, TurnInv, LongStayOpen
  <2>4. CASE lock # r
    <3>1. Reads(r, s)
      BY <1>1, <1>5, <2>1, <2>3, <2>4 DEF Reads, View
    <3> QED
      BY <2>1, <3>1, ReadStep
  <2>5. CASE lock = r
    <3>1. Writes(r, s)
      BY <1>1, <1>5, <2>1, <2>3, <2>5 DEF Writes, Untouched, View, Ended
    <3>2. ASSUME t \in Fitting, s = "settle" PROVE Progress(r)'
      <4>1. ClosedTurn(wdb, t)
        BY <1>3, <1>5, <2>5, <3>2 DEF View, NothingYet, OpenTurn, Unanswered
      <4>2. ClosedTurn(wdb, t)'
        BY <1>1, <1>5, <4>1 DEF ClosedTurn, Stepped
      <4> QED
        BY <1>1, <2>1, <3>2, <4>2 DEF Progress
    <3>3. ASSUME t \in Fitting, s = "context" PROVE Progress(r)'
      <4>1. OpenTurn(wdb, t) /\ Witnessed(r)
        BY <1>3, <1>5, <2>5, <3>3 DEF View, NothingYet, ClosedTurn
      <4>2. \A q \in Requests : pc[q] = "rejected" =>
              pc'[q] = "rejected" /\ form'[q] = form[q] /\ call'[q] = call[q]
        BY <1>1, <2>1
      <4>3. LeftOpen(t) => LeftOpen(t)'
        BY <1>1, <4>2, LeftOpenKept
      <4>4. Witnessed(r)' /\ Unanswered(wdb, t)'
        BY <1>1, <1>5, <4>1, <4>3 DEF Witnessed, OpenTurn, Unanswered
      <4> QED
        BY <1>1, <2>1, <3>3, <4>4 DEF Progress
    <3> QED
      BY <1>5, <2>1, <3>1, <3>2, <3>3, WriteStep
  <2> QED
    BY <2>4, <2>5
<1> QED
  BY <1>4, <1>5 DEF CreateRun

\* set_agent_run_context: the writer is never refused here for a turn that fits.
LEMMA ContextStage ==
  ASSUME TypeOK, SingleWriter, FrozenInv, TurnInv, NEW r \in Requests, SetContext(r)
  PROVE  TurnInv'
<1> DEFINE t == TurnOf(r)
<1>1. /\ t \in Turns /\ wdb \in Db /\ pc \in [Requests -> Stages] /\ NoRequest \notin Requests
      /\ pc[r] = "context" /\ pc[r] \notin Ended \cup {"idle"} /\ UNCHANGED <<db, wdb, form>>
      /\ TurnOf(r)' = t /\ Blank(t)' = Blank(t) /\ ReplyAt(t)' = ReplyAt(t)
      /\ call \in [Requests -> Calls] /\ \A u \in Turns : Untouched(u)
  BY TurnFacts DEF TypeOK, SetContext, Ended, TurnOf, Blank, ReplyAt, Calls, Untouched
<1>0. View(r).msg[t] = form[r].content /\ form[r].content # NoContent
  BY <1>1 DEF FrozenInv, MessageFirst
<1>2. t \in Fitting /\ lock = r => Witnessed(r) /\ Unanswered(wdb, t)
  BY <1>1 DEF TurnInv, WriterProgresses, Progress
<1>7. ASSUME t \in Fitting, lock \in {NoRequest, r}, View(r).run[t] = "running"
      PROVE  Witnessed(r) /\ Unanswered(wdb, t) /\ wdb.msg[t] = form[r].content
  <2>1. CASE lock = r
    BY <1>0, <1>2, <1>7, <2>1 DEF View
  <2>2. CASE lock = NoRequest
    <3>1. wdb = db /\ View(r) = db
      BY <1>1, <2>2 DEF SingleWriter, View
    <3>2. LeftOpen(t) /\ OpenTurn(db, t)
      BY <1>1, <1>7, <3>1, SeenWhole DEF EmptyTurn, NothingYet, ClosedTurn
    <3> QED
      BY <1>0, <3>1, <3>2 DEF Witnessed, OpenTurn
  <2> QED
    BY <1>7, <2>1, <2>2
<1>3. t \notin Fitting => wdb'.run[t] # "completed"
  BY <1>1 DEF TurnInv, LongStayOpen
<1>4. CASE View(r).run[t] # "running" /\ Goto(r, "reject") /\ UNCHANGED <<lock, call>>
  <2>2. "reject" \in Stages /\ pc' = [pc EXCEPT ![r] = "reject"]
    BY <1>4 DEF Goto, Stages
  <2>3. CASE lock # r
    <3>1. Reads(r, "reject")
      BY <1>1, <1>4, <2>2, <2>3 DEF Reads
    <3> QED
      BY <2>2, <3>1, ReadStep
  <2>4. CASE lock = r
    <3>1. t \notin Fitting
      BY <1>2, <1>4, <2>4 DEF View, Unanswered
    <3>2. Writes(r, "reject")
      BY <1>1, <1>3, <1>4, <2>2, <2>4 DEF Writes, Ended
    <3> QED
      BY <2>2, <3>1, <3>2, WriteStep
  <2> QED
    BY <2>3, <2>4
<1>5. ASSUME View(r).run[t] = "running", lock \in {NoRequest, r}, lock' = r,
             NEW s \in {"ai", "reply"}, Goto(r, s),
             s = IF form[r].content \in ModelContents THEN "ai" ELSE "reply",
             call' = IF s = "ai" THEN call ELSE [call EXCEPT ![r].text = "deterministic"]
      PROVE  TurnInv'
  <2>1. s \in Stages /\ pc' = [pc EXCEPT ![r] = s] /\ pc'[r] = s
    BY <1>1, <1>5 DEF Goto, Stages, HeldStages
  <2>2. Writes(r, s)
    BY <1>1, <1>3, <1>5, <2>1 DEF Writes, Ended, Calls
  <2>3. ASSUME t \in Fitting PROVE Progress(r)'
    <3>1. Witnessed(r) /\ Unanswered(wdb, t) /\ wdb.msg[t] = form[r].content
      BY <1>5, <1>7, <2>3
    <3>2. CASE s = "ai"
      <4>1. call' = call /\ wdb.msg[t] \in ModelContents
        BY <1>5, <3>1, <3>2
      <4>2. \A q \in Requests : pc[q] = "rejected" =>
              pc'[q] = "rejected" /\ form'[q] = form[q] /\ call'[q] = call[q]
        BY <1>1, <2>1, <4>1
      <4>3. LeftOpen(t) => LeftOpen(t)'
        BY <1>1, <4>2, LeftOpenKept
      <4>4. Witnessed(r)' /\ Unanswered(wdb, t)'
        BY <1>1, <3>1, <4>1, <4>3 DEF Witnessed, Unanswered
      <4> QED
        BY <1>1, <2>1, <3>2, <4>1, <4>4 DEF Progress
    <3>3. CASE s = "reply"
      <4>1. call'[r].text = "deterministic" /\ form[r].content \notin ModelContents
        BY <1>1, <1>5, <3>3 DEF Calls
      <4>2. /\ wdb.run[t] = "running" /\ wdb.step[t] = NoStep
            /\ Blank(t) \/ wdb.reply[t] = "none"
        BY <3>1, <4>1 DEF Unanswered
      <4>3. Stepped(wdb, t)' /\ Matches(wdb.step[t], call[r].text, t)'
        BY <1>1, <3>1, <4>1, <4>2 DEF Stepped, Matches, NoStep
      <4> QED
        BY <1>1, <2>1, <3>3, <4>1, <4>2, <4>3 DEF Progress
    <3> QED
      BY <3>2, <3>3
  <2> QED
    BY <2>1, <2>2, <2>3, WriteStep
<1>6. CASE /\ View(r).run[t] = "running" /\ lock \in {NoRequest, r} /\ lock' = r
           /\ Goto(r, IF form[r].content \in ModelContents THEN "ai" ELSE "reply")
           /\ call' = IF form[r].content \in ModelContents THEN call
                      ELSE [call EXCEPT ![r].text = "deterministic"]
  <2>1. CASE form[r].content \in ModelContents
    BY <1>5, <1>6, <2>1
  <2>2. CASE form[r].content \notin ModelContents
    BY <1>5, <1>6, <2>2
  <2> QED
    BY <2>1, <2>2
<1> QED
  BY <1>4, <1>6 DEF SetContext

\* What a step says of the reply it goes with.
LEMMA StepMatches ==
  ASSUME NEW day, NEW t
  PROVE  /\ Matches(FreeStep("skipped", "ai_not_configured", day), "disabled", t)
         /\ \A reason \in BudgetReasons : Matches(FreeStep("skipped", reason, day), "budget", t)
         /\ \A error : Matches(FreeStep("failed", error, day), "failure", t)
         /\ \A input, output : \A r \in Requests : (t \in Requests => t = r) =>
              Matches(CompletedStep(input, output, day), r, t)
         /\ \A reason : FreeStep("skipped", reason, day).status # "none"
         /\ \A reason : FreeStep("failed", reason, day).status # "none"
         /\ \A input, output : CompletedStep(input, output, day).status # "none"
BY DEF Matches, FreeStep, CompletedStep, NoStep, BudgetReasons

\* request_ai_completion and the provider's answer.
LEMMA CompletionStage ==
  ASSUME TypeOK, SingleWriter, FrozenInv, TurnInv, NEW r \in Requests
  PROVE  /\ RequestCompletion(r) => TurnInv'
         /\ ProviderAnswers(r) => TurnInv'
         /\ ProviderFails(r) => TurnInv'
<1> DEFINE t == TurnOf(r)
<1>1. /\ t \in Turns /\ (t \in Requests => t = r) /\ today \in Nat
      /\ pc \in [Requests -> Stages] /\ call \in [Requests -> Calls] /\ wdb \in Db
  BY TurnFacts DEF TypeOK, Calls
<1>2. ASSUME NEW step \in StepRows, NEW text \in Texts, pc[r] \in {"ai", "calling"},
             AppendStep(r, step, text), UNCHANGED <<db, lock, form>>,
             step.status # "none",
             \/ Matches(step, text, t)
             \/ text = Unstorable /\ step.status = "completed" /\ pc[r] = "calling"
      PROVE  TurnInv'
  BY <1>2, AppendStage
<1>6. ASSUME pc[r] \in {"ai", "calling"}, NEW s \in {"calling", "reject"}, Goto(r, s),
             UNCHANGED <<db, wdb, lock, form>>,
             \A q \in Requests \ {r} : call'[q] = call[q],
             call'[r].tokens = call[r].tokens \/ call'[r].tokens # 0,
             s = "calling" => call'[r].tokens # 0
      PROVE  TurnInv'
  <2>1. /\ lock = r /\ wdb.run[t] = "running" /\ pc' = [pc EXCEPT ![r] = s]
        /\ pc'[r] = s /\ wdb.msg[t] = form[r].content
        /\ TurnOf(r)' = t /\ Blank(t)' = Blank(t) /\ ReplyAt(t)' = ReplyAt(t)
    BY <1>1, <1>6 DEF SingleWriter, HeldStages, FrozenInv, RunOpen, MessageFirst, View,
       Goto, TurnOf, Blank, ReplyAt
  <2>2. s \in Stages /\ Writes(r, s)
    BY <1>6, <2>1 DEF Writes, Untouched, Ended, Stages, HeldStages
  <2>3. ASSUME t \in Fitting PROVE Progress(r)'
    <3>1. Witnessed(r) /\ Unanswered(wdb, t) /\ wdb.msg[t] \in ModelContents
      BY <1>6, <2>1, <2>3 DEF TurnInv, WriterProgresses, Progress
    <3>2. \A q \in Requests : pc[q] = "rejected" =>
            pc'[q] = "rejected" /\ form'[q] = form[q] /\ call'[q] = call[q]
      BY <1>1, <1>6, <2>1
    <3>3. LeftOpen(t) => LeftOpen(t)'
      BY <1>1, <1>6, <2>1, <3>2, LeftOpenKept
    <3>4. Witnessed(r)' /\ Unanswered(wdb, t)' /\ OpenTurn(wdb, t)'
      BY <1>6, <2>1, <3>1, <3>3 DEF Witnessed, Unanswered, OpenTurn
    <3> QED
      BY <1>6, <2>1, <3>1, <3>4 DEF Progress
  <2> QED
    BY <2>2, <2>3, WriteStep
<1>3. ASSUME RequestCompletion(r) PROVE TurnInv'
  <2>1. pc[r] = "ai" /\ UNCHANGED <<db, lock, form>>
    BY <1>3 DEF RequestCompletion
  <2>2. CASE AppendStep(r, FreeStep("skipped", "ai_not_configured", today), "disabled")
    <3>1. FreeStep("skipped", "ai_not_configured", today) \in StepRows /\ "disabled" \in Texts
      BY <1>1, StepTyping DEF Texts, FixedTexts
    <3> QED
      BY <1>2, <2>1, <2>2, <3>1, StepMatches
  <2>3. ASSUME NEW reason \in BudgetReasons,
               AppendStep(r, FreeStep("skipped", reason, today), "budget")
        PROVE  TurnInv'
    <3>1. FreeStep("skipped", reason, today) \in StepRows /\ "budget" \in Texts
      BY <1>1, <2>3, StepTyping DEF Texts, FixedTexts
    <3> QED
      BY <1>2, <2>1, <2>3, <3>1, StepMatches
  <2>4. ASSUME NEW tokens \in Estimates, call' = [call EXCEPT ![r].tokens = tokens],
               Goto(r, "calling"), UNCHANGED wdb
        PROVE  TurnInv'
    <3>1. /\ call'[r].tokens = tokens /\ tokens # 0
          /\ \A q \in Requests \ {r} : call'[q] = call[q]
      BY <1>1, <2>4, TurnAssumption DEF Calls
    <3> QED
      BY <1>6, <2>1, <2>4, <3>1
  <2>6. CASE Goto(r, "reject") /\ UNCHANGED <<wdb, call, placed>>
    BY <1>6, <2>1, <2>6
  <2>5. \A tokens : BudgetDecision(wdb.step, tokens, today) # "allowed" =>
          BudgetDecision(wdb.step, tokens, today) \in BudgetReasons
    BY DEF BudgetDecision, BudgetReasons
  <2> QED
    BY <1>3, <2>2, <2>3, <2>4, <2>5, <2>6 DEF RequestCompletion
<1>4. ASSUME ProviderAnswers(r) PROVE TurnInv'
  <2>1. CASE Goto(r, "reject") /\ UNCHANGED <<wdb, call>>
    BY <1>4, <1>6, <2>1 DEF ProviderAnswers
  <2>2. ASSUME NEW input \in 0 .. call[r].tokens + ExtraTokens,
               NEW output \in 0 .. MaxOutputTokens, NEW text \in {r, Unstorable},
               AppendStep(r, CompletedStep(input, output, today), text)
        PROVE  TurnInv'
    <3>1. input \in Nat /\ output \in Nat
      BY <1>1 DEF Calls
    <3>2. CompletedStep(input, output, today) \in StepRows /\ text \in Texts
      BY <1>1, <3>1, StepTyping DEF Texts
    <3>3. /\ CompletedStep(input, output, today).status = "completed"
          /\ text = r => Matches(CompletedStep(input, output, today), text, t)
      BY <1>1, StepMatches DEF CompletedStep
    <3> QED
      BY <1>2, <1>4, <2>2, <3>2, <3>3 DEF ProviderAnswers
  <2> QED
    BY <1>4, <2>1, <2>2 DEF ProviderAnswers
<1>5. ASSUME ProviderFails(r) PROVE TurnInv'
  <2>1. PICK error \in ProviderErrors :
          AppendStep(r, FreeStep("failed", error, today), "failure")
    BY <1>5 DEF ProviderFails
  <2>2. FreeStep("failed", error, today) \in StepRows /\ "failure" \in Texts
    BY <1>1, StepTyping DEF Texts, FixedTexts
  <2> QED
    BY <1>2, <1>5, <2>1, <2>2, StepMatches DEF ProviderFails
<1> QED
  BY <1>3, <1>4, <1>5

\* No step goes with a text that cannot be stored.
LEMMA UnstorableMatchesNothing ==
  ASSUME NEW step, step.status \in StepStatuses, NEW t, Matches(step, Unstorable, t)
  PROVE  FALSE
<1>1. Unstorable \notin Requests
  BY TurnAssumption
<1> QED
  BY <1>1 DEF Matches, StepStatuses, Unstorable

\* The reply is saved, and the run is closed.
LEMMA ReplyStage ==
  ASSUME TypeOK, SingleWriter, FrozenInv, TurnInv, NEW r \in Requests
  PROVE  /\ SaveReply(r) => TurnInv'
         /\ FinalizeRun(r) => TurnInv'
<1> DEFINE t == TurnOf(r)
<1>1. /\ t \in Turns /\ (Blank(t) => t = r) /\ ReplyOf(r) = ReplyAt(t)
      /\ t \in Fitting <=> form[r].key \notin MidKeys \cup LongKeys
      /\ BlankKey \notin Turns
      /\ pc \in [Requests -> Stages] /\ wdb \in Db
  BY TurnFacts DEF TypeOK, Blank
<1>2. ASSUME pc[r] \in {"reply", "finalize"}, UNCHANGED form
      PROVE  /\ lock = r /\ wdb.run[t] = "running"
             /\ TurnOf(r)' = t /\ Blank(t)' = Blank(t) /\ ReplyAt(t)' = ReplyAt(t)
             /\ t \in Fitting => Progress(r)
  BY <1>1, <1>2 DEF SingleWriter, HeldStages, FrozenInv, RunOpen, TurnOf, Blank, ReplyAt,
     TurnInv, WriterProgresses
<1>3. ASSUME SaveReply(r) PROVE TurnInv'
  <2> DEFINE known == wdb.reply[ReplyAt(t)]
             s == IF /\ t \in Fitting /\ call[r].text # Unstorable
                     /\ known \in {"none", call[r].text}
                  THEN "finalize" ELSE "reject"
  <2>1. /\ pc[r] = "reply" /\ UNCHANGED <<db, lock, form, call>>
        /\ pc' = [pc EXCEPT ![r] = s] /\ pc'[r] = s
        /\ wdb' = IF s = "finalize" THEN [wdb EXCEPT !.reply[ReplyAt(t)] = call[r].text]
                  ELSE wdb
    BY <1>1, <1>3 DEF SaveReply, Goto
  <2>2. /\ lock = r /\ wdb.run[t] = "running"
        /\ TurnOf(r)' = t /\ Blank(t)' = Blank(t) /\ ReplyAt(t)' = ReplyAt(t)
        /\ t \in Fitting => Progress(r)
    BY <1>2, <2>1
  <2>3. ReplyAt(t) \in {t, BlankKey} /\ ReplyAt(t) \in Turns \cup {BlankKey}
    BY <1>1 DEF ReplyAt
  <2>4. /\ wdb'.msg = wdb.msg /\ wdb'.run = wdb.run /\ wdb'.step = wdb.step
        /\ \A u \in (Turns \cup {BlankKey}) \ {ReplyAt(t)} : wdb'.reply[u] = wdb.reply[u]
        /\ wdb'.reply[ReplyAt(t)] = IF s = "finalize" THEN call[r].text ELSE known
    BY <1>1, <2>1, <2>3 DEF Db
  <2>5. \A u \in Turns \ {t} : Untouched(u)
    BY <1>1, <2>3, <2>4 DEF Untouched
  <2>6. wdb.reply[BlankKey] \in {"none", wdb'.reply[BlankKey]}
    BY <2>3, <2>4
  <2>7. s \in Stages /\ Writes(r, s)
    BY <2>1, <2>2, <2>4, <2>5, <2>6 DEF Writes, Stages, HeldStages, Ended
  <2>8. ASSUME t \in Fitting PROVE Progress(r)'
    <3>1. /\ Stepped(wdb, t) /\ call[r].text # "none"
          /\ Blank(t) \/ wdb.reply[t] = "none"
          /\ \/ Matches(wdb.step[t], call[r].text, t)
             \/ /\ call[r].text = Unstorable
                /\ wdb.step[t].status = "completed" /\ call[r].tokens # 0
      BY <2>1, <2>2, <2>8 DEF Progress
    <3>2. Stepped(wdb, t)'
      BY <2>1, <2>2, <2>4, <3>1 DEF Stepped
    <3>3. CASE s = "finalize"
      <4>1. wdb'.reply[ReplyAt(t)] = call'[r].text
        BY <2>1, <2>4, <3>3
      <4>2. Matches(wdb.step[t], call[r].text, t)'
        BY <2>1, <2>2, <2>4, <3>1, <3>3 DEF Matches
      <4> QED
        BY <2>1, <2>2, <2>4, <3>1, <3>2, <3>3, <4>1, <4>2 DEF Progress
    <3>4. CASE s = "reject" /\ Blank(t)
      BY <2>1, <2>2, <2>4, <3>4 DEF Progress
    <3>5. CASE s = "reject" /\ ~Blank(t)
      <4>1. call[r].text = Unstorable
        BY <2>8, <3>1, <3>5 DEF ReplyAt
      <4>2. wdb.step[t].status = "completed" /\ call[r].tokens # 0
        <5>1. wdb.step[t].status \in StepStatuses
          BY <1>1 DEF Db
        <5> QED
          BY <3>1, <4>1, <5>1, UnstorableMatchesNothing
      <4>3. wdb.msg[t] \in ModelContents /\ wdb.msg[t] = form[r].content
        BY <2>1, <2>2, <3>1, <4>2 DEF Stepped, NoStep, FrozenInv, MessageFirst, View,
           HeldStages
      <4>4. wdb' = wdb /\ wdb.reply[t] = "none"
        BY <2>1, <3>1, <3>5
      <4>5. Witnessed(r)' /\ OpenTurn(wdb, t)'
        BY <2>1, <2>2, <4>2, <4>3, <4>4 DEF Witnessed, OpenTurn, Unanswered
      <4> QED
        BY <2>1, <2>2, <3>5, <4>5 DEF Progress
    <3> QED
      BY <3>3, <3>4, <3>5
  <2> QED
    BY <2>7, <2>8, WriteStep
<1>4. ASSUME FinalizeRun(r) PROVE TurnInv'
  <2>1. /\ pc[r] = "finalize" /\ UNCHANGED <<db, lock, form, call>>
        /\ pc' = [pc EXCEPT ![r] = "settle"] /\ pc'[r] = "settle"
    BY <1>1, <1>4 DEF FinalizeRun, Goto
  <2>2. /\ lock = r /\ t \in Fitting
        /\ TurnOf(r)' = t /\ Blank(t)' = Blank(t) /\ ReplyAt(t)' = ReplyAt(t)
        /\ Progress(r)
    BY <1>2, <2>1 DEF TurnInv, StagesExplained
  <2>3. /\ wdb'.msg = wdb.msg /\ wdb'.step = wdb.step /\ wdb'.reply = wdb.reply
        /\ wdb'.run[t] = "completed" /\ \A u \in Turns \ {t} : wdb'.run[u] = wdb.run[u]
    BY <1>1, <1>4 DEF FinalizeRun, Db
  <2>4. \A u \in Turns \ {t} : Untouched(u)
    BY <2>3 DEF Untouched
  <2>5. wdb'.reply[BlankKey] = wdb.reply[BlankKey]
    BY <2>3
  <2>6. "settle" \in Stages /\ Writes(r, "settle")
    BY <2>1, <2>2, <2>4, <2>5 DEF Writes, Stages, Ended
  <2>7. ClosedTurn(wdb, t)'
    <3>1. /\ Stepped(wdb, t) /\ wdb.msg[t] # NoContent
          /\ Matches(wdb.step[t], call[r].text, t) /\ call[r].text # "none"
          /\ wdb.reply[ReplyAt(t)] = call[r].text
      BY <1>1, <2>1, <2>2 DEF Progress, FrozenInv, MessageFirst
    <3>2. Stepped(wdb, t)' /\ Matches(wdb.step[t], wdb.reply[ReplyAt(t)], t)'
      BY <2>2, <2>3, <3>1 DEF Stepped, Matches
    <3> QED
      BY <2>2, <2>3, <3>1, <3>2 DEF ClosedTurn
  <2>8. Progress(r)'
    BY <2>1, <2>2, <2>7 DEF Progress
  <2> QED
    BY <2>6, <2>8, WriteStep
<1> QED
  BY <1>3, <1>4

\* What a step says of the whole turns, and of the writer, is kept by every step.
LEMMA TurnStep ==
  ASSUME TypeOK, SingleWriter, FrozenInv, TurnInv, [Next]_vars
  PROVE  TurnInv'
<1>0. pc \in [Requests -> Stages] /\ NoRequest \notin Requests
  BY TurnFacts DEF TypeOK
<1>1. ASSUME NEW r \in Requests, ProviderTimesOut(r) PROVE TurnInv'
  <2>1. /\ lock = r /\ pc[r] = "calling" /\ lock' = NoRequest /\ wdb' = db
        /\ UNCHANGED <<db, form, call>> /\ pc' = [pc EXCEPT ![r] = "failed"]
    BY <1>1 DEF ProviderTimesOut, Goto, SingleWriter, HeldStages
  <2>2. \A q \in Requests : pc'[q] = IF q = r THEN "failed" ELSE pc[q]
    BY <1>0, <2>1
  <2> QED
    BY <2>1, <2>2, RollbackStep DEF Ended
<1>2. ASSUME NEW r \in Requests, Commit(r) PROVE TurnInv'
  <2>1. CASE lock = r
    BY <1>2, <2>1, CommitStep
  <2>2. CASE lock # r
    <3> DEFINE s == IF pc[r] = "settle" THEN "answered" ELSE "rejected"
    <3>1. pc[r] \in {"settle", "reject"} /\ pc' = [pc EXCEPT ![r] = s]
          /\ UNCHANGED <<db, wdb, lock, form, call>>
      BY <1>2, <2>2 DEF Commit, Goto
    <3>2. pc[r] = "settle" => TurnOf(r) \in Fitting /\ db.run[TurnOf(r)] = "completed"
      BY <2>2 DEF TurnInv, StagesExplained
    <3>3. s \in Stages /\ Reads(r, s)
      BY <2>2, <3>1, <3>2 DEF Reads, Stages, Ended
    <3> QED
      BY <3>3, ReadStep
  <2> QED
    BY <2>1, <2>2
<1>3. ASSUME NEW r \in Requests, LockTimeout(r) PROVE TurnInv'
  <2>1. "failed" \in Stages /\ Reads(r, "failed")
    BY <1>3 DEF LockTimeout, Goto, Reads, Stages, WaitStages, Ended
  <2> QED
    BY <2>1, ReadStep
<1>4. CASE Restart
  <2>1. \A q \in Requests :
          /\ pc'[q] = pc[q] \/ (pc'[q] = "failed" /\ pc[q] \notin Ended \cup {"idle"})
          /\ lock = q => pc'[q] = "failed"
    BY <1>4 DEF Restart, TurnInv, OthersSame
  <2> QED
    BY <1>4, <2>1, RollbackStep DEF Restart
<1>5. CASE UNCHANGED <<db, wdb, lock, pc, form, call>>
  <2> USE DEF TurnInv
  <2>0. /\ \A q \in Requests : TurnOf(q)' = TurnOf(q)
        /\ \A t \in Turns : Blank(t)' = Blank(t) /\ ReplyAt(t)' = ReplyAt(t)
        /\ \A t \in Turns : LeftOpen(t) => LeftOpen(t)'
        /\ Fitting \subseteq Turns
    BY <1>5, LeftOpenKept, TurnFacts DEF TurnOf, Blank, ReplyAt
  <2>1. CommittedWhole' /\ LongStayOpen'
    <3>1. ASSUME NEW t \in Turns
          PROVE  EmptyTurn(db, t)' = EmptyTurn(db, t) /\ ClosedTurn(db, t)' = ClosedTurn(db, t)
      BY <1>5, <2>0 DEF EmptyTurn, NothingYet, ClosedTurn, Stepped
    <3> QED
      BY <1>5, <2>0, <3>1 DEF CommittedWhole, LongStayOpen
  <2>2. OthersSame'
    BY <1>5 DEF OthersSame, TurnOf
  <2>3. WriterProgresses'
    <3> SUFFICES ASSUME NEW q \in Requests, lock = q, TurnOf(q) \in Fitting
                 PROVE  Progress(q)'
      BY <1>5, <2>0 DEF WriterProgresses
    <3>1. Progress(q) /\ TurnOf(q) \in Turns
      BY TurnFacts DEF WriterProgresses
    <3>2. Witnessed(q) => Witnessed(q)'
      BY <1>5, <2>0, <3>1 DEF Witnessed
    <3> QED
      BY <1>5, <2>0, <3>1, <3>2
         DEF Progress, NothingYet, ClosedTurn, Stepped, Unanswered, OpenTurn
  <2>4. StagesExplained'
    BY <1>5 DEF StagesExplained, EmptyTurn, NothingYet, Blank, TurnOf
  <2> QED
    BY <2>1, <2>2, <2>3, <2>4
<1>6. CASE Midnight \/ Quiet \/ UNCHANGED vars
  BY <1>5, <1>6 DEF Midnight, Quiet, vars
<1> QED
  BY <1>1, <1>2, <1>3, <1>4, <1>6, SubmitStep, MessageStage, RunStage, ContextStage,
     CompletionStage, ReplyStage DEF Next, Handle

-----------------------------------------------------------------------------
(* Every call to the provider has its reason.                              *)

\* From the call to the commit.
LateStages == {"calling", "reply", "finalize", "settle", "reject"}

\* The call of a turn is in progress, or accounted for in its closed run.
CallCounted(t) ==
  \/ db.run[t] = "completed"
  \/ \E r \in Requests : /\ lock = r /\ TurnOf(r) = t
                          /\ pc[r] \in LateStages /\ call[r].tokens # 0

\* Every other call belongs to an attempt that called in vain.
CallsCounted ==
  \A t \in ShortKeys :
    placed[t] <= Cardinality(LostCalls(t)) + (IF CallCounted(t) THEN 1 ELSE 0)

LEMMA FewerRequests ==
  ASSUME NEW S \in SUBSET Requests, NEW T \in SUBSET Requests, S \subseteq T
  PROVE  /\ Cardinality(S) \in Nat /\ Cardinality(T) \in Nat
         /\ Cardinality(S) <= Cardinality(T)
         /\ S # T => Cardinality(S) + 1 <= Cardinality(T)
<1>1. IsFiniteSet(T)
  BY TurnAssumption, FS_Subset
<1> QED
  BY <1>1, FS_Subset, FS_CardinalityType, SMT

\* A handler changes no other's locals, and no form.
LEMMA OwnLocals ==
  ASSUME TypeOK, NEW r \in Requests, Handle(r)
  PROVE  form' = form /\ \A p \in Requests \ {r} : call'[p] = call[p]
<1> DEFINE Others == \A p \in Requests \ {r} : call'[p] = call[p]
<1>0. call \in [Requests -> Calls]
  BY DEF TypeOK, Calls
<1>1. form' = form
  BY DEF Handle, LookUpMessage, InsertMessage, CreateRun, SetContext,
     RequestCompletion, ProviderAnswers, ProviderFails, ProviderTimesOut, SaveReply,
     FinalizeRun, Commit, LockTimeout
<1>2. CASE UNCHANGED call
  BY <1>1, <1>2
<1>3. ASSUME NEW tokens, call' = [call EXCEPT ![r].tokens = tokens] PROVE Others
  BY <1>0, <1>3
<1>4. ASSUME NEW text, call' = [call EXCEPT ![r].text = text] PROVE Others
  BY <1>0, <1>4
<1>5. CASE SetContext(r)
  BY <1>1, <1>2, <1>4, <1>5 DEF SetContext
<1>6. CASE RequestCompletion(r)
  BY <1>1, <1>2, <1>3, <1>4, <1>6 DEF RequestCompletion, AppendStep
<1>7. CASE ProviderAnswers(r) \/ ProviderFails(r)
  BY <1>1, <1>2, <1>4, <1>7 DEF ProviderAnswers, ProviderFails, AppendStep
<1>8. \/ UNCHANGED call
      \/ SetContext(r) \/ RequestCompletion(r) \/ ProviderAnswers(r) \/ ProviderFails(r)
  BY DEF Handle, LookUpMessage, InsertMessage, CreateRun, ProviderTimesOut, SaveReply,
     FinalizeRun, Commit, LockTimeout
<1> QED
  BY <1>1, <1>2, <1>5, <1>6, <1>7, <1>8

\* Attempts that failed or were refused stay so, and no form is changed once it was sent.
LEMMA LostForGood ==
  ASSUME TypeOK, [Next]_vars, NEW q \in Requests, pc[q] # "idle"
  PROVE  /\ TurnOf(q)' = TurnOf(q)
         /\ pc[q] \in {"failed", "rejected"} => pc'[q] = pc[q] /\ call'[q] = call[q]
<1>0. /\ pc \in [Requests -> Stages] /\ call \in [Requests -> Calls]
      /\ form \in [Requests -> [key : Keys \cup {BlankKey, NoKey},
                                content : Contents \cup {NoContent}]]
  BY DEF TypeOK, Calls
<1>1. ASSUME NEW r \in Requests, Submit(r)
      PROVE  form'[q] = form[q] /\ pc'[q] = pc[q] /\ call' = call
  BY <1>0, <1>1 DEF Submit, Goto
<1>2. ASSUME NEW r \in Requests, Handle(r)
      PROVE  /\ form' = form
             /\ pc[q] \in {"failed", "rejected"} => pc'[q] = pc[q] /\ call'[q] = call[q]
  <2>1. form' = form /\ \A p \in Requests \ {r} : call'[p] = call[p]
    BY <1>2, OwnLocals
  <2>2. pc[r] \notin {"failed", "rejected"}
    BY <1>2 DEF Handle, LookUpMessage, InsertMessage, CreateRun, SetContext,
       RequestCompletion, ProviderAnswers, ProviderFails, ProviderTimesOut, SaveReply,
       FinalizeRun, Commit, LockTimeout, WaitStages
  <2>3. \E s : pc' = [pc EXCEPT ![r] = s]
    BY <1>2 DEF Handle, LookUpMessage, InsertMessage, CreateRun, SetContext,
       RequestCompletion, ProviderAnswers, ProviderFails, ProviderTimesOut, SaveReply,
       FinalizeRun, Commit, LockTimeout, AppendStep, Goto
  <2> QED
    BY <1>0, <2>1, <2>2, <2>3
<1>3. CASE Restart
  BY <1>0, <1>3 DEF Restart, Ended, TurnOf
<1>4. CASE Midnight \/ Quiet \/ UNCHANGED vars
  BY <1>4 DEF Midnight, Quiet, vars, TurnOf
<1> QED
  BY <1>1, <1>2, <1>3, <1>4 DEF Next, TurnOf

\* Past the call the writer goes on, commits, or fails: it gives up in no other way.
LEMMA LateStep ==
  ASSUME TypeOK, SingleWriter, [Next]_vars, NEW r \in Requests, lock = r, pc[r] \in LateStages
  PROVE  /\ call'[r].tokens = call[r].tokens
         /\ \/ lock' = r /\ pc'[r] \in LateStages
            \/ pc'[r] = "failed"
            \/ Commit(r)
<1> DEFINE Goal == /\ call'[r].tokens = call[r].tokens
                   /\ \/ lock' = r /\ pc'[r] \in LateStages
                      \/ pc'[r] = "failed"
                      \/ Commit(r)
<1>0. /\ pc \in [Requests -> Stages] /\ NoRequest \notin Requests
      /\ call \in [Requests -> Calls]
  BY TurnFacts DEF TypeOK, Calls
<1>1. ASSUME NEW q \in Requests, Submit(q) PROVE Goal
  <2>1. q # r
    BY <1>1 DEF Submit, LateStages
  <2> QED
    BY <1>0, <1>1, <2>1 DEF Submit, Goto
<1>2. ASSUME NEW q \in Requests, q # r, Handle(q) PROVE Goal
  <2>1. lock # q /\ lock # NoRequest /\ pc[q] \notin HeldStages
    BY <1>0, <1>2 DEF SingleWriter
  <2>2. lock' = lock
    BY <1>2, <2>1 DEF Handle, LookUpMessage, InsertMessage, CreateRun, SetContext,
       RequestCompletion, ProviderAnswers, ProviderFails, ProviderTimesOut, SaveReply,
       FinalizeRun, Commit, LockTimeout, HeldStages
  <2>3. \E s : pc' = [pc EXCEPT ![q] = s]
    BY <1>2 DEF Handle, LookUpMessage, InsertMessage, CreateRun, SetContext,
       RequestCompletion, ProviderAnswers, ProviderFails, ProviderTimesOut, SaveReply,
       FinalizeRun, Commit, LockTimeout, AppendStep, Goto
  <2>4. call'[r] = call[r]
    BY <1>2, OwnLocals
  <2> QED
    BY <1>0, <1>2, <2>2, <2>3, <2>4
<1>3. ASSUME Handle(r) PROVE Goal
  <2>1. CASE ProviderAnswers(r) \/ ProviderFails(r)
    <3>1. \/ UNCHANGED call
          \/ \E text : call' = [call EXCEPT ![r].text = text]
      BY <2>1 DEF ProviderAnswers, ProviderFails, AppendStep
    <3>2. call'[r].tokens = call[r].tokens
      BY <1>0, <3>1 DEF Calls
    <3>3. lock' = lock /\ (Goto(r, "reply") \/ Goto(r, "reject"))
      BY <2>1 DEF ProviderAnswers, ProviderFails, AppendStep
    <3> QED
      BY <1>0, <3>2, <3>3 DEF Goto, LateStages
  <2>2. CASE ProviderTimesOut(r)
    BY <1>0, <2>2 DEF ProviderTimesOut, Goto
  <2>3. CASE SaveReply(r) \/ FinalizeRun(r)
    BY <1>0, <2>3 DEF SaveReply, FinalizeRun, Goto, LateStages
  <2> QED
    BY <1>3, <2>1, <2>2, <2>3
       DEF Handle, LookUpMessage, InsertMessage, CreateRun, SetContext, RequestCompletion,
           Commit, LockTimeout, LateStages, WaitStages
<1>4. CASE Restart
  BY <1>4 DEF Restart, LateStages, Ended
<1>5. CASE Midnight \/ Quiet \/ UNCHANGED vars
  BY <1>5 DEF Midnight, Quiet, vars
<1> QED
  BY <1>1, <1>2, <1>3, <1>4, <1>5 DEF Next

\* The attempts of a turn that called in vain, before and after a step.
LEMMA LostGrow ==
  ASSUME TypeOK, [Next]_vars, NEW t
  PROVE  LostCalls(t) \subseteq LostCalls(t)' /\ LostCalls(t) \in SUBSET Requests
         /\ LostCalls(t)' \in SUBSET Requests
<1>1. ASSUME NEW q \in LostCalls(t) PROVE q \in LostCalls(t)'
  <2>1. /\ q \in Requests /\ TurnOf(q) = t /\ call[q].tokens # 0
        /\ pc[q] \in {"failed", "rejected"}
    BY <1>1 DEF LostCalls
  <2>2. TurnOf(q)' = t /\ pc'[q] = pc[q] /\ call'[q] = call[q]
    BY <2>1, LostForGood
  <2> QED
    BY <2>1, <2>2 DEF LostCalls
<1> QED
  BY <1>1 DEF LostCalls

\* What was counted stays counted, or has turned out to be in vain.
LEMMA CountedOrLost ==
  ASSUME TypeOK, SingleWriter, FrozenInv, TurnInv, [Next]_vars, NEW t \in ShortKeys,
         CallCounted(t)
  PROVE  CallCounted(t)' \/ LostCalls(t) # LostCalls(t)'
<1>0. t \in Turns /\ t \in Fitting /\ t \notin Requests
  BY TurnAssumption DEF Turns, Keys, Fitting
<1>1. CASE db.run[t] = "completed"
  <2>1. db'.run[t] = "completed"
    BY <1>0, <1>1, FrozenStep
  <2> QED
    BY <2>1 DEF CallCounted
<1>2. ASSUME NEW r \in Requests, lock = r, TurnOf(r) = t, pc[r] \in LateStages,
             call[r].tokens # 0
      PROVE  CallCounted(t)' \/ LostCalls(t) # LostCalls(t)'
  <2>0. TurnOf(r)' = t /\ call'[r].tokens # 0
    BY <1>2, LostForGood, LateStep DEF LateStages
  <2>1. CASE lock' = r /\ pc'[r] \in LateStages
    BY <1>2, <2>0, <2>1 DEF CallCounted
  <2>2. CASE pc'[r] \in {"failed", "rejected"}
    <3>1. r \in LostCalls(t)' /\ r \notin LostCalls(t)
      BY <1>2, <2>0, <2>2 DEF LostCalls, LateStages
    <3> QED
      BY <3>1
  <2>3. CASE Commit(r)
    <3>1. Progress(r) /\ ~Blank(t)
      BY <1>0, <1>2 DEF TurnInv, WriterProgresses, Blank
    <3>2. CASE pc[r] = "settle"
      <4>1. db'.run[t] = "completed"
        BY <1>2, <2>3, <3>1, <3>2 DEF Commit, Progress, ClosedTurn
      <4> QED
        BY <4>1 DEF CallCounted
    <3>3. CASE pc[r] # "settle"
      BY <2>2, <2>3, <3>3 DEF Commit, Goto, TypeOK
    <3> QED
      BY <3>2, <3>3
  <2> QED
    BY <1>2, <2>1, <2>2, <2>3, LateStep
<1> QED
  BY <1>1, <1>2 DEF CallCounted

LEMMA CallStep ==
  ASSUME TypeOK, SingleWriter, FrozenInv, TurnInv, CallsCounted, [Next]_vars
  PROVE  CallsCounted'
<1> SUFFICES ASSUME NEW t \in ShortKeys
             PROVE  placed'[t] <= Cardinality(LostCalls(t)')
                                    + (IF CallCounted(t)' THEN 1 ELSE 0)
  BY DEF CallsCounted
<1> DEFINE before == Cardinality(LostCalls(t))
           after == Cardinality(LostCalls(t)')
<1>1. /\ before \in Nat /\ after \in Nat /\ before <= after
      /\ LostCalls(t) # LostCalls(t)' => before + 1 <= after
  BY LostGrow, FewerRequests
<1>2. /\ placed \in [Turns -> Nat] /\ t \in Turns /\ placed[t] \in Nat
      /\ placed[t] <= before + (IF CallCounted(t) THEN 1 ELSE 0)
  BY DEF TypeOK, Turns, Keys, CallsCounted
<1>3. CallCounted(t) => CallCounted(t)' \/ LostCalls(t) # LostCalls(t)'
  BY CountedOrLost
<1> HIDE DEF before, after
<1>4. CASE placed'[t] = placed[t]
  <2>1. placed[t] <= after + (IF CallCounted(t)' THEN 1 ELSE 0)
    BY <1>1, <1>2, <1>3
  <2> QED
    BY <1>4, <2>1 DEF after
<1>5. ASSUME NEW r \in Requests, pc[r] = "ai", Goto(r, "calling"), UNCHANGED lock, UNCHANGED form,
             placed' = [placed EXCEPT ![TurnOf(r)] = @ + 1], TurnOf(r) = t,
             call'[r].tokens # 0
      PROVE  placed'[t] <= Cardinality(LostCalls(t)')
                             + (IF CallCounted(t)' THEN 1 ELSE 0)
  <2>1. lock = r /\ wdb.run[t] = "running"
    BY <1>5 DEF SingleWriter, HeldStages, FrozenInv, RunOpen
  <2>2. ~CallCounted(t)
    <3>1. db.run[t] # "completed"
      BY <1>2, <2>1 DEF FrozenInv, ClosedKept
    <3> QED
      BY <1>5, <2>1, <3>1 DEF CallCounted, LateStages
  <2>3. CallCounted(t)'
    <3>1. pc'[r] = "calling" /\ TurnOf(r)' = t /\ lock' = r
      BY <1>5, <2>1 DEF Goto, TypeOK, TurnOf
    <3> QED
      BY <1>5, <3>1 DEF CallCounted, LateStages
  <2>4. placed'[t] = placed[t] + 1
    BY <1>2, <1>5
  <2>5. placed[t] + 1 <= after + 1
    BY <1>1, <1>2, <2>2
  <2> QED
    BY <2>3, <2>4, <2>5 DEF after
<1>6. ASSUME NEW r \in Requests, RequestCompletion(r), placed'[t] # placed[t]
      PROVE  /\ pc[r] = "ai" /\ Goto(r, "calling") /\ UNCHANGED lock /\ UNCHANGED form
             /\ placed' = [placed EXCEPT ![TurnOf(r)] = @ + 1] /\ TurnOf(r) = t
             /\ call'[r].tokens # 0
  <2>1. PICK tokens \in Estimates :
          /\ pc[r] = "ai" /\ Goto(r, "calling") /\ UNCHANGED lock /\ UNCHANGED form
          /\ placed' = [placed EXCEPT ![TurnOf(r)] = @ + 1]
          /\ call' = [call EXCEPT ![r].tokens = tokens]
    BY <1>2, <1>6 DEF RequestCompletion
  <2>2. TurnOf(r) = t
    BY <1>2, <1>6, <2>1
  <2>3. call'[r].tokens = tokens /\ tokens # 0
    BY <2>1, TurnAssumption DEF TypeOK
  <2> QED
    BY <2>1, <2>2, <2>3
<1>7. placed' # placed => \E r \in Requests : RequestCompletion(r)
  BY DEF Next, Handle, Quiet, vars, Submit, LookUpMessage, InsertMessage, CreateRun,
     SetContext, ProviderAnswers, ProviderFails, ProviderTimesOut, SaveReply, FinalizeRun,
     Commit, LockTimeout, Restart, Midnight
<1> QED
  BY <1>4, <1>5, <1>6, <1>7

LEMMA TurnHolds == Spec => [](TurnInv /\ CallsCounted)
<1>1. Init => TurnInv /\ CallsCounted
  <2> SUFFICES ASSUME Init PROVE TurnInv /\ CallsCounted
    OBVIOUS
  <2>0. Fitting \subseteq Turns /\ NoRequest \notin Requests /\ Requests \subseteq Turns
    BY TurnAssumption DEF Fitting, Turns, Keys
  <2>1. \A t \in Turns : EmptyTurn(db, t)
    BY DEF Init, EmptyTurn, NothingYet
  <2>2. CommittedWhole /\ LongStayOpen
    BY <2>0, <2>1 DEF CommittedWhole, LongStayOpen, Init
  <2>3. OthersSame /\ WriterProgresses
    BY <2>0 DEF OthersSame, WriterProgresses, Init
  <2>4. StagesExplained
    BY <2>0, <2>1 DEF StagesExplained, Init
  <2>5. CallsCounted
    <3> SUFFICES ASSUME NEW t \in ShortKeys
                 PROVE  placed[t] <= Cardinality(LostCalls(t))
                                       + (IF CallCounted(t) THEN 1 ELSE 0)
      BY DEF CallsCounted
    <3>1. LostCalls(t) = {}
      BY DEF Init, LostCalls
    <3>2. placed[t] = 0 /\ Cardinality(LostCalls(t)) = 0
      BY <3>1, FS_EmptySet DEF Init, Turns, Keys
    <3> QED
      BY <3>2
  <2> QED
    BY <2>2, <2>3, <2>4, <2>5 DEF TurnInv
<1>2. TypeOK /\ SingleWriter /\ FrozenInv /\ (TurnInv /\ CallsCounted) /\ [Next]_vars =>
        (TurnInv /\ CallsCounted)'
  BY TurnStep, CallStep
<1> QED
  BY <1>1, <1>2, TypeCorrect, WriterIsSingle, FrozenHolds, PTL DEF Spec

\* send_chat_message under retries, overlaps and restarts, in an environment with any of
\* the defects: of a turn under a short key or without one other connections see
\* nothing, all of it, or what an error its browser was shown has left open; a browser
\* told that its submission went through finds the reply its audit step accounts for;
\* and under a short key every call to the provider beyond the first belongs to an
\* attempt that called in vain.
THEOREM TurnsAreExplained == Spec => []TurnsExplained
<1>1. TypeOK /\ TurnInv /\ CallsCounted => TurnsExplained
  <2> SUFFICES ASSUME TypeOK, TurnInv, CallsCounted PROVE TurnsExplained
    OBVIOUS
  <2>1. WholeTurns
    <3> SUFFICES ASSUME NEW t \in ShortKeys \cup {r \in Requests : form[r].key # BlankKey}
                 PROVE  \/ /\ db.msg[t] = NoContent /\ db.run[t] = "none"
                           /\ db.step[t] = NoStep /\ db.reply[t] = "none"
                        \/ /\ db.msg[t] # NoContent /\ db.run[t] = "completed"
                           /\ db.reply[t] # "none"
                           /\ db.step[t] # NoStep <=> db.msg[t] \in ModelContents
                        \/ LeftOpen(t)
      BY DEF WholeTurns
    <3>1. t \in Fitting /\ ~Blank(t)
      BY TurnAssumption DEF Fitting, Blank, Keys
    <3>2. EmptyTurn(db, t) \/ ClosedTurn(db, t) \/ LeftOpen(t)
      BY <3>1 DEF TurnInv, CommittedWhole
    <3> QED
      BY <3>1, <3>2 DEF EmptyTurn, NothingYet, ClosedTurn, Stepped, ReplyAt
  <2>2. ReplyMatchesStep
    <3> SUFFICES ASSUME NEW r \in Requests, pc[r] = "answered"
                 PROVE  /\ db.run[TurnOf(r)] = "completed"
                        /\ LET step == db.step[TurnOf(r)]
                               text == db.reply[ReplyOf(r)]
                           IN  CASE step.status = "none"      -> text = "deterministic"
                                 [] step.status = "failed"    -> text = "failure"
                                 [] step.status = "skipped"   ->
                                      text = IF step.reason = "ai_not_configured"
                                             THEN "disabled" ELSE "budget"
                                 [] step.status = "completed" ->
                                      text \in Requests /\ (TurnOf(r) = r => text = r)
      BY DEF ReplyMatchesStep
    <3>1. TurnOf(r) \in Fitting /\ db.run[TurnOf(r)] = "completed"
      BY DEF TurnInv, StagesExplained
    <3>2. ClosedTurn(db, TurnOf(r))
      BY <3>1 DEF TurnInv, CommittedWhole, EmptyTurn, NothingYet, LeftOpen
    <3>3. Matches(db.step[TurnOf(r)], db.reply[ReplyOf(r)], TurnOf(r))
      BY <3>2, TurnFacts DEF ClosedTurn
    <3>4. db.step[TurnOf(r)].status \in StepStatuses
      BY TurnFacts DEF TypeOK, Db
    <3> DEFINE status == db.step[TurnOf(r)].status
    <3>5. CASE status = "none"
      BY <3>1, <3>3, <3>5 DEF Matches
    <3>6. CASE status = "failed"
      BY <3>1, <3>3, <3>6 DEF Matches
    <3>7. CASE status = "skipped"
      BY <3>1, <3>3, <3>7 DEF Matches
    <3>8. CASE status = "completed"
      BY <3>1, <3>3, <3>8 DEF Matches
    <3> QED
      BY <3>4, <3>5, <3>6, <3>7, <3>8 DEF StepStatuses
  <2>3. CallsExplained
    <3> SUFFICES ASSUME NEW t \in ShortKeys
                 PROVE  placed[t] <= 1 + Cardinality(LostCalls(t))
      BY DEF CallsExplained
    <3>1. LostCalls(t) \in SUBSET Requests
      BY DEF LostCalls
    <3>2. Cardinality(LostCalls(t)) \in Nat /\ placed[t] \in Nat
      BY <3>1, FewerRequests DEF TypeOK, Turns, Keys
    <3> QED
      BY <3>2 DEF CallsCounted
  <2> QED
    BY <2>1, <2>2, <2>3 DEF TurnsExplained
<1> QED
  BY <1>1, TypeCorrect, TurnHolds, PTL
=============================================================================
