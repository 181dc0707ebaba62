------------------------- MODULE StepExecutorProofs -------------------------
(***************************************************************************)
(* The safety properties of StepExecutor, proved for every scenario: any   *)
(* number of steps, ids that repeat, any retry policy and any on_error     *)
(* rules.                                                                  *)
(***************************************************************************)
EXTENDS StepExecutor, FiniteSetTheorems, TLAPS

(* Arithmetic *)

\* A nonempty set of positions has a maximum: of the sets of larger members
\* one is minimal, and only the empty one can be.
LEMMA MaxOfPositions ==
  ASSUME NEW n \in Nat, NEW T \in SUBSET (1..n), T # {}
  PROVE  Max(T) \in T /\ \A y \in T : Max(T) >= y
<1> DEFINE Above(x) == {y \in T : y > x}
           Aboves == {Above(x) : x \in T}
<1>1. IsFiniteSet(T)
  <2>1. IsFiniteSet(1..n)
    BY FS_Interval
  <2> QED BY <2>1, FS_Subset
<1>2. Aboves \subseteq FiniteSubsetsOf(T)
  BY <1>1, FS_Subset DEF FiniteSubsetsOf
<1>3. Aboves # {}
  OBVIOUS
<1>4. PICK A \in Aboves : \A B \in Aboves : <<B, A>> \notin StrictSubsetOrdering(T)
  <2> HIDE DEF Aboves
  <2> QED BY <1>2, <1>3, FS_StrictSubsetOrderingWellFounded, WFMin
<1>5. PICK x \in T : A = Above(x)
  OBVIOUS
<1>6. ASSUME NEW y \in T, y > x
      PROVE  FALSE
  <2>0. \A z \in T : z \in Int
    OBVIOUS
  <2>1. Above(y) \subseteq Above(x) /\ y \in Above(x) /\ y \notin Above(y)
    <3>1. \A z \in T : z > y => z > x
      BY <1>6, <2>0
    <3>2. ~(y > y)
      BY <2>0
    <3> QED BY <1>6, <3>1, <3>2, Zenon
  <2>2. Above(y) \in Aboves
    OBVIOUS
  <2>3. <<Above(y), A>> \in StrictSubsetOrdering(T)
    BY <1>5, <2>1 DEF StrictSubsetOrdering
  <2> QED BY <1>4, <2>2, <2>3
<1>7. \A y \in T : x >= y
  BY <1>6
<1> QED BY <1>7 DEF Max

\* The mirror image.
LEMMA MinOfPositions ==
  ASSUME NEW n \in Nat, NEW T \in SUBSET (1..n), T # {}
  PROVE  Min(T) \in T
<1> DEFINE Mirrored == {x \in 1..n : (n + 1) - x \in T}
           top == Max(Mirrored)
<1>1. \A y \in T : y \in Int /\ (n + 1) - y \in Mirrored
  <2> SUFFICES ASSUME NEW y \in T PROVE y \in Int /\ (n + 1) - y \in Mirrored
    OBVIOUS
  <2>1. y \in 1..n /\ (n + 1) - y \in 1..n /\ (n + 1) - ((n + 1) - y) = y
    OBVIOUS
  <2> QED BY <2>1
<1>2. top \in Mirrored /\ \A x \in Mirrored : top >= x
  <2>1. Mirrored \in SUBSET (1..n) /\ Mirrored # {}
    BY <1>1
  <2> HIDE DEF Mirrored
  <2> QED BY <2>1, MaxOfPositions
<1>3. (n + 1) - top \in T /\ top \in Int
  BY <1>2
<1>4. \A y \in T : (n + 1) - top <= y
  <2> HIDE DEF top, Mirrored
  <2> QED BY <1>1, <1>2, <1>3
<1> HIDE DEF top
<1> QED BY <1>3, <1>4 DEF Min

LEMMA MaxOfTwo ==
  ASSUME NEW x \in Int, NEW y \in Int
  PROVE  Max({x, y}) = IF x >= y THEN x ELSE y
<1>1. \E z \in {x, y} : \A u \in {x, y} : z >= u
  <2>1. CASE x >= y BY <2>1
  <2>2. CASE ~(x >= y) BY <2>2
  <2> QED BY <2>1, <2>2
<1>2. /\ Max({x, y}) \in {x, y}
      /\ Max({x, y}) >= x /\ Max({x, y}) >= y
  BY <1>1 DEF Max
<1> QED BY <1>2

LEMMA MinOfTwo ==
  ASSUME NEW x \in Int, NEW y \in Int
  PROVE  Min({x, y}) = IF x <= y THEN x ELSE y
<1>1. \E z \in {x, y} : \A u \in {x, y} : z =< u
  <2>1. CASE x <= y BY <2>1
  <2>2. CASE ~(x <= y) BY <2>2
  <2> QED BY <2>1, <2>2
<1>2. /\ Min({x, y}) \in {x, y}
      /\ Min({x, y}) <= x /\ Min({x, y}) <= y
  BY <1>1 DEF Min
<1> QED BY <1>2

\* A backoff, written without Max and Min.
LEMMA BackoffValue ==
  ASSUME NEW step \in StepSet, NEW n \in Nat
  PROVE  /\ Backoff(step, n) \in Nat
         /\ Backoff(step, n) =
              IF step.backoff = <<>> THEN 0
              ELSE LET value == IF n + 1 <= Len(step.backoff)
                                  THEN step.backoff[n + 1]
                                  ELSE step.backoff[Len(step.backoff)]
                   IN IF value < 0 THEN 0 ELSE value
<1>1. CASE step.backoff = <<>>
  BY <1>1 DEF Backoff
<1>2. CASE step.backoff # <<>>
  <2> DEFINE last == Len(step.backoff)
             at == Min({n + 1, last})
             value == step.backoff[at]
  <2>1. step.backoff \in Seq(Int) /\ last \in Nat \ {0}
    BY <1>2 DEF StepSet
  <2>2. at = IF n + 1 <= last THEN n + 1 ELSE last
    <3> HIDE DEF last
    <3> QED BY <2>1, MinOfTwo
  <2>3. at \in 1..last
    BY <2>1, <2>2
  <2>4. value \in Int
    <3> HIDE DEF at
    <3> QED BY <2>1, <2>3
  <2>5. Max({0, value}) = IF value < 0 THEN 0 ELSE value
    <3> HIDE DEF value
    <3>1. Max({0, value}) = IF 0 >= value THEN 0 ELSE value
      BY <2>4, MaxOfTwo
    <3> QED BY <2>4, <3>1
  <2>6. Backoff(step, n) = Max({0, value})
    BY <1>2 DEF Backoff
  <2>7. value = IF n + 1 <= last THEN step.backoff[n + 1] ELSE step.backoff[last]
    BY <2>2
  <2> HIDE DEF value, at
  <2> QED BY <1>2, <2>4, <2>5, <2>6, <2>7
<1> QED BY <1>1, <1>2

-----------------------------------------------------------------------------
(* Handlers *)

\* Changing one field of a RunContext leaves a RunContext.
LEMMA ContextUpdates ==
  ASSUME NEW c \in Contexts
  PROVE  /\ \A response \in Responses : [c EXCEPT !.last = response] \in Contexts
         /\ \A id \in Ids : [c EXCEPT !.result = @ \cup {id}] \in Contexts
         /\ \A id \in Ids : [c EXCEPT !.screenshots = @ \cup {id}] \in Contexts
         /\ \A id \in Ids, what \in {"absent", "missed", "found"} :
              [c EXCEPT !.saved[id] = what] \in Contexts
<1>1. /\ c = [last |-> c.last, saved |-> c.saved, result |-> c.result,
             screenshots |-> c.screenshots]
      /\ c.last \in Responses \cup {NoResponse}
      /\ c.saved \in [Ids -> {"absent", "missed", "found"}]
      /\ c.result \in SUBSET Ids /\ c.screenshots \in SUBSET Ids
  BY DEF Contexts
<1>2. \A response \in Responses : [c EXCEPT !.last = response] \in Contexts
  BY <1>1 DEF Contexts
<1>3. \A id \in Ids : [c EXCEPT !.result = @ \cup {id}] \in Contexts
  BY <1>1 DEF Contexts
<1>4. \A id \in Ids : [c EXCEPT !.screenshots = @ \cup {id}] \in Contexts
  BY <1>1 DEF Contexts
<1>5. ASSUME NEW id \in Ids, NEW what \in {"absent", "missed", "found"}
      PROVE  [c EXCEPT !.saved[id] = what] \in Contexts
  <2>1. [c.saved EXCEPT ![id] = what] \in [Ids -> {"absent", "missed", "found"}]
    BY <1>1
  <2>2. [c EXCEPT !.saved[id] = what] = [c EXCEPT !.saved = [c.saved EXCEPT ![id] = what]]
    BY <1>1
  <2> QED BY <1>1, <2>1, <2>2 DEF Contexts
<1> QED BY <1>2, <1>3, <1>4, <1>5

\* A handler ends in one of the three ways, with a RunContext.
LEMMA HandledType ==
  ASSUME NEW step \in StepSet, NEW c \in Contexts, NEW end \in Handled(step, c)
  PROVE  end \in Ends
<1>a. step.id \in Ids /\ step.kind \in Kinds
  BY DEF StepSet
<1>b. \A d \in Contexts : Ok(d) \in Ends /\ Failed(d) \in Ends /\ Raised(d) \in Ends
  BY DEF Ok, Failed, Raised, Ends
<1>c. \A what \in {"missed", "found"} : Saved(step, c, what) \in Contexts
  BY <1>a, ContextUpdates DEF Saved
<1>1. HandleHttp(step, c) \subseteq Ends
  <2>1. \A response \in [status : Statuses, by : {step.id}] : response \in Responses
    BY <1>a DEF Responses
  <2> QED BY <1>b, <2>1, ContextUpdates DEF HandleHttp
<1>2. HandleScrape(step, c) \subseteq Ends
  <2>1. \A s \in Savings(step, c) : s[1] \in {"ok", "failed"} /\ s[2] \in {"missed", "found"}
    BY DEF Savings
  <2>2. \A s \in Savings(step, c) : [outcome |-> s[1], ctx |-> Saved(step, c, s[2])] \in Ends
    BY <1>c, <2>1 DEF Ends
  <2> QED BY <1>b, <2>2 DEF HandleScrape
<1>3. HandleAssert(step, c) \subseteq Ends
  BY <1>b DEF HandleAssert
<1>4. HandleResult(step, c) \subseteq Ends
  BY <1>a, <1>b, ContextUpdates DEF HandleResult
<1>5. HandleLog(step, c) \subseteq Ends
  BY <1>b DEF HandleLog
<1>6. HandleBrowser(step, c) \subseteq Ends
  BY <1>a, <1>b, <1>c, ContextUpdates DEF HandleBrowser
<1> QED BY <1>a, <1>1, <1>2, <1>3, <1>4, <1>5, <1>6, Zenon DEF Handled, Kinds

-----------------------------------------------------------------------------
(* The inductive invariant *)

\* A step is handled only where execute is at it and it is enabled, and a
\* handler that returned is either ok or failed.
HandledIsCurrent ==
  /\ attempts > 0 => index \in Positions /\ Enabled(Current)
  /\ pc = "handled" => attempts > 0 /\ outcome \in {"ok", "failed"}

\* While execute walks, the attempt at hand is still within the budget.
BudgetLeft ==
  pc = "loop" /\ index \in Positions => attempts <= Budget(Current)

\* Every retry has slept once.
WaitsFollowRetries ==
  pc \in {"loop", "handled"} /\ index \in Positions =>
    Len(waits) = IF pc = "handled" THEN attempts - 1 ELSE attempts

\* No enabled step behind index is forgotten.
PathIsCovered ==
  \A i \in Positions : i < index /\ Enabled(scenario[i]) => i \in passed \cup jumped

\* A success has walked to the end of the list.
SuccessIsAtEnd == pc = "ended" /\ result.ok => index \notin Positions

IInv ==
  /\ TypeOK
  /\ HandledIsCurrent
  /\ CountersFollowVisits
  /\ BudgetLeft
  /\ RetriesAreBounded
  /\ WaitsFollowRetries
  /\ BackoffIsReused
  /\ PathIsCovered
  /\ SuccessIsAtEnd
  /\ FailureIsJust

-----------------------------------------------------------------------------
(* Facts the steps share *)

LEMMA ScenarioType ==
  ASSUME TypeOK
  PROVE  /\ scenario \in Seq(StepSet)
         /\ Len(scenario) \in Nat
         /\ index \in Nat
         /\ \A i \in Positions : scenario[i] \in StepSet
<1>1. scenario \in Seq(StepSet)
  BY ScenariosAssumption DEF ScenariosAssumption, TypeOK
<1> QED BY <1>1 DEF TypeOK, Positions

LEMMA CurrentType ==
  ASSUME TypeOK, index \in Positions
  PROVE  /\ Current \in StepSet
         /\ Current.id \in Ids
         /\ Current.max \in Int
         /\ Budget(Current) \in Nat
<1>1. Current \in StepSet
  BY ScenarioType DEF Current
<1>2. Current.id \in Ids /\ Current.max \in Int
  BY <1>1 DEF StepSet
<1> QED BY <1>1, <1>2 DEF Budget

\* A handled step is the current one.
LEMMA AtHandled ==
  ASSUME IInv, pc = "handled"
  PROVE  /\ index \in Positions
         /\ Enabled(Current)
         /\ outcome \in {"ok", "failed"}
         /\ attempts \in Nat \ {0}
         /\ retries[Current.id] = attempts - 1
         /\ \A id \in Ids \ {Current.id} : retries[id] = 0
<1>1. /\ index \in Positions /\ Enabled(Current)
      /\ outcome \in {"ok", "failed"} /\ attempts \in Nat \ {0}
  BY DEF IInv, HandledIsCurrent, TypeOK
<1>2. Current.id \in Ids
  BY <1>1, CurrentType DEF IInv
<1> QED BY <1>1, <1>2 DEF IInv, CountersFollowVisits

\* Leaving a step leaves no retries counted.
LEMMA PopClears ==
  ASSUME IInv, pc = "handled"
  PROVE  /\ Pop \in [Ids -> Nat]
         /\ \A id \in Ids : Pop[id] = 0
<1>1. retries \in [Ids -> Nat] /\ Current.id \in Ids
  BY AtHandled, CurrentType DEF IInv, TypeOK
<1> QED BY <1>1, AtHandled DEF Pop

\* What a step does about a failure depends on the step and the context only.
LEMMA SameAction ==
  ASSUME UNCHANGED <<scenario, index, ctx>>
  PROVE  Action' = Action
<1>1. Applying' = Applying
  BY DEF Applying, Applies, Holds, StatusOf, Current
<1>2. Fallbacks' = Fallbacks
  BY DEF Fallbacks, Current
<1>3. SelectedRule' = SelectedRule
  BY <1>1, <1>2 DEF SelectedRule, Current
<1> QED BY <1>3 DEF Action, DefaultAction, Current

\* Arriving at step i keeps the invariant if nothing is left counted and
\* every enabled step before i is accounted for.
LEMMA ArriveKeeps ==
  ASSUME IInv, NEW i \in 1..(Len(scenario) + 1), Arrive(i),
         UNCHANGED <<scenario, ctx, result>>,
         retries' \in [Ids -> Nat], \A id \in Ids : retries'[id] = 0,
         passed' \subseteq Positions, jumped' \subseteq Positions,
         \A j \in Positions :
           j < i /\ Enabled(scenario[j]) => j \in passed' \cup jumped'
  PROVE  IInv'
<1>a. /\ index' = i /\ pc' = "loop" /\ outcome' = "none"
      /\ attempts' = 0 /\ waits' = <<>>
  BY DEF Arrive
<1>b. Positions' = Positions
  BY DEF Positions
<1>1. TypeOK'
  BY <1>a, <1>b DEF IInv, TypeOK
<1>2. HandledIsCurrent'
  BY <1>a DEF HandledIsCurrent
<1>3. CountersFollowVisits'
  BY <1>a DEF CountersFollowVisits
<1>4. BudgetLeft' /\ RetriesAreBounded'
  <2>1. i \in Positions => scenario[i].max \in Int
    BY ScenarioType DEF IInv, StepSet
  <2> QED BY <1>a, <1>b, <2>1 DEF BudgetLeft, RetriesAreBounded, Budget, Current
<1>5. WaitsFollowRetries'
  BY <1>a DEF WaitsFollowRetries
<1>6. BackoffIsReused'
  BY <1>a DEF BackoffIsReused
<1>7. PathIsCovered'
  BY <1>a, <1>b DEF PathIsCovered, Enabled
<1>8. SuccessIsAtEnd' /\ FailureIsJust'
  BY <1>a DEF SuccessIsAtEnd, FailureIsJust
<1> QED BY <1>1, <1>2, <1>3, <1>4, <1>5, <1>6, <1>7, <1>8 DEF IInv

\* An end keeps the invariant if it is earned or just.
LEMMA EndKeeps ==
  ASSUME IInv, NEW res \in ResultSet, End(res), pc \in {"loop", "handled"},
         retries' \in [Ids -> Nat],
         res.ok => index \notin Positions,
         ~res.ok => /\ index \in Positions
                    /\ Enabled(Current)
                    /\ res.step = Current.id
                    /\ outcome = "failed"
                    /\ Action = "retry" => attempts = 1 + Budget(Current)
  PROVE  IInv'
<1>a. /\ pc' = "ended" /\ result' = res
      /\ UNCHANGED <<scenario, index, ctx, outcome, attempts, waits, passed, jumped>>
  BY DEF End, history
<1>b. Positions' = Positions /\ Current' = Current
  BY <1>a DEF Positions, Current
<1>c. Action' = Action
  BY <1>a, SameAction
<1>1. TypeOK'
  BY <1>a, <1>b DEF IInv, TypeOK
<1>2. HandledIsCurrent'
  BY <1>a, <1>b DEF IInv, HandledIsCurrent, Enabled
<1>3. CountersFollowVisits' /\ BudgetLeft' /\ WaitsFollowRetries'
  BY <1>a DEF CountersFollowVisits, BudgetLeft, WaitsFollowRetries
<1>4. RetriesAreBounded'
  BY <1>a, <1>b DEF IInv, RetriesAreBounded, Budget
<1>5. BackoffIsReused'
  BY <1>a, <1>b DEF IInv, BackoffIsReused
<1>6. PathIsCovered'
  BY <1>a, <1>b DEF IInv, PathIsCovered, Enabled
<1>7. SuccessIsAtEnd'
  BY <1>a, <1>b DEF SuccessIsAtEnd
<1>8. FailureIsJust'
  BY <1>a, <1>b, <1>c DEF FailureIsJust, Enabled, Budget
<1> QED BY <1>1, <1>2, <1>3, <1>4, <1>5, <1>6, <1>7, <1>8 DEF IInv

\* An exception keeps it: what holds at the end of an execution is not claimed.
LEMMA RaiseKeeps ==
  ASSUME IInv, pc' = "raised",
         UNCHANGED <<scenario, index, retries, result, waits, passed, jumped>>,
         ctx' \in Contexts, outcome' \in {"none", "ok", "failed", "raised"},
         attempts' \in Nat,
         attempts' > 0 => index \in Positions /\ Enabled(Current),
         index \in Positions => attempts' <= 1 + Budget(Current)
  PROVE  IInv'
<1>b. Positions' = Positions /\ Current' = Current
  BY DEF Positions, Current
<1>1. TypeOK'
  BY <1>b DEF IInv, TypeOK
<1>2. HandledIsCurrent'
  BY <1>b DEF HandledIsCurrent, Enabled
<1>3. CountersFollowVisits' /\ BudgetLeft' /\ WaitsFollowRetries'
      /\ SuccessIsAtEnd' /\ FailureIsJust'
  BY DEF CountersFollowVisits, BudgetLeft, WaitsFollowRetries, SuccessIsAtEnd, FailureIsJust
<1>4. RetriesAreBounded'
  BY <1>b DEF RetriesAreBounded, Budget
<1>5. BackoffIsReused'
  BY <1>b DEF IInv, BackoffIsReused
<1>6. PathIsCovered'
  BY <1>b DEF IInv, PathIsCovered, Enabled
<1> QED BY <1>1, <1>2, <1>3, <1>4, <1>5, <1>6 DEF IInv

-----------------------------------------------------------------------------
(* Every action keeps the invariant *)

LEMMA InitHolds == Init => IInv
<1> SUFFICES ASSUME Init PROVE IInv
  OBVIOUS
<1>1. scenario \in Seq(StepSet)
  BY ScenariosAssumption DEF ScenariosAssumption, Init
<1>2. TypeOK
  BY <1>1 DEF Init, TypeOK, NewContext, Contexts, NoResult, ResultSet, Messages
<1>3. BudgetLeft /\ RetriesAreBounded
  <2>1. index \in Positions => Budget(Current) \in Nat
    BY <1>2, CurrentType
  <2> QED BY <2>1 DEF Init, BudgetLeft, RetriesAreBounded
<1>4. HandledIsCurrent /\ CountersFollowVisits /\ WaitsFollowRetries /\ BackoffIsReused
  BY DEF Init, HandledIsCurrent, CountersFollowVisits, WaitsFollowRetries, BackoffIsReused
<1>5. PathIsCovered /\ SuccessIsAtEnd /\ FailureIsJust
  BY <1>1 DEF Init, PathIsCovered, SuccessIsAtEnd, FailureIsJust, Positions
<1> QED BY <1>2, <1>3, <1>4, <1>5 DEF IInv

LEMMA SkipKeeps == ASSUME IInv, Skip PROVE IInv'
<1>1. /\ pc = "loop" /\ index \in Positions /\ ~Enabled(Current)
      /\ Arrive(index + 1)
      /\ UNCHANGED <<scenario, retries, ctx, result, passed, jumped>>
  BY DEF Skip, AtStep
<1>2. attempts = 0
  BY <1>1 DEF IInv, TypeOK, HandledIsCurrent
<1>3. retries' \in [Ids -> Nat] /\ \A id \in Ids : retries'[id] = 0
  BY <1>1, <1>2 DEF IInv, TypeOK, CountersFollowVisits
<1>4. \A j \in Positions :
        j < index + 1 /\ Enabled(scenario[j]) => j \in passed' \cup jumped'
  <2>1. \A j \in Positions : j < index + 1 => j < index \/ j = index
    BY ScenarioType DEF IInv, Positions
  <2> QED BY <1>1, <2>1 DEF IInv, PathIsCovered, Current
<1>5. index + 1 \in 1..(Len(scenario) + 1)
  BY <1>1, ScenarioType DEF IInv, Positions
<1>6. passed' \subseteq Positions /\ jumped' \subseteq Positions
  BY <1>1 DEF IInv, TypeOK
<1> QED BY <1>1, <1>3, <1>4, <1>5, <1>6, ArriveKeeps

LEMMA HandleKeeps == ASSUME IInv, Handle PROVE IInv'
<1>1. /\ pc = "loop" /\ index \in Positions /\ Enabled(Current)
      /\ attempts' = attempts + 1
      /\ UNCHANGED <<scenario, index, retries, result, waits, passed, jumped>>
  BY DEF Handle, AtStep
<1>2. PICK end \in (IF HasHandler(Current) THEN Handled(Current, ctx) ELSE {Raised(ctx)}) :
        /\ ctx' = end.ctx
        /\ outcome' = end.outcome
        /\ IF end.outcome = "raised" THEN Raise ELSE pc' = "handled"
  BY DEF Handle
<1>3. end \in Ends
  <2>1. ctx \in Contexts /\ Current \in StepSet
    BY <1>1, CurrentType DEF IInv, TypeOK
  <2>2. Raised(ctx) \in Ends
    BY <2>1 DEF Raised, Ends
  <2> QED BY <1>2, <2>1, <2>2, HandledType
<1>4. ctx' \in Contexts /\ outcome' \in {"ok", "failed", "raised"}
  BY <1>2, <1>3 DEF Ends
<1>5. /\ attempts \in Nat /\ Budget(Current) \in Nat /\ attempts <= Budget(Current)
  BY <1>1, CurrentType DEF IInv, TypeOK, BudgetLeft
<1>6. CASE end.outcome = "raised"
  <2>1. pc' = "raised"
    BY <1>2, <1>6 DEF Raise
  <2> QED BY <1>1, <1>4, <1>5, <2>1, RaiseKeeps
<1>7. CASE end.outcome # "raised"
  <2>1. pc' = "handled" /\ outcome' \in {"ok", "failed"}
    BY <1>2, <1>4, <1>7
  <2>2. Positions' = Positions /\ Current' = Current
    BY <1>1 DEF Positions, Current
  <2>3. TypeOK'
    BY <1>1, <1>4, <1>5, <2>1, <2>2 DEF IInv, TypeOK
  <2>4. HandledIsCurrent'
    BY <1>1, <1>5, <2>1, <2>2 DEF HandledIsCurrent, Enabled
  <2>5. CountersFollowVisits'
    BY <1>1, <1>5, <2>1, <2>2 DEF IInv, CountersFollowVisits
  <2>6. BudgetLeft' /\ RetriesAreBounded'
    BY <1>1, <1>5, <2>1, <2>2 DEF BudgetLeft, RetriesAreBounded, Budget
  <2>7. WaitsFollowRetries'
    BY <1>1, <1>5, <2>1, <2>2 DEF IInv, WaitsFollowRetries
  <2>8. BackoffIsReused'
    BY <1>1, <2>2 DEF IInv, BackoffIsReused
  <2>9. PathIsCovered' /\ SuccessIsAtEnd' /\ FailureIsJust'
    BY <1>1, <2>1, <2>2 DEF IInv, PathIsCovered, SuccessIsAtEnd, FailureIsJust, Enabled
  <2> QED BY <2>3, <2>4, <2>5, <2>6, <2>7, <2>8, <2>9 DEF IInv
<1> QED BY <1>6, <1>7

LEMMA AdvanceKeeps == ASSUME IInv, Advance PROVE IInv'
<1>1. /\ pc = "handled" /\ retries' = Pop
      /\ passed' = passed \cup {index} /\ jumped' = jumped \ {index}
      /\ Arrive(index + 1)
      /\ UNCHANGED <<scenario, ctx, result>>
  BY DEF Advance
<1>2. index \in Positions
  BY <1>1, AtHandled
<1>3. \A j \in Positions :
        j < index + 1 /\ Enabled(scenario[j]) => j \in passed' \cup jumped'
  <2>1. \A j \in Positions : j < index + 1 => j < index \/ j = index
    BY ScenarioType DEF IInv, Positions
  <2> QED BY <1>1, <2>1 DEF IInv, PathIsCovered
<1>4. index + 1 \in 1..(Len(scenario) + 1)
  BY <1>2, ScenarioType DEF IInv, Positions
<1>5. passed' \subseteq Positions /\ jumped' \subseteq Positions
  BY <1>1, <1>2 DEF IInv, TypeOK
<1>6. retries' \in [Ids -> Nat] /\ \A id \in Ids : retries'[id] = 0
  BY <1>1, PopClears
<1> QED BY <1>1, <1>3, <1>4, <1>5, <1>6, ArriveKeeps

LEMMA SelectRaisesKeeps == ASSUME IInv, SelectRaises PROVE IInv'
<1>1. /\ pc = "handled" /\ pc' = "raised"
      /\ UNCHANGED <<scenario, index, retries, ctx, outcome, result, attempts, waits, passed, jumped>>
  BY DEF SelectRaises, Raise, history
<1>2. index \in Positions /\ Enabled(Current) /\ attempts <= 1 + Budget(Current)
  BY <1>1, AtHandled DEF IInv, RetriesAreBounded
<1> QED BY <1>1, <1>2, RaiseKeeps DEF IInv, TypeOK

LEMMA RetryKeeps == ASSUME IInv, Retry PROVE IInv'
<1>1. /\ pc = "handled" /\ pc' = "loop" /\ outcome' = "none"
      /\ retries[Current.id] < Current.max
      /\ retries' = [retries EXCEPT ![Current.id] = @ + 1]
      /\ waits' = Append(waits, Backoff(Current, retries[Current.id]))
      /\ UNCHANGED <<scenario, index, ctx, result, attempts, passed, jumped>>
  BY DEF Retry, HandlerFailed, MayRetry, Counted
<1>2. /\ index \in Positions /\ Current.id \in Ids /\ Current \in StepSet
      /\ retries \in [Ids -> Nat] /\ waits \in Seq(Nat)
      /\ Enabled(Current) /\ attempts \in Nat \ {0}
      /\ retries[Current.id] = attempts - 1
      /\ \A id \in Ids \ {Current.id} : retries[id] = 0
  BY <1>1, AtHandled, CurrentType DEF IInv, TypeOK
<1>3. Len(waits) = attempts - 1
  BY <1>1, <1>2 DEF IInv, WaitsFollowRetries
<1>4. Positions' = Positions /\ Current' = Current
  BY <1>1 DEF Positions, Current
<1>5. /\ retries' \in [Ids -> Nat]
      /\ retries'[Current.id] = attempts
      /\ \A id \in Ids \ {Current.id} : retries'[id] = 0
  BY <1>1, <1>2
<1>6. PICK slept \in Nat : slept = Backoff(Current, attempts - 1)
  BY <1>2, BackoffValue
<1>7. /\ waits' = Append(waits, slept) /\ waits' \in Seq(Nat)
      /\ Len(waits') = attempts
  BY <1>1, <1>2, <1>3, <1>6
<1>8. TypeOK'
  BY <1>1, <1>4, <1>5, <1>7 DEF IInv, TypeOK
<1>9. HandledIsCurrent' /\ PathIsCovered' /\ SuccessIsAtEnd' /\ FailureIsJust'
  BY <1>1, <1>2, <1>4 DEF IInv, HandledIsCurrent, PathIsCovered, SuccessIsAtEnd,
     FailureIsJust, Enabled
<1>10. CountersFollowVisits'
  BY <1>1, <1>2, <1>4, <1>5 DEF CountersFollowVisits
<1>11. BudgetLeft' /\ RetriesAreBounded'
  <2>1. Current.max \in Int
    BY <1>2 DEF StepSet
  <2> QED BY <1>1, <1>2, <1>4, <2>1 DEF BudgetLeft, RetriesAreBounded, Budget
<1>12. WaitsFollowRetries'
  BY <1>1, <1>7 DEF WaitsFollowRetries
<1>13. BackoffIsReused'
  <2> DEFINE schedule == Current.backoff
             Value(i) == IF schedule = <<>> THEN 0
                         ELSE LET value == IF i <= Len(schedule) THEN schedule[i]
                                           ELSE schedule[Len(schedule)]
                              IN IF value < 0 THEN 0 ELSE value
  <2>1. \A i \in DOMAIN waits : waits[i] = Value(i)
    BY <1>2 DEF IInv, BackoffIsReused
  <2>2. slept = Value(attempts)
    <3>1. attempts - 1 \in Nat /\ (attempts - 1) + 1 = attempts
      BY <1>2
    <3> QED BY <1>2, <1>6, <3>1, BackoffValue
  <2>3. \A i \in DOMAIN waits' : waits'[i] = Value(i)
    <3> HIDE DEF Value
    <3>1. DOMAIN waits' = 1..attempts /\ DOMAIN waits = 1..(attempts - 1)
      BY <1>2, <1>3, <1>7
    <3>2. \A i \in 1..(attempts - 1) : waits'[i] = waits[i]
      BY <1>2, <1>3, <1>7
    <3>3. waits'[attempts] = slept
      BY <1>2, <1>3, <1>7
    <3>4. \A i \in 1..attempts : i = attempts \/ i \in 1..(attempts - 1)
      BY <1>2
    <3> QED BY <2>1, <2>2, <3>1, <3>2, <3>3, <3>4
  <2> QED BY <1>4, <2>3 DEF BackoffIsReused
<1> QED BY <1>8, <1>9, <1>10, <1>11, <1>12, <1>13 DEF IInv

LEMMA GiveUpKeeps == ASSUME IInv, GiveUp PROVE IInv'
<1>1. /\ pc = "handled" /\ outcome = "failed"
      /\ ~(retries[Current.id] < Current.max)
      /\ End(FailedResult("step"))
      /\ UNCHANGED retries
  BY DEF GiveUp, HandlerFailed, MayRetry
<1>2. /\ index \in Positions /\ Enabled(Current)
      /\ attempts \in Nat \ {0} /\ retries[Current.id] = attempts - 1
  BY <1>1, AtHandled
<1>3. Current.max \in Int /\ Current.id \in Ids
  BY <1>2, CurrentType DEF IInv
<1>4. attempts = 1 + Budget(Current)
  <2>1. attempts <= 1 + Budget(Current)
    BY <1>2 DEF IInv, RetriesAreBounded
  <2> QED BY <1>1, <1>2, <1>3, <2>1 DEF Budget
<1>5. FailedResult("step") \in ResultSet
  BY <1>3 DEF FailedResult, ResultSet, Messages
<1>6. retries' \in [Ids -> Nat]
  BY <1>1 DEF IInv, TypeOK
<1>7. ~FailedResult("step").ok /\ FailedResult("step").step = Current.id
  BY DEF FailedResult
<1> QED BY <1>1, <1>2, <1>4, <1>5, <1>6, <1>7, EndKeeps

\* A goto to an id that some step has lands on such a step.
LEMMA GotoLands ==
  ASSUME TypeOK, NEW id, Known(id)
  PROVE  IndexOf(id) \in Positions /\ scenario[IndexOf(id)].id = id
<1> DEFINE named == {i \in Positions : scenario[i].id = id}
<1>1. named # {} /\ named \in SUBSET (1..Len(scenario))
  BY DEF Known, Positions
<1>2. Len(scenario) \in Nat
  BY ScenarioType
<1>3. Max(named) \in named
  <2> HIDE DEF named
  <2> QED BY <1>1, <1>2, MaxOfPositions
<1> QED BY <1>3 DEF IndexOf

LEMMA GotoKeeps == ASSUME IInv, Goto PROVE IInv'
<1> DEFINE to == IndexOf(SelectedRule.target)
<1>1. /\ pc = "handled" /\ retries' = Pop
      /\ Known(SelectedRule.target)
      /\ Arrive(to)
      /\ passed' = {i \in passed : i < to} \ {index}
      /\ jumped' = {i \in jumped : i < to} \cup (index..(to - 1))
      /\ UNCHANGED <<scenario, ctx, result>>
  BY DEF Goto, HandlerFailed
<1>2. to \in Positions
  BY <1>1, GotoLands DEF IInv
<1>3. /\ index \in Positions /\ Len(scenario) \in Nat
      /\ passed \subseteq Positions /\ jumped \subseteq Positions
  BY <1>1, AtHandled, ScenarioType DEF IInv, TypeOK
<1> HIDE DEF to
<1>4. to \in 1..(Len(scenario) + 1)
  BY <1>2, <1>3 DEF Positions
<1>5. passed' \subseteq Positions /\ jumped' \subseteq Positions
  <2>1. index..(to - 1) \subseteq Positions
    BY <1>2, <1>3 DEF Positions
  <2> QED BY <1>1, <1>3, <2>1
<1>6. ASSUME NEW j \in Positions, j < to, Enabled(scenario[j])
      PROVE  j \in passed' \cup jumped'
  <2>1. CASE j < index
    <3>1. j \in passed \cup jumped /\ j # index
      BY <1>3, <1>6, <2>1 DEF IInv, PathIsCovered, Positions
    <3> QED BY <1>1, <1>6, <3>1
  <2>2. CASE ~(j < index)
    BY <1>1, <1>2, <1>3, <1>6, <2>2 DEF Positions
  <2> QED BY <2>1, <2>2
<1>7. retries' \in [Ids -> Nat] /\ \A id \in Ids : retries'[id] = 0
  BY <1>1, PopClears
<1> QED BY <1>1, <1>4, <1>5, <1>6, <1>7, ArriveKeeps

\* A failure without a retry: the rule asks for something else.
LEMMA FailKeeps ==
  ASSUME IInv, NEW message \in Messages, HandlerFailed, Action # "retry",
         retries' = Pop, End(FailedResult(message))
  PROVE  IInv'
<1>1. pc = "handled" /\ outcome = "failed"
  BY DEF HandlerFailed
<1>2. index \in Positions /\ Enabled(Current) /\ Current.id \in Ids
  BY <1>1, AtHandled, CurrentType DEF IInv
<1>3. FailedResult(message) \in ResultSet
  BY <1>2 DEF FailedResult, ResultSet
<1>4. ~FailedResult(message).ok /\ FailedResult(message).step = Current.id
  BY DEF FailedResult
<1>5. retries' \in [Ids -> Nat]
  BY <1>1, PopClears
<1> QED BY <1>1, <1>2, <1>3, <1>4, <1>5, EndKeeps

LEMMA FinishKeeps == ASSUME IInv, Finish PROVE IInv'
<1> DEFINE res == [ok |-> TRUE, step |-> NoId, message |-> "none"]
<1>1. /\ pc = "loop" /\ index \notin Positions /\ End(res) /\ UNCHANGED retries
  BY DEF Finish
<1>2. res \in ResultSet /\ res.ok
  BY DEF ResultSet, Messages
<1>3. retries' \in [Ids -> Nat]
  BY <1>1 DEF IInv, TypeOK
<1> HIDE DEF res
<1> QED BY <1>1, <1>2, <1>3, EndKeeps

LEMMA StutterKeeps == ASSUME IInv, UNCHANGED executor PROVE IInv'
<1>1. UNCHANGED <<scenario, pc, index, retries, ctx, outcome, result, attempts,
                  waits, passed, jumped>>
  BY DEF executor, machine, history
<1>2. Positions' = Positions /\ Current' = Current /\ Action' = Action
  BY <1>1, SameAction DEF Positions, Current
<1>3. TypeOK' /\ HandledIsCurrent' /\ CountersFollowVisits' /\ BudgetLeft'
  BY <1>1, <1>2 DEF IInv, TypeOK, HandledIsCurrent, CountersFollowVisits, BudgetLeft,
     Budget, Enabled
<1>4. RetriesAreBounded' /\ WaitsFollowRetries' /\ BackoffIsReused'
  BY <1>1, <1>2 DEF IInv, RetriesAreBounded, WaitsFollowRetries, BackoffIsReused, Budget
<1>5. PathIsCovered' /\ SuccessIsAtEnd' /\ FailureIsJust'
  BY <1>1, <1>2 DEF IInv, PathIsCovered, SuccessIsAtEnd, FailureIsJust, Enabled, Budget
<1> QED BY <1>3, <1>4, <1>5 DEF IInv

LEMMA NextKeeps == ASSUME IInv, Next PROVE IInv'
<1>1. CASE GotoNowhere
  <2>1. PICK message \in {"goto_missing", "goto_not_found"} : End(FailedResult(message))
    BY <1>1 DEF GotoNowhere
  <2> QED BY <1>1, <2>1, FailKeeps DEF GotoNowhere, Messages
<1>2. CASE Abort
  BY <1>2, FailKeeps DEF Abort, Messages
<1> QED BY <1>1, <1>2, SkipKeeps, HandleKeeps, AdvanceKeeps, SelectRaisesKeeps,
           RetryKeeps, GiveUpKeeps, GotoKeeps, FinishKeeps DEF Next

LEMMA ScenarioIsFixed == ASSUME Next PROVE scenario' = scenario
BY DEF Next, Skip, Handle, Advance, SelectRaises, Retry, GiveUp, Goto, GotoNowhere, Abort,
   Finish, End

-----------------------------------------------------------------------------
(* Theorems *)

\* The inductive invariant holds in every state of an execution.
THEOREM Invariance == Spec => []IInv
<1>1. IInv /\ [Next]_executor => IInv'
  BY NextKeeps, StutterKeeps
<1> QED BY <1>1, InitHolds, PTL DEF Spec

\* Type correctness: among other things every goto, also one to an id that
\* steps share, lands inside the list.
THEOREM TypeCorrect == Spec => []TypeOK
<1>1. IInv => TypeOK
  BY DEF IInv
<1> QED BY <1>1, Invariance, PTL

\* retry_counts has an entry for the step execute is at only, and it counts
\* the failed attempts of this visit.
THEOREM RetryCountsFollowVisits == Spec => []CountersFollowVisits
<1>1. IInv => CountersFollowVisits
  BY DEF IInv
<1> QED BY <1>1, Invariance, PTL

\* One visit calls the handler at most retry.max times more than once.
THEOREM HandlerCallsAreBounded == Spec => []RetriesAreBounded
<1>1. IInv => RetriesAreBounded
  BY DEF IInv
<1> QED BY <1>1, Invariance, PTL

\* A failed execution names an enabled step that failed and had no retry left.
THEOREM FailuresAreJust == Spec => []FailureIsJust
<1>1. IInv => FailureIsJust
  BY DEF IInv
<1> QED BY <1>1, Invariance, PTL

LEMMA SuccessEarned == IInv => SuccessIsEarned
<1> SUFFICES ASSUME IInv, pc = "ended", result.ok, NEW i \in Positions, Enabled(scenario[i])
             PROVE  i \in passed \cup jumped
  BY DEF SuccessIsEarned
<1>1. index \in 1..(Len(scenario) + 1) /\ index \notin 1..Len(scenario)
  BY DEF IInv, SuccessIsAtEnd, TypeOK, Positions
<1>2. index = Len(scenario) + 1 /\ Len(scenario) \in Nat
  BY <1>1, ScenarioType DEF IInv
<1>3. i < index
  BY <1>2 DEF Positions
<1> QED BY <1>3 DEF IInv, PathIsCovered

\* A successful execution has passed every enabled step or jumped over it.
THEOREM SuccessesAreEarned == Spec => []SuccessIsEarned
BY SuccessEarned, Invariance, PTL

\* The backoffs slept are those of the schedule, its last value again and
\* again after its end.
THEOREM BackoffsFollowSchedule == Spec => []BackoffIsReused
<1>1. IInv => BackoffIsReused
  BY DEF IInv
<1> QED BY <1>1, Invariance, PTL

-----------------------------------------------------------------------------
(* The executor implements ScenarioWalk *)

\* A step is tried again only if it says so, and only an end has a result.
WalkInv ==
  /\ pc = "loop" /\ attempts > 0 => Walk!AllowsRetry(Current)
  /\ pc # "ended" => result = NoResult

\* The rule that is selected is one of the step's, and none is selected only
\* if the step is open.
LEMMA SelectedIsDeclared ==
  ASSUME TypeOK, index \in Positions
  PROVE  \/ SelectedRule \in Walk!RulesOf(Current)
         \/ SelectedRule = NoRule /\ \A rule \in Walk!RulesOf(Current) : rule.when # NoExpr
<1>1. Current.rules \in Seq(RuleSet)
  BY CurrentType DEF StepSet
<1>2. Len(Current.rules) \in Nat /\ DOMAIN Current.rules = 1..Len(Current.rules)
  BY <1>1
<1>3. CASE Applying # {}
  <2>1. Min(Applying) \in Applying
    BY <1>2, <1>3, MinOfPositions DEF Applying
  <2> QED BY <1>3, <2>1 DEF SelectedRule, Applying, Walk!RulesOf
<1>4. CASE Applying = {} /\ Fallbacks # {}
  <2>1. Min(Fallbacks) \in Fallbacks
    BY <1>2, <1>4, MinOfPositions DEF Fallbacks
  <2> QED BY <1>4, <2>1 DEF SelectedRule, Fallbacks, Walk!RulesOf
<1>5. CASE Applying = {} /\ Fallbacks = {}
  BY <1>5 DEF SelectedRule, Fallbacks, Walk!RulesOf
<1> QED BY <1>3, <1>4, <1>5

\* What is done about a failure is something the step allows.
LEMMA ActionIsAllowed ==
  ASSUME TypeOK, index \in Positions
  PROVE  /\ Action \in {"retry", "abort", "goto"}
         /\ Action = "retry" => Walk!AllowsRetry(Current)
         /\ Action = "abort" => Walk!AllowsAbort(Current)
         /\ Action = "goto" => SelectedRule.target \in Walk!Targets(Current)
<1> DEFINE rules == Walk!RulesOf(Current)
<1>1. rules \subseteq RuleSet
  <2>1. Current.rules \in Seq(RuleSet)
    BY CurrentType DEF StepSet
  <2> QED BY <2>1 DEF Walk!RulesOf
<1>2. CASE SelectedRule = NoRule /\ \A rule \in rules : rule.when # NoExpr
  <2>1. Walk!IsOpen(Current)
    BY <1>2 DEF Walk!IsOpen
  <2> QED BY <1>2, <2>1, CurrentType
          DEF Action, DefaultAction, Walk!AllowsRetry, Walk!AllowsAbort
<1>3. CASE SelectedRule \in rules
  <2>1. SelectedRule \in RuleSet /\ SelectedRule # NoRule
    BY <1>1, <1>3, NoRuleAssumption DEF NoRuleAssumption
  <2>2. SelectedRule.action \in {"abort", "retry", "goto", "none"}
    BY <2>1 DEF RuleSet
  <2>3. Walk!Declares(Current, SelectedRule.action)
    BY <1>3 DEF Walk!Declares
  <2>4. CASE SelectedRule.action = "none"
    <3>1. Walk!IsOpen(Current)
      BY <2>3, <2>4 DEF Walk!IsOpen
    <3> QED BY <2>4, <3>1, CurrentType
            DEF Action, DefaultAction, Walk!AllowsRetry, Walk!AllowsAbort
  <2>5. CASE SelectedRule.action # "none"
    <3>1. Action = SelectedRule.action
      BY <2>1, <2>5 DEF Action
    <3>2. Action = "goto" => SelectedRule.target \in Walk!Targets(Current)
      BY <1>3, <3>1 DEF Walk!Targets
    <3> QED BY <2>2, <2>3, <2>5, <3>1, <3>2 DEF Walk!AllowsRetry, Walk!AllowsAbort
  <2> QED BY <2>4, <2>5
<1> QED BY <1>2, <1>3, SelectedIsDeclared

LEMMA WalkNames ==
  /\ Walk!Places = Positions
  /\ Walk!Here = Current
  /\ \A step : Walk!On(step) <=> Enabled(step)
BY DEF Walk!Places, Walk!Here, Walk!On, Positions, Current, Enabled

\* While it walks, the executor is where the walk is, which has not ended.
LEMMA WalkingTogether ==
  ASSUME IInv, pc \in {"loop", "handled"}
  PROVE  /\ EndOf = "no"
         /\ Walk!Walking <=> index \in Positions
         /\ pc = "handled" => Walk!Tried /\ attempts > 0
<1>1. EndOf = "no"
  BY DEF EndOf
<1>2. Walk!Walking <=> index \in Positions
  BY <1>1, WalkNames DEF Walk!Walking
<1>3. pc = "handled" => index \in Positions /\ attempts > 0
  BY AtHandled
<1> QED BY <1>1, <1>2, <1>3 DEF Walk!Tried

\* Arriving somewhere without a result is the walk's going there.
LEMMA ArriveGoes ==
  ASSUME NEW i, pc \in {"loop", "handled"}, Arrive(i), UNCHANGED <<scenario, result>>
  PROVE  Walk!GoTo(i)
BY DEF Arrive, Walk!GoTo, EndOf

LEMMA ArriveKeepsWalkInv ==
  ASSUME WalkInv, NEW i, pc \in {"loop", "handled"}, Arrive(i), UNCHANGED <<scenario, result>>
  PROVE  WalkInv'
BY DEF Arrive, WalkInv

\* A failed execution ends at the step it is at, and its walk at the same.
LEMMA FailedGoes ==
  ASSUME IInv, HandlerFailed, NEW message, End(FailedResult(message)),
         \/ Walk!AllowsAbort(Current)
         \/ Walk!AllowsRetry(Current) /\ attempts > Current.max
         \/ \E id \in Walk!Targets(Current) : ~Walk!Exists(id)
  PROVE  Walk!Fail
<1>1. Walk!Tried
  BY WalkingTogether DEF HandlerFailed
<1>2. /\ EndOf' = "failed" /\ result'.step = Current.id
      /\ UNCHANGED <<scenario, index, attempts>>
  BY DEF End, FailedResult, EndOf, history
<1> QED BY <1>1, <1>2, WalkNames DEF Walk!Fail, Walk!EndAs

\* Handling a step is a try, whose exception ends the walk.
LEMMA HandleGoes ==
  ASSUME IInv, WalkInv, Handle
  PROVE  (Walk!Try \/ Walk!Raise) /\ WalkInv'
<1>1. /\ pc = "loop" /\ index \in Positions /\ Enabled(Current)
      /\ pc' \in {"raised", "handled"}
      /\ attempts' = attempts + 1
      /\ UNCHANGED <<scenario, index, result>>
  BY DEF Handle, AtStep, Raise
<1>2. Walk!MayTry
  <2>1. attempts \in Nat /\ Current.max \in Int /\ attempts <= Budget(Current)
    BY <1>1, CurrentType DEF IInv, TypeOK, BudgetLeft
  <2>2. attempts = 0 \/ (Walk!AllowsRetry(Current) /\ attempts <= Current.max)
    BY <1>1, <2>1 DEF WalkInv, Budget
  <2> QED BY <1>1, <2>2, WalkingTogether, WalkNames DEF Walk!MayTry
<1>3. EndOf = "no" /\ EndOf' = IF pc' = "raised" THEN "raised" ELSE "no"
  BY <1>1 DEF EndOf
<1>4. Walk!Try \/ Walk!Raise
  BY <1>1, <1>2, <1>3 DEF Walk!Try, Walk!Raise, Walk!EndAs
<1> QED BY <1>1, <1>4 DEF WalkInv

\* Retries are hidden, but leave the walk the right to try again.
LEMMA RetryGoes ==
  ASSUME IInv, WalkInv, Retry
  PROVE  UNCHANGED Walk!walk /\ WalkInv'
<1>1. /\ pc = "handled" /\ pc' = "loop" /\ Action = "retry"
      /\ UNCHANGED <<scenario, index, result, attempts>>
  BY DEF Retry, HandlerFailed
<1>2. Walk!AllowsRetry(Current)
  BY <1>1, AtHandled, ActionIsAllowed DEF IInv
<1>3. Walk!AllowsRetry(Current)'
  BY <1>1, <1>2 DEF Current, Walk!AllowsRetry, Walk!Declares, Walk!RulesOf, Walk!IsOpen
<1>4. EndOf' = EndOf
  BY <1>1 DEF EndOf
<1> QED BY <1>1, <1>3, <1>4 DEF WalkInv, Walk!walk

LEMMA GotoGoes ==
  ASSUME IInv, WalkInv, Goto
  PROVE  Walk!Jump /\ WalkInv'
<1> DEFINE to == IndexOf(SelectedRule.target)
<1>1. /\ pc = "handled" /\ Action = "goto" /\ Known(SelectedRule.target) /\ Arrive(to)
      /\ UNCHANGED <<scenario, result>>
  BY DEF Goto, HandlerFailed
<1>2. to \in Positions /\ scenario[to].id = SelectedRule.target
  BY <1>1, GotoLands DEF IInv
<1>3. SelectedRule.target \in Walk!Targets(Current)
  BY <1>1, AtHandled, ActionIsAllowed DEF IInv
<1> HIDE DEF to
<1>4. Walk!GoTo(to) /\ WalkInv'
  BY <1>1, ArriveGoes, ArriveKeepsWalkInv
<1> QED BY <1>1, <1>2, <1>3, <1>4, WalkingTogether, WalkNames DEF Walk!Jump

\* Every step of the executor is a step of the walk, or hidden from it.
LEMMA StepGoes ==
  ASSUME IInv, WalkInv, Next
  PROVE  [Walk!Next]_(Walk!walk) /\ WalkInv'
<1> USE DEF Walk!Next
<1>1. CASE Skip
  <2>1. /\ pc = "loop" /\ index \in Positions /\ ~Enabled(Current) /\ Arrive(index + 1)
        /\ UNCHANGED <<scenario, result>>
    BY <1>1 DEF Skip, AtStep
  <2>2. ~(attempts > 0)
    BY <2>1 DEF IInv, HandledIsCurrent
  <2>3. Walk!Pass
    BY <2>1, <2>2, WalkingTogether, WalkNames, ArriveGoes DEF Walk!Pass
  <2> QED BY <2>1, <2>3, ArriveKeepsWalkInv
<1>2. CASE Advance
  <2>1. pc = "handled" /\ Arrive(index + 1) /\ UNCHANGED <<scenario, result>>
    BY <1>2 DEF Advance
  <2>2. Walk!Pass
    BY <2>1, AtHandled, WalkingTogether, WalkNames, ArriveGoes DEF Walk!Pass
  <2> QED BY <2>1, <2>2, ArriveKeepsWalkInv
<1>3. CASE SelectRaises
  <2>1. /\ pc = "handled" /\ pc' = "raised"
        /\ UNCHANGED <<scenario, index, result, attempts>>
    BY <1>3 DEF SelectRaises, Raise, history
  <2>2. EndOf' = "raised"
    BY <2>1 DEF EndOf
  <2>3. Walk!Raise
    BY <2>1, <2>2, WalkingTogether DEF Walk!Raise, Walk!EndAs
  <2> QED BY <2>1, <2>3 DEF WalkInv
<1>4. CASE GiveUp
  <2>1. /\ HandlerFailed /\ pc = "handled" /\ Action = "retry" /\ ~(retries[Current.id] < Current.max)
        /\ End(FailedResult("step")) /\ pc' = "ended"
    BY <1>4 DEF GiveUp, HandlerFailed, MayRetry, End
  <2>2. index \in Positions /\ attempts \in Nat /\ retries[Current.id] = attempts - 1
    BY <2>1, AtHandled
  <2>3. attempts > Current.max /\ Walk!AllowsRetry(Current)
    BY <2>1, <2>2, CurrentType, ActionIsAllowed DEF IInv
  <2> QED BY <2>1, <2>3, FailedGoes DEF WalkInv
<1>5. CASE GotoNowhere
  <2>1. PICK message \in {"goto_missing", "goto_not_found"} : End(FailedResult(message))
    BY <1>5 DEF GotoNowhere
  <2>2. /\ HandlerFailed /\ pc = "handled" /\ Action = "goto" /\ pc' = "ended"
        /\ SelectedRule.target = NoId \/ ~Known(SelectedRule.target)
    BY <1>5 DEF GotoNowhere, HandlerFailed, End
  <2>3. index \in Positions /\ SelectedRule.target \in Walk!Targets(Current)
    BY <2>2, AtHandled, ActionIsAllowed DEF IInv
  <2>4. \A i \in Positions : scenario[i].id \in Ids
    BY ScenarioType DEF IInv, StepSet
  <2>5. ~Walk!Exists(SelectedRule.target)
    BY <2>2, <2>4, WalkNames, NoIdAssumption DEF NoIdAssumption, Known, Walk!Exists
  <2> QED BY <2>1, <2>2, <2>3, <2>5, FailedGoes DEF WalkInv
<1>6. CASE Abort
  <2>1. HandlerFailed /\ pc = "handled" /\ Action = "abort" /\ End(FailedResult("step")) /\ pc' = "ended"
    BY <1>6 DEF Abort, HandlerFailed, End
  <2>2. Walk!AllowsAbort(Current)
    BY <2>1, AtHandled, ActionIsAllowed DEF IInv
  <2> QED BY <2>1, <2>2, FailedGoes DEF WalkInv
<1>7. CASE Finish
  <2>1. /\ pc = "loop" /\ index \notin Positions /\ pc' = "ended"
        /\ result' = [ok |-> TRUE, step |-> NoId, message |-> "none"]
        /\ UNCHANGED <<scenario, index, attempts>>
    BY <1>7 DEF Finish, End, history
  <2>2. result'.ok /\ result'.step = result.step
    BY <2>1 DEF WalkInv, NoResult
  <2>3. EndOf' = "ok"
    BY <2>1, <2>2 DEF EndOf
  <2>4. Walk!Succeed
    BY <2>1, <2>2, <2>3, WalkingTogether, WalkNames DEF Walk!Succeed, Walk!EndAs
  <2> QED BY <2>1, <2>4 DEF WalkInv
<1> QED BY <1>1, <1>2, <1>3, <1>4, <1>5, <1>6, <1>7, HandleGoes, RetryGoes, GotoGoes DEF Next

LEMMA WalkStutters ==
  ASSUME WalkInv, UNCHANGED executor
  PROVE  UNCHANGED Walk!walk /\ WalkInv'
<1>1. UNCHANGED <<scenario, pc, index, result, attempts>>
  BY DEF executor, machine, history
<1>2. Walk!AllowsRetry(Current)' <=> Walk!AllowsRetry(Current)
  BY <1>1 DEF Current, Walk!AllowsRetry, Walk!Declares, Walk!RulesOf, Walk!IsOpen
<1> QED BY <1>1, <1>2 DEF Walk!walk, EndOf, WalkInv

LEMMA WalkBegins == Init => Walk!Init /\ WalkInv
BY DEF Init, NoResult, Walk!Init, WalkInv, EndOf

\* Every execution is a walk its scenario allows: further tries only where
\* the step says retry, max of them at most; gotos to a step of a name the
\* rules give; a failure where all retries are used, the step says abort or a
\* goto leads nowhere, and blamed on that step; a success behind the last one.
THEOREM ExecutorImplementsWalk == Spec => ImplementsWalk
<1>1. Init => Walk!Init /\ WalkInv
  BY WalkBegins
<1>2. IInv /\ WalkInv /\ [Next]_executor => [Walk!Next]_(Walk!walk) /\ WalkInv'
  BY StepGoes, WalkStutters
<1> QED BY <1>1, <1>2, Invariance, PTL DEF Spec, ImplementsWalk, Walk!Spec

-----------------------------------------------------------------------------
(* Why executions end *)

\* In the order of positions, then of tries, then of the stages of a try, an
\* execution has got further.  Positions are bounded by the list and tries by
\* RetriesAreBounded, so that it cannot do so for ever.
Stage == IF pc = "handled" THEN 0 ELSE IF pc = "loop" THEN 1 ELSE 2

Further ==
  \/ index' > index
  \/ index' = index /\ attempts' > attempts
  \/ index' = index /\ attempts' = attempts /\ Stage' > Stage

StepsLeadOn == [][Further \/ (Goto /\ ~Forward)]_executor

LEMMA ForwardGotoLeadsOn ==
  ASSUME IInv, Forward, Goto
  PROVE  Further
<1> DEFINE to == IndexOf(SelectedRule.target)
<1>1. /\ pc = "handled" /\ Action = "goto" /\ Known(SelectedRule.target) /\ index' = to
      /\ SelectedRule.target # NoId
  BY DEF Goto, HandlerFailed, Arrive
<1>2. index \in Positions /\ index \in Nat
  BY <1>1, AtHandled, ScenarioType DEF IInv
<1>3. SelectedRule \in Walk!RulesOf(Current) /\ SelectedRule.action = "goto"
  <2>1. SelectedRule # NoRule
    BY <1>1, CurrentType DEF Action, DefaultAction
  <2>2. SelectedRule.action = "goto"
    BY <1>1, <2>1 DEF Action, DefaultAction
  <2> QED BY <1>2, <2>1, <2>2, SelectedIsDeclared DEF IInv
<1>4. PICK k \in DOMAIN scenario[index].rules : scenario[index].rules[k] = SelectedRule
  BY <1>3 DEF Walk!RulesOf, Current
<1>5. to > index
  BY <1>1, <1>2, <1>3, <1>4 DEF Forward
<1> QED BY <1>1, <1>5 DEF Further

LEMMA StepLeadsOn ==
  ASSUME IInv, Next
  PROVE  Further \/ (Goto /\ ~Forward)
<1>a. index \in Nat /\ attempts \in Nat
  BY ScenarioType DEF IInv, TypeOK
<1>1. ASSUME Arrive(index + 1) PROVE Further
  BY <1>a, <1>1 DEF Arrive, Further
<1>2. CASE Handle
  BY <1>a, <1>2 DEF Handle, Further
<1>3. ASSUME pc = "handled", pc' \in {"loop", "ended", "raised"}, UNCHANGED <<index, attempts>>
      PROVE  Further
  BY <1>3 DEF Stage, Further
<1>4. CASE SelectRaises \/ Retry \/ GiveUp \/ GotoNowhere \/ Abort
  BY <1>3, <1>4 DEF SelectRaises, Raise, Retry, GiveUp, GotoNowhere, Abort, HandlerFailed, End, history
<1>5. CASE Finish
  BY <1>5 DEF Finish, End, history, Stage, Further
<1> QED BY <1>1, <1>2, <1>4, <1>5, ForwardGotoLeadsOn DEF Next, Skip, Advance

\* Every step leads on but a goto of a scenario that has one leading back: of
\* EndsOrJumps and ForwardScenariosEnd all that is left is that steps are taken.
THEOREM ExecutionsLeadOn == Spec => StepsLeadOn
<1>1. IInv /\ [Next]_executor => [Further \/ (Goto /\ ~Forward)]_executor
  BY StepLeadsOn
<1> QED BY <1>1, Invariance, PTL DEF Spec, StepsLeadOn
=============================================================================
