------------------------- MODULE RunContractProofs --------------------------
(***************************************************************************)
(* What RunContract promises, proved: whatever implements it has these     *)
(* properties.                                                             *)
(***************************************************************************)
EXTENDS RunContract, TLAPS

\* A request that is new has no answer that names an end, and a refused one
\* never has.
AnswersFollowPhases ==
  \A r \in Requests :
    phase[r] \in {"new", "refused", "admitted", "running"} => answer[r] \notin Ends

CInv == TypeOK /\ OneLivePerKey /\ AnswersAreTrue /\ AnswersFollowPhases

LEMMA MoveType ==
  ASSUME TypeOK, NEW r \in Requests, NEW to \in Phases, NEW told \in Answers, Move(r, to, told)
  PROVE  /\ TypeOK' /\ key' = key
         /\ phase'[r] = to /\ answer'[r] = told
         /\ \A s \in Requests \ {r} : phase'[s] = phase[s] /\ answer'[s] = answer[s]
BY DEF TypeOK, Move

\* A move that lets no new request live, and answers the truth, keeps CInv.
LEMMA MoveKeeps ==
  ASSUME CInv, NEW r \in Requests, NEW to \in Phases, NEW told \in Answers, Move(r, to, told),
         to \in {"admitted", "running"} \cup Ends =>
           Live(r) \/ \A s \in Requests : Rival(r, s) => ~Live(s),
         told \in Ends => to = told
  PROVE  CInv'
<1>1. /\ TypeOK' /\ key' = key
      /\ phase'[r] = to /\ answer'[r] = told
      /\ \A s \in Requests \ {r} : phase'[s] = phase[s] /\ answer'[s] = answer[s]
  BY MoveType DEF CInv
<1>2. OneLivePerKey'
  <2> SUFFICES ASSUME NEW s \in Requests, NEW t \in Requests,
                      Rival(s, t)', Live(s)', Live(t)'
               PROVE  FALSE
    BY DEF OneLivePerKey
  <2>1. Rival(s, t) /\ Rival(t, s)
    BY <1>1 DEF Rival
  <2>2. s # r => Live(s)
    BY <1>1 DEF Live
  <2>3. t # r => Live(t)
    BY <1>1 DEF Live
  <2>4. s # t
    BY <2>1 DEF Rival
  <2>5. s = r \/ t = r => to \in {"admitted", "running"} \cup Ends
    BY <1>1 DEF Live
  <2> QED BY <2>1, <2>2, <2>3, <2>4, <2>5 DEF CInv, OneLivePerKey
<1>3. AnswersAreTrue' /\ AnswersFollowPhases'
  BY <1>1 DEF CInv, AnswersAreTrue, AnswersFollowPhases, Ends
<1> QED BY <1>1, <1>2, <1>3 DEF CInv

LEMMA NextKeeps == ASSUME CInv, Next PROVE CInv'
<1>1. ASSUME NEW r \in Requests, Refuse(r) PROVE CInv'
  BY <1>1, MoveKeeps DEF Refuse, Phases, Answers, Ends
<1>2. ASSUME NEW r \in Requests, Admit(r) PROVE CInv'
  BY <1>2, MoveKeeps DEF Admit, Phases, Answers, Ends
<1>3. ASSUME NEW r \in Requests, Start(r) PROVE CInv'
  <2>1. answer[r] \in Answers /\ answer[r] \notin Ends
    BY <1>3 DEF Start, CInv, TypeOK, AnswersFollowPhases
  <2> QED BY <1>3, <2>1, MoveKeeps DEF Start, Phases, Live
<1>4. ASSUME NEW r \in Requests, End(r) PROVE CInv'
  <2>1. answer[r] \in Answers /\ answer[r] \notin Ends /\ Live(r)
    BY <1>4 DEF End, CInv, TypeOK, AnswersFollowPhases, Live
  <2>2. PICK to \in Ends : \E told \in {answer[r], to} : Move(r, to, told)
    BY <1>4 DEF End
  <2>3. PICK told \in {answer[r], to} : Move(r, to, told)
    BY <2>2
  <2> QED BY <2>1, <2>3, MoveKeeps DEF Phases, Answers
<1>5. ASSUME NEW r \in Requests, Accept(r) PROVE CInv'
  <2>1. phase[r] \in Phases /\ Live(r)
    BY <1>5 DEF Accept, CInv, TypeOK
  <2> QED BY <1>5, <2>1, MoveKeeps DEF Accept, Answers, Ends
<1>6. ASSUME NEW r \in Requests, Report(r) PROVE CInv'
  BY <1>6, MoveKeeps DEF Report, Phases, Answers, Live
<1>7. CASE Forget
  <2>1. /\ key' = key /\ answer' = answer
        /\ \A r \in Requests : phase'[r] = IF Live(r) THEN "lost" ELSE phase[r]
        /\ phase' \in [Requests -> Phases]
    BY <1>7 DEF Forget, CInv, TypeOK, Phases
  <2>2. \A r \in Requests : ~Live(r)'
    BY <2>1 DEF Live, Ends
  <2>3. TypeOK' /\ OneLivePerKey'
    BY <2>1, <2>2 DEF CInv, TypeOK, OneLivePerKey
  <2>4. AnswersAreTrue' /\ AnswersFollowPhases'
    BY <2>1 DEF CInv, AnswersAreTrue, AnswersFollowPhases, Live, Ends
  <2> QED BY <2>3, <2>4 DEF CInv
<1> QED BY <1>1, <1>2, <1>3, <1>4, <1>5, <1>6, <1>7 DEF Next

\* The contract keeps its types, keys and answers.
THEOREM ContractInvariance == Spec => []CInv
<1>1. Init => CInv
  BY DEF Init, CInv, TypeOK, Phases, Answers, Ends, OneLivePerKey, Live, AnswersAreTrue,
     AnswersFollowPhases
<1>2. CInv /\ UNCHANGED vars => CInv'
  BY DEF vars, CInv, TypeOK, OneLivePerKey, Rival, Live, AnswersAreTrue, AnswersFollowPhases
<1> QED BY <1>1, <1>2, NextKeeps, PTL DEF Spec

\* One process never has two runs for a key.
THEOREM KeysAreExclusive == Spec => []OneLivePerKey
<1>1. CInv => OneLivePerKey
  BY DEF CInv
<1> QED BY <1>1, ContractInvariance, PTL

\* An answer that names an end is true.
THEOREM AnswersTellEnds == Spec => []AnswersAreTrue
<1>1. CInv => AnswersAreTrue
  BY DEF CInv
<1> QED BY <1>1, ContractInvariance, PTL
=============================================================================
