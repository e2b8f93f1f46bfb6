------------------------ MODULE AnswerService_proofs ------------------------
(* Proofs about AnswerService, for any number of workers and questions.    *)
EXTENDS AnswerService, TLAPS, FiniteSetTheorems

-----------------------------------------------------------------------------
(* Type correctness.                                                       *)

LEMMA TypeInit == Init => TypeOK
  <1> SUFFICES ASSUME Init PROVE TypeOK
    OBVIOUS
  <1>1. Busy = {} /\ \A t \in Threads : pc[t] = "idle"
    BY DEF Init, Busy
  <1>2. budget \in Money /\ spend \in Money /\ billed \in Money
    BY DEF Init, Money, Nothing
  <1> QED BY <1>1, <1>2 DEF Init, TypeOK, Content, Places

LEMMA TypeNext == TypeOK /\ [Next]_vars => TypeOK'
  <1> SUFFICES ASSUME TypeOK, [Next]_vars PROVE TypeOK'
    OBVIOUS
  <1> USE ServiceAssumption
      DEF TypeOK, Busy, Money, Content, Places, Outcomes, Go, Answer, KeyOf
  <1>1. ASSUME NEW t \in Threads, NEW q \in Questions, Arrive(t, q)
        PROVE  TypeOK'
    BY <1>1 DEF Arrive, cache, Nothing
  <1>2. ASSUME NEW t \in Threads, LookupHit(t) PROVE TypeOK'
    <2>1. asked[t] \in Questions /\ entry[KeyOf(t)] \in Questions
      BY <1>2 DEF LookupHit, Cached, Keys
    <2> QED BY <1>2, <2>1 DEF LookupHit, cache, money, history
  <1>3. ASSUME NEW t \in Threads, LookupMiss(t) PROVE TypeOK'
    BY <1>3 DEF LookupMiss, cache, money, history
  <1>4. ASSUME NEW t \in Threads, CheckPasses(t) PROVE TypeOK'
    BY <1>4 DEF CheckPasses, cache, money, history
  <1>5. ASSUME NEW t \in Threads, CheckRaises(t) PROVE TypeOK'
    BY <1>5 DEF CheckRaises, cache, money, history
  <1>6. ASSUME NEW t \in Threads, Call(t) PROVE TypeOK'
    <2>1. asked[t] \in Questions /\ Cost[asked[t]] \in Nat
      BY <1>6 DEF Call
    <2> QED BY <1>6, <2>1 DEF Call, cache, money, Plus
  <1>7. ASSUME NEW t \in Threads, CallFails(t) PROVE TypeOK'
    BY <1>7 DEF CallFails, cache, money, history
  <1>8. ASSUME NEW t \in Threads, Record(t) PROVE TypeOK'
    <2>1. asked[t] \in Questions /\ Cost[asked[t]] \in Nat
      BY <1>8 DEF Record
    <2> QED BY <1>8, <2>1 DEF Record, cache, history, Plus
  <1>9. ASSUME NEW t \in Threads, PutOpen(t) PROVE TypeOK'
    BY <1>9 DEF PutOpen, money, history
  <1>10. ASSUME NEW t \in Threads, PutWrite(t) PROVE TypeOK'
    <2>1. reply[t] \in Questions /\ asked[t] \in Questions
      BY <1>10 DEF PutWrite
    <2>2. \A old : Written(t, old) \subseteq Content
      BY <2>1 DEF Written
    <2> HIDE DEF Written
    <2>3. entry' \in [Keys -> Content] /\ tmp' \in [Keys -> Content]
      BY <1>10, <2>2 DEF PutWrite
    <2>4. handle' \in [Threads -> {"none", "tmp", "entry"}]
      BY <1>10 DEF PutWrite
    <2> QED BY <1>10, <2>3, <2>4 DEF PutWrite, money, history
  <1>11. ASSUME NEW t \in Threads, PutRename(t) PROVE TypeOK'
    BY <1>11 DEF PutRename, Renamed, Keys, cache, money, history
  <1>12. ASSUME NEW t \in Threads, PutFails(t) PROVE TypeOK'
    BY <1>12 DEF PutFails, cache, money
  <1>13. ASSUME NEW t \in Threads, AbsorbCalls(t) PROVE TypeOK'
    BY <1>13 DEF AbsorbCalls, cache, history
  <1>14. ASSUME NEW t \in Threads, AbsorbCost(t) PROVE TypeOK'
    BY <1>14 DEF AbsorbCost, cache, history
  <1>15. ASSUME Restart PROVE TypeOK'
    BY <1>15 DEF Restart, Nothing
  <1>16. ASSUME UNCHANGED vars PROVE TypeOK'
    BY <1>16 DEF vars, request, cache, money, history
  <1> QED BY <1>1, <1>2, <1>3, <1>4, <1>5, <1>6, <1>7, <1>8, <1>9, <1>10,
             <1>11, <1>12, <1>13, <1>14, <1>15, <1>16 DEF Next, Handle

(* The state of the service keeps its type, whatever its workers do.       *)
THEOREM TypeCorrect == Spec => []TypeOK
  BY TypeInit, TypeNext, PTL DEF Spec
-----------------------------------------------------------------------------
(* The number of calls the budget may hold.                                *)

LEMMA UncountedFinite ==
  /\ IsFiniteSet(Uncounted)
  /\ Cardinality(Uncounted) \in Nat /\ Cardinality(Threads) \in Nat
  /\ Cardinality(Uncounted) <= Cardinality(Threads)
  <1>1. Uncounted \subseteq Threads
    BY DEF Uncounted
  <1> QED BY <1>1, ServiceAssumption, FS_Subset, FS_CardinalityType

(* A step that counts nothing and starts no new call keeps the bound.      *)
LEMMA FewerUncounted ==
  ASSUME TypeOK, CallsBounded,
         budget'.calls = budget.calls, Uncounted' \subseteq Uncounted
  PROVE  CallsBounded'
  <1>1. IsFiniteSet(Uncounted)
    BY UncountedFinite
  <1>2. /\ IsFiniteSet(Uncounted')
        /\ Cardinality(Uncounted') <= Cardinality(Uncounted)
    BY <1>1, FS_Subset
  <1>3. Cardinality(Uncounted') \in Nat
    BY <1>2, FS_CardinalityType
  <1>4. budget.calls \in Nat
    BY DEF TypeOK, Money
  <1> QED BY <1>2, <1>3, <1>4, UncountedFinite DEF CallsBounded

(* A reset budget is within the bound.                                     *)
LEMMA ResetBounded ==
  ASSUME budget' = Nothing PROVE CallsBounded'
  <1>1. Uncounted' \subseteq Threads
    BY DEF Uncounted
  <1>2. /\ Cardinality(Uncounted') <= Cardinality(Threads)
        /\ IsFiniteSet(Uncounted')
    BY <1>1, ServiceAssumption, FS_Subset
  <1>3. Cardinality(Uncounted') \in Nat
    BY <1>2, FS_CardinalityType
  <1> QED BY <1>2, <1>3, UncountedFinite DEF CallsBounded, Nothing

LEMMA CallsInit == Init => CallsBounded
  BY UncountedFinite DEF Init, CallsBounded, Nothing

LEMMA CallsNext == TypeOK /\ CallsBounded /\ [Next]_vars => CallsBounded'
  <1> SUFFICES ASSUME TypeOK, CallsBounded, [Next]_vars PROVE CallsBounded'
    OBVIOUS
  <1>1. ASSUME NEW t \in Threads, NEW q \in Questions, Arrive(t, q)
        PROVE  CallsBounded'
    BY <1>1, ResetBounded DEF Arrive
  <1>2. ASSUME NEW t \in Threads, Handle(t), ~Record(t) PROVE CallsBounded'
    <2>1. budget' = budget
      BY <1>2 DEF Handle, LookupHit, LookupMiss, CheckPasses, CheckRaises, Call,
         CallFails, PutOpen, PutWrite, PutRename, PutFails, AbsorbCalls,
         AbsorbCost, money
    <2>2. Uncounted' \subseteq Uncounted
      BY <1>2 DEF TypeOK, Uncounted, Go, Handle, LookupHit, LookupMiss,
         CheckPasses, CheckRaises, Call, CallFails, PutOpen, PutWrite,
         PutRename, PutFails, AbsorbCalls, AbsorbCost
    <2> QED BY <2>1, <2>2, FewerUncounted
  <1>3. ASSUME NEW t \in Threads, Record(t) PROVE CallsBounded'
    <2>1. t \in Uncounted /\ Uncounted' = Uncounted \ {t}
      BY <1>3 DEF TypeOK, Uncounted, Record, Go
    <2>2. budget'.calls = budget.calls + 1
      BY <1>3 DEF Record, Plus
    <2>3. Cardinality(Uncounted') = Cardinality(Uncounted) - 1
      BY <2>1, UncountedFinite, FS_RemoveElement
    <2>4. budget.calls \in Nat
      BY DEF TypeOK, Money
    <2> QED BY <2>2, <2>3, <2>4, UncountedFinite DEF CallsBounded
  <1>4. ASSUME Restart PROVE CallsBounded'
    BY <1>4, ResetBounded DEF Restart
  <1>5. ASSUME UNCHANGED vars PROVE CallsBounded'
    BY <1>5, FewerUncounted DEF vars, request, money, Uncounted
  <1> QED BY <1>1, <1>2, <1>3, <1>4, <1>5 DEF Next

(* However many requests overlap, the shared budget never holds more calls *)
(* than there are workers: start_request resets it for every request.      *)
THEOREM CallsStayBounded == Spec => []CallsBounded
  BY TypeInit, TypeNext, CallsInit, CallsNext, PTL DEF Spec

(* A service with no more workers than the call ceiling never answers 429  *)
(* on account of the number of calls.                                      *)
COROLLARY CallCeilingUnreached ==
  ASSUME Cardinality(Threads) <= MaxCalls
  PROVE  Spec => [](\A t \in Threads : pc[t] = "check" => budget.calls < MaxCalls)
  <1>1. ASSUME TypeOK, CallsBounded, NEW t \in Threads, pc[t] = "check"
        PROVE  budget.calls < MaxCalls
    <2>1. Uncounted # {} /\ Cardinality(Uncounted) # 0
      <3>1. t \in Uncounted
        BY <1>1 DEF Uncounted
      <3> QED BY <3>1, UncountedFinite, FS_EmptySet
    <2>2. budget.calls \in Nat /\ MaxCalls \in Nat
      BY <1>1, ServiceAssumption DEF TypeOK, Money
    <2> QED BY <1>1, <2>1, <2>2, UncountedFinite DEF CallsBounded
  <1> DEFINE Free == \A t \in Threads : pc[t] = "check" => budget.calls < MaxCalls
  <1>2. TypeOK /\ CallsBounded => Free
    BY <1>1
  <1> HIDE DEF Free
  <1>3. Spec => []Free
    BY <1>2, TypeCorrect, CallsStayBounded, PTL
  <1> QED BY <1>3 DEF Free
-----------------------------------------------------------------------------
(* Answers.  Files hold responses under their own key, and what a worker   *)
(* holds is a response to its own question.                                *)
FilesOwn ==
  \A k \in Keys :
    /\ entry[k] \in Questions => Key[entry[k]] = k
    /\ tmp[k] \in Questions => Key[tmp[k]] = k

OwnInv == FilesOwn /\ ServedOwn

LEMMA OwnInit == Init => OwnInv
  BY ServiceAssumption DEF Init, OwnInv, FilesOwn, ServedOwn

LEMMA OwnNext ==
  ASSUME \A q, r \in Questions : Key[q] = Key[r] => q = r
  PROVE  TypeOK /\ OwnInv /\ [Next]_vars => OwnInv'
  <1> SUFFICES ASSUME TypeOK, OwnInv, [Next]_vars PROVE OwnInv'
    OBVIOUS
  <1> USE ServiceAssumption
      DEF TypeOK, OwnInv, FilesOwn, ServedOwn, Busy, Outcomes, Go, Answer
  <1>1. ASSUME NEW t \in Threads, NEW q \in Questions, Arrive(t, q)
        PROVE  OwnInv'
    BY <1>1 DEF Arrive, cache
  <1>2. ASSUME NEW t \in Threads, LookupHit(t) PROVE OwnInv'
    <2>1. /\ asked[t] \in Questions /\ entry[KeyOf(t)] \in Questions
          /\ Key[entry[KeyOf(t)]] = Key[asked[t]]
      BY <1>2 DEF LookupHit, Cached, Keys, KeyOf, Content
    <2>2. entry[KeyOf(t)] = asked[t]
      BY <2>1
    <2> QED BY <1>2, <2>1, <2>2 DEF LookupHit, cache, money, history
  <1>3. ASSUME NEW t \in Threads, LookupMiss(t) PROVE OwnInv'
    BY <1>3 DEF LookupMiss, cache, money, history
  <1>4. ASSUME NEW t \in Threads, CheckPasses(t) PROVE OwnInv'
    BY <1>4 DEF CheckPasses, cache, money, history
  <1>5. ASSUME NEW t \in Threads, CheckRaises(t) PROVE OwnInv'
    BY <1>5 DEF CheckRaises, cache, money, history
  <1>6. ASSUME NEW t \in Threads, Call(t) PROVE OwnInv'
    BY <1>6 DEF Call, cache, money, history
  <1>7. ASSUME NEW t \in Threads, CallFails(t) PROVE OwnInv'
    BY <1>7 DEF CallFails, cache, money, history
  <1>8. ASSUME NEW t \in Threads, Record(t) PROVE OwnInv'
    BY <1>8 DEF Record, cache, money, history
  <1>9. ASSUME NEW t \in Threads, PutOpen(t) PROVE OwnInv'
    BY <1>9 DEF PutOpen, cache, money, history
  <1>10. ASSUME NEW t \in Threads, PutWrite(t) PROVE OwnInv'
    <2>1. /\ reply[t] = asked[t] /\ asked[t] \in Questions
          /\ KeyOf(t) = Key[asked[t]] /\ KeyOf(t) \in Keys
      BY <1>10 DEF PutWrite, KeyOf, Keys
    <2>2. \A old : \A x \in Written(t, old) :
            x \in Questions => Key[x] = KeyOf(t)
      BY <2>1 DEF Written
    <2> HIDE DEF Written
    <2>3. FilesOwn'
      BY <1>10, <2>1, <2>2 DEF PutWrite, money, history
    <2>4. ServedOwn'
      BY <1>10 DEF PutWrite, money, history
    <2> QED BY <2>3, <2>4
  <1>11. ASSUME NEW t \in Threads, PutRename(t) PROVE OwnInv'
    BY <1>11 DEF PutRename, cache, money, history
  <1>12. ASSUME NEW t \in Threads, PutFails(t) PROVE OwnInv'
    BY <1>12 DEF PutFails, cache, money, history
  <1>13. ASSUME NEW t \in Threads, AbsorbCalls(t) PROVE OwnInv'
    BY <1>13 DEF AbsorbCalls, cache, money, history
  <1>14. ASSUME NEW t \in Threads, AbsorbCost(t) PROVE OwnInv'
    BY <1>14 DEF AbsorbCost, cache, money, history
  <1>15. ASSUME Restart PROVE OwnInv'
    BY <1>15 DEF Restart
  <1>16. ASSUME UNCHANGED vars PROVE OwnInv'
    BY <1>16 DEF vars, request, cache
  <1> QED BY <1>1, <1>2, <1>3, <1>4, <1>5, <1>6, <1>7, <1>8, <1>9, <1>10,
             <1>11, <1>12, <1>13, <1>14, <1>15, <1>16 DEF Next, Handle

(* If the key tells any two questions apart, every request is answered     *)
(* with a whole response to its own question, whatever readers and writers *)
(* of the cache do to each other's files.                                  *)
THEOREM OwnAnswers ==
  ASSUME \A q, r \in Questions : Key[q] = Key[r] => q = r
  PROVE  Spec => []ServedOwn
  <1>1. Init => TypeOK /\ OwnInv
    BY TypeInit, OwnInit
  <1>2. TypeOK /\ OwnInv /\ [Next]_vars => (TypeOK /\ OwnInv)'
    BY TypeNext, OwnNext
  <1>3. OwnInv => ServedOwn
    BY DEF OwnInv
  <1> QED BY <1>1, <1>2, <1>3, PTL DEF Spec

-----------------------------------------------------------------------------
(* Accounting, as long as requests do not overlap.                         *)

LEMMA BankingInit == Init => BankingInv
  BY DEF Init, BankingInv, Busy

LEMMA BankingNext == TypeOK /\ BankingInv /\ [Next]_vars => BankingInv'
  <1> SUFFICES ASSUME TypeOK, BankingInv, [Next]_vars, ~overlapped'
               PROVE  BankingInv'
    BY DEF BankingInv
  <1> USE ServiceAssumption DEF TypeOK, BankingInv, Busy, Money, Places, Go, Answer
  <1>1. ASSUME NEW t \in Threads, NEW q \in Questions, Arrive(t, q)
        PROVE  BankingInv'
    <2>1. ~overlapped /\ \A u \in Threads : pc[u] = "idle"
      BY <1>1 DEF Arrive
    <2>2. spend = billed
      BY <2>1
    <2>3. \A u \in Threads : pc'[u] # "idle" => u = t
      BY <1>1, <2>1 DEF Arrive
    <2>4. pc'[t] \in {"lookup", "check", "finish"} /\ reply'[t] \in {"unknown", None}
      BY <1>1 DEF Arrive
    <2>5. budget' = Nothing /\ spend' = spend /\ billed' = billed
      BY <1>1 DEF Arrive
    <2>6. reply'[t] # "rejected"
      BY <2>4 DEF Outcomes
    <2>7. /\ billed.calls \in Nat /\ billed.cost \in Nat
          /\ budget'.calls = 0 /\ budget'.cost = 0 /\ spend' = billed'
      BY <2>2, <2>5 DEF Nothing
    <2> QED BY <2>3, <2>4, <2>5, <2>6, <2>7
  <1>2. ASSUME NEW t \in Threads, LookupHit(t) PROVE BankingInv'
    <2>1. entry[KeyOf(t)] \in Questions
      BY <1>2 DEF LookupHit, Cached, KeyOf, Keys, Content
    <2>2. reply'[t] # "rejected"
      BY <1>2, <2>1 DEF LookupHit, Outcomes
    <2> QED BY <1>2, <2>2 DEF LookupHit, Nothing, cache, money, history
  <1>3. ASSUME NEW t \in Threads, LookupMiss(t) PROVE BankingInv'
    BY <1>3 DEF LookupMiss, Exceeded, Nothing, Plus, cache, money, history
  <1>4. ASSUME NEW t \in Threads, CheckPasses(t) PROVE BankingInv'
    BY <1>4 DEF CheckPasses, Exceeded, Nothing, Plus, cache, money, history
  <1>5. ASSUME NEW t \in Threads, CheckRaises(t) PROVE BankingInv'
    BY <1>5 DEF CheckRaises, Exceeded, Nothing, Plus, cache, money, history
  <1>6. ASSUME NEW t \in Threads, Call(t) PROVE BankingInv'
    <2>1. asked[t] \in Questions /\ reply'[t] # "rejected"
      BY <1>6 DEF Call, Outcomes
    <2>2. budget = Nothing /\ spend = billed /\ \A u \in Threads : pc[u] # "idle" => u = t
      BY <1>6 DEF Call, history
    <2>3. billed' = Plus(spend, Cost[asked[t]])
      BY <1>6, <2>2 DEF Call
    <2> HIDE DEF Money
    <2> QED BY <1>6, <2>1, <2>2, <2>3 DEF Call, cache, money, history
  <1>7. ASSUME NEW t \in Threads, CallFails(t) PROVE BankingInv'
    BY <1>7 DEF CallFails, Exceeded, Nothing, Plus, cache, money, history
  <1>8. ASSUME NEW t \in Threads, Record(t) PROVE BankingInv'
    BY <1>8 DEF Record, Exceeded, Nothing, Plus, cache, money, history
  <1>9. ASSUME NEW t \in Threads, PutOpen(t) PROVE BankingInv'
    BY <1>9 DEF PutOpen, Exceeded, Nothing, Plus, cache, money, history
  <1>10. ASSUME NEW t \in Threads, PutWrite(t) PROVE BankingInv'
    BY <1>10 DEF PutWrite, Exceeded, Nothing, Plus, cache, money, history
  <1>11. ASSUME NEW t \in Threads, PutRename(t) PROVE BankingInv'
    BY <1>11 DEF PutRename, Exceeded, Nothing, Plus, cache, money, history
  <1>12. ASSUME NEW t \in Threads, PutFails(t) PROVE BankingInv'
    BY <1>12 DEF PutFails, Exceeded, Nothing, Plus, cache, money, history
  <1>13. ASSUME NEW t \in Threads, AbsorbCalls(t) PROVE BankingInv'
    BY <1>13 DEF AbsorbCalls, Exceeded, Nothing, Plus, cache, money, history
  <1>14. ASSUME NEW t \in Threads, AbsorbCost(t) PROVE BankingInv'
    BY <1>14 DEF AbsorbCost, Exceeded, Nothing, Plus, cache, money, history
  <1>15. ASSUME Restart PROVE BankingInv'
    BY <1>15 DEF Restart
  <1>16. ASSUME UNCHANGED vars PROVE BankingInv'
    BY <1>16 DEF vars, request, cache, money, history
  <1> QED BY <1>1, <1>2, <1>3, <1>4, <1>5, <1>6, <1>7, <1>8, <1>9, <1>10,
             <1>11, <1>12, <1>13, <1>14, <1>15, <1>16 DEF Next, Handle

LEMMA BankingHolds == Spec => [](TypeOK /\ BankingInv)
  BY TypeInit, TypeNext, BankingInit, BankingNext, PTL DEF Spec

(* Unless requests overlap, the reported totals are what was charged: each *)
(* request is banked exactly once, failed ones too.                        *)
THEOREM SpendIsExact == Spec => []SpendExact
  <1>1. BankingInv => SpendExact
    BY DEF BankingInv, SpendExact
  <1> QED BY <1>1, BankingHolds, PTL

(* Unless requests overlap, none is turned away on account of earlier ones.*)
THEOREM NoneRejected == Spec => []NoForeignCeiling
  <1>1. BankingInv => NoForeignCeiling
    BY DEF BankingInv, NoForeignCeiling
  <1> QED BY <1>1, BankingHolds, PTL

-----------------------------------------------------------------------------
(* Paying once.                                                            *)
LEMMA PaidInit == Init => PaidInv
  BY DEF Init, PaidInv

LEMMA PaidNext ==
  TypeOK /\ BankingInv /\ PaidInv /\ [Next]_vars => PaidInv'
  <1> SUFFICES ASSUME TypeOK, BankingInv, PaidInv, [Next]_vars,
                      CacheOn, ~overlapped', ~refused'
               PROVE  PaidInv'
    BY DEF PaidInv
  <1> USE ServiceAssumption DEF TypeOK, PaidInv, Places, Go, Answer, KeyOf
  <1>1. ASSUME NEW t \in Threads, Handle(t) PROVE PaidInv'
    <2>0. /\ ~overlapped /\ ~refused
          /\ pc[t] # "idle" /\ asked[t] \in Questions /\ KeyOf(t) \in Keys
          /\ \A u \in Threads : pc[u] # "idle" => u = t
      <3>1. pc[t] # "idle"
        BY <1>1 DEF Handle, LookupHit, LookupMiss, CheckPasses, CheckRaises, Call,
           CallFails, Record, PutOpen, PutWrite, PutRename, PutFails, AbsorbCalls,
           AbsorbCost
      <3>2. ~overlapped /\ ~refused
        BY <1>1 DEF Handle, LookupHit, LookupMiss, CheckPasses, CheckRaises, Call,
           CallFails, Record, PutOpen, PutWrite, PutRename, PutFails, AbsorbCalls,
           AbsorbCost, history
      <3> QED BY <3>1, <3>2 DEF BankingInv, Busy, Keys
    <2>1. CASE LookupHit(t)
      BY <2>0, <2>1 DEF LookupHit, Cached, cache, money, history
    <2>2. CASE LookupMiss(t)
      <3>1. times[asked[t]] = 0
        BY <2>0, <2>2 DEF LookupMiss
      <3> QED BY <2>0, <2>2, <3>1 DEF LookupMiss, Cached, cache, money, history
    <2>3. CASE CheckPasses(t) \/ CheckRaises(t) \/ CallFails(t)
      BY <2>0, <2>3 DEF CheckPasses, CheckRaises, CallFails, Cached, cache, money, history
    <2>4. CASE Call(t)
      <3>1. /\ times[asked[t]] = 0 /\ times' = [times EXCEPT ![asked[t]] = @ + 1]
            /\ pc[t] = "call" /\ pc' = [pc EXCEPT ![t] = "record"]
            /\ UNCHANGED <<asked, handle, entry, tmp>>
        BY <2>0, <2>4 DEF Call, cache
      <3> QED BY <2>0, <3>1 DEF Cached
    <2>5. CASE Record(t)
      BY <2>0, <2>5 DEF Record, Cached, cache, history
    <2>6. CASE PutOpen(t)
      BY <2>0, <2>6 DEF PutOpen, Cached, money, history
    <2>7. CASE PutWrite(t)
      <3>1. /\ pc[t] = "write" /\ pc' = [pc EXCEPT ![t] = "rename"]
            /\ handle[t] = "tmp" /\ tmp[KeyOf(t)] = Torn /\ reply[t] \in Questions
            /\ UNCHANGED <<asked, times, entry>>
        BY <2>0, <2>7 DEF PutWrite, history
      <3>2. tmp' = [tmp EXCEPT ![KeyOf(t)] = reply[t]]
        BY <2>7, <3>1 DEF PutWrite, Written
      <3> QED BY <2>0, <3>1, <3>2 DEF Cached
    <2>8. CASE PutRename(t)
      <3>1. /\ pc[t] = "rename" /\ pc' = [pc EXCEPT ![t] = "finish"]
            /\ UNCHANGED <<asked, times>>
            /\ tmp[KeyOf(t)] \in Questions /\ tmp[KeyOf(t)] # NoFile
            /\ entry' = [entry EXCEPT ![KeyOf(t)] = tmp[KeyOf(t)]]
        BY <2>0, <2>8 DEF PutRename, history
      <3>2. \A k \in Keys : Cached(k) \/ k = KeyOf(t) => Cached(k)'
        BY <2>0, <3>1 DEF Cached
      <3>3. \A q \in Questions : Key[q] \in Keys
        BY DEF Keys
      <3> QED BY <2>0, <3>1, <3>2, <3>3
    <2>9. CASE PutFails(t)
      BY <2>9 DEF PutFails
    <2>10. CASE AbsorbCalls(t) \/ AbsorbCost(t)
      BY <2>0, <2>10 DEF AbsorbCalls, AbsorbCost, Cached, cache, history
    <2> QED BY <1>1, <2>1, <2>2, <2>3, <2>4, <2>5, <2>6, <2>7, <2>8, <2>9, <2>10
        DEF Handle
  <1>2. ASSUME NEW t \in Threads, NEW q \in Questions, Arrive(t, q) PROVE PaidInv'
    <2>1. /\ overlapped' = (overlapped \/ Busy # {})
          /\ UNCHANGED <<refused, times, entry>>
      BY <1>2 DEF Arrive, cache
    <2>2. ~overlapped /\ ~refused /\ Busy = {}
      BY <2>1, Zenon
    <2>3. \A u \in Threads : pc[u] = "idle"
      BY <2>2 DEF Busy
    <2>4. \E place \in {"lookup", "finish"} : pc' = [pc EXCEPT ![t] = place]
      BY <1>2 DEF Arrive
    <2>5. /\ pc'[t] \in {"lookup", "finish"}
          /\ \A u \in Threads : u # t => pc'[u] = "idle"
      BY <2>3, <2>4
    <2> QED BY <2>1, <2>2, <2>3, <2>5 DEF Cached
  <1>3. CASE Restart
    BY <1>3 DEF Restart
  <1>4. CASE UNCHANGED vars
    BY <1>4 DEF vars, request, cache, money, history, Cached
  <1> QED BY <1>1, <1>2, <1>3, <1>4 DEF Next

(* Unless requests overlap or the cache cannot be written, a question is   *)
(* paid for once in the life of a process, whatever was torn by an earlier *)
(* one.                                                                    *)
THEOREM QuestionsBilledOnce == Spec => []BilledOnce
  <1>1. PaidInv => BilledOnce
    BY DEF PaidInv, BilledOnce
  <1> QED BY <1>1, BankingHolds, PaidInit, PaidNext, PTL DEF Spec
=============================================================================
