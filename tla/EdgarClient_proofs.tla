------------------------- MODULE EdgarClient_proofs -------------------------
(***************************************************************************)
(* Proofs about EdgarClient for every number of threads, interval, backoff *)
(* and number of attempts.                                                 *)
(***************************************************************************)
EXTENDS EdgarClient, FiniteSetTheorems, FunctionTheorems,
        WellFoundedInduction, TLAPS

LEMMA LeastOfSet ==
  ASSUME NEW T \in SUBSET Nat, T # {}
  PROVE  \E x \in T : \A y \in T : x <= y
<1>1. \E x \in T : \A y \in T : ~ (<<y, x>> \in OpToRel(<, Nat))
  BY NatLessThanWellFounded, WFMin
<1>2. \A x, y \in T : ~ (<<y, x>> \in OpToRel(<, Nat)) => x <= y
  BY DEF OpToRel
<1> QED BY <1>1, <1>2

(* Multiples of the interval.                                              *)
LEMMA Multiples ==
  ASSUME NEW a \in Int, NEW b \in Int
  PROVE  /\ a * Interval \in Int
         /\ (a + 1) * Interval = a * Interval + Interval
         /\ (a - 1) * Interval = a * Interval - Interval
         /\ a <= b => a * Interval <= b * Interval
         /\ a <= 0 => a * Interval <= 0
         /\ a > 0 /\ a * Interval < b => a < b
<1>1. Interval \in Nat /\ Interval >= 1
  BY ClientAssumption
<1>2. /\ a * Interval \in Int
      /\ (a + 1) * Interval = a * Interval + Interval
      /\ (a - 1) * Interval = a * Interval - Interval
  BY <1>1
<1>3. a <= b => a * Interval <= b * Interval
  BY <1>1
<1>4. a <= 0 => a * Interval <= 0
  BY <1>1
<1>5. a > 0 => a <= a * Interval
  BY <1>1
<1> QED BY <1>2, <1>3, <1>4, <1>5

(* The threads that hold a slot.                                           *)
LEMMA AsleepType ==
  /\ IsFiniteSet(Asleep) /\ Cardinality(Asleep) \in Nat
  /\ Cardinality(Asleep) <= Cardinality(Threads) /\ Cardinality(Threads) \in Nat
<1>1. Asleep \in SUBSET Threads /\ IsFiniteSet(Threads)
  BY ClientAssumption DEF Asleep
<1> QED BY <1>1, FS_Subset, FS_CardinalityType

(* A step of another kind than Acquire and Send leaves them alone.         *)
LEMMA AsleepSame ==
  ASSUME TypeOK, NEW t \in Threads, pc[t] # "asleep", NEW to \in STRING, to # "asleep",
         pc' = [pc EXCEPT ![t] = to]
  PROVE  Asleep' = Asleep
BY DEF TypeOK, Asleep

-----------------------------------------------------------------------------
LEMMA InitHolds == Init => TypeOK /\ RateInv /\ RateKept
<1> SUFFICES ASSUME Init PROVE TypeOK /\ RateInv /\ RateKept
  OBVIOUS
<1>1. TypeOK
  <2>1. <<>> \in Seq(0..Window) /\ 0 \in 0..MaxAttempts /\ Interval \in 0..Interval
    BY ClientAssumption
  <2> QED BY <2>1 DEF Init, TypeOK
<1>2. DOMAIN ages = {} /\ lead = 0
  BY DEF Init
<1>3. AttemptInv
  BY DEF Init, AttemptInv
<1>4. SpacedInv
  <2>1. Punctual = {} /\ lead = 0 /\ quiet = Interval /\ Interval \in Nat
    BY ClientAssumption DEF Init, Punctual, Asleep
  <2> QED BY <2>1 DEF SpacedInv
<1> QED BY <1>1, <1>2, <1>3, <1>4 DEF RateInv, AgesInv, WaitInv, SlotInv, RateKept

(* History: time adds one to every age and drops the oldest sends ...      *)
LEMMA TickAges ==
  ASSUME TypeOK, AgesInv, Tick
  PROVE  /\ ages' \in Seq(0..Window) /\ Len(ages') <= Len(ages)
         /\ \A i \in 1..Len(ages') : ages'[i] = ages[i] + 1
<1> DEFINE kept == {k \in DOMAIN ages : ages[k] < Window}
<1>1. /\ Window \in Nat /\ ages \in Seq(0..Window) /\ Len(ages) \in Nat
      /\ DOMAIN ages = 1..Len(ages) /\ \A i \in 1..Len(ages) : ages[i] \in 0..Window
  BY ClientAssumption DEF TypeOK
<1>2. \E n \in 0..Len(ages) : kept = 1..n
  <2>1. CASE \A k \in 1..Len(ages) : ages[k] < Window
    BY <1>1, <2>1
  <2>2. CASE \E k \in 1..Len(ages) : ~ (ages[k] < Window)
    <3> DEFINE late == {k \in 1..Len(ages) : ~ (ages[k] < Window)}
    <3>1. late \in SUBSET Nat /\ late # {}
      BY <1>1, <2>2
    <3>2. PICK k \in late : \A i \in late : k <= i
      BY <3>1, LeastOfSet
    <3>3. k \in 1..Len(ages) /\ ~ (ages[k] < Window)
      BY <3>2
    <3>4. \A i \in 1..Len(ages) : k <= i => ~ (ages[i] < Window)
      BY <1>1, <3>3 DEF AgesInv
    <3>5. \A i \in 1..Len(ages) : i < k => ages[i] < Window
      BY <1>1, <3>2
    <3>6. kept = 1..(k - 1)
      BY <1>1, <3>3, <3>4, <3>5
    <3>7. k - 1 \in 0..Len(ages)
      BY <1>1, <3>3
    <3> HIDE DEF kept
    <3> QED BY <3>6, <3>7
  <2> QED BY <2>1, <2>2
<1>3. PICK n \in 0..Len(ages) : kept = 1..n
  BY <1>2
<1>4. ages' = [i \in 1..n |-> ages[i] + 1]
  BY <1>3 DEF Tick
<1>5. \A i \in 1..n : i \in 1..Len(ages) /\ ages[i] + 1 \in 0..Window
  <2> TAKE i \in 1..n
  <2>1. i \in kept
    BY <1>3
  <2> QED BY <1>1, <2>1
<1> HIDE DEF kept
<1>6. ages' \in Seq(0..Window) /\ Len(ages') = n
  BY <1>4, <1>5
<1> QED BY <1>1, <1>4, <1>6

(* ... and a send is put in front.                                         *)
LEMMA SendAges ==
  ASSUME TypeOK, NEW t \in Threads, Send(t)
  PROVE  /\ ages' \in Seq(0..Window) /\ Len(ages') = Len(ages) + 1
         /\ ages'[1] = 0
         /\ \A i \in 1..Len(ages') : i # 1 =>
              i - 1 \in 1..Len(ages) /\ ages'[i] = ages[i - 1]
<1>1. ages \in Seq(0..Window) /\ <<0>> \in Seq(0..Window) /\ Window \in Nat
  BY ClientAssumption DEF TypeOK
<1>2. ages' = <<0>> \o ages
  BY DEF Send
<1> QED BY <1>1, <1>2

LEMMA TypeNext ==
  ASSUME TypeOK, AttemptInv, AgesInv, [Next]_vars
  PROVE  TypeOK' /\ AttemptInv' /\ AgesInv'
<1> USE DEF TypeOK, AttemptInv, limiter, thread, history
<1>c. Interval \in Nat /\ MaxAttempts \in Nat \ {0} /\ Window \in Nat
      /\ Backoff \in [1..MaxAttempts -> Nat \ {0}]
  BY ClientAssumption
<1>1. CASE Tick
  <2>1. ages' \in Seq(0..Window) /\ AgesInv'
    <3>1. /\ ages' \in Seq(0..Window) /\ Len(ages') <= Len(ages) /\ Len(ages) \in Nat
          /\ \A i \in 1..Len(ages') : ages'[i] = ages[i] + 1
          /\ DOMAIN ages = 1..Len(ages) /\ \A i \in 1..Len(ages) : ages[i] \in Int
      BY <1>1, <1>c, TickAges
    <3>2. DOMAIN ages' = 1..Len(ages') /\ Len(ages') \in Nat
      BY <3>1
    <3>3. AgesInv'
      BY <3>1, <3>2 DEF AgesInv
    <3> QED BY <3>1, <3>3
  <2>2. lead' \in Nat /\ rest' \in [Threads -> Nat]
    BY <1>1 DEF Tick, Less
  <2>3. quiet' \in 0..Interval /\ overslept' \subseteq Threads
    BY <1>1, <1>c DEF Tick
  <2> QED BY <1>1, <2>1, <2>2, <2>3 DEF Tick
<1>2. ASSUME NEW t \in Threads, Send(t) PROVE TypeOK' /\ AttemptInv' /\ AgesInv'
  <2>1. ages' \in Seq(0..Window) /\ AgesInv'
    <3>1. /\ ages' \in Seq(0..Window) /\ Len(ages') = Len(ages) + 1 /\ ages'[1] = 0
          /\ \A i \in 1..Len(ages') : i # 1 =>
               i - 1 \in 1..Len(ages) /\ ages'[i] = ages[i - 1]
      BY <1>2, SendAges
    <3>2. /\ DOMAIN ages = 1..Len(ages) /\ \A i \in 1..Len(ages) : ages[i] \in Nat
          /\ DOMAIN ages' = 1..Len(ages') /\ Len(ages) \in Nat /\ Len(ages') \in Nat
      BY <1>c, <3>1
    <3> SUFFICES ASSUME NEW i \in 1..Len(ages'), NEW j \in 1..Len(ages'), i <= j
                 PROVE  ages'[i] <= ages'[j]
      BY <3>1, <3>2 DEF AgesInv
    <3>3. CASE i = 1
      BY <3>1, <3>2, <3>3
    <3>4. CASE i # 1
      <4>1. j # 1 /\ i - 1 <= j - 1
        BY <3>2, <3>4
      <4> QED BY <3>1, <3>2, <3>4, <4>1 DEF AgesInv
    <3> QED BY <3>3, <3>4
  <2>2. quiet' \in 0..Interval /\ overslept' \subseteq Threads
    BY <1>2, <1>c DEF Send
  <2> QED BY <1>2, <2>1, <2>2 DEF Send
<1>3. ASSUME NEW t \in Threads, List(t) \/ FetchDocument(t) \/ Acquire(t) \/ Retry(t)
      PROVE  TypeOK' /\ AttemptInv' /\ AgesInv'
  <2>1. CASE List(t) \/ FetchDocument(t)
    <3>1. PICK what \in {"tickers", "submissions", "document"} : Request(t, what)
      BY <2>1 DEF List, FetchDocument
    <3>2. UNCHANGED <<lead, tickers, rest, history>>
      BY <2>1 DEF List, FetchDocument
    <3> QED BY <1>c, <3>1, <3>2 DEF Request, AgesInv
  <2>2. CASE Acquire(t)
    BY <1>c, <2>2 DEF Acquire, AgesInv
  <2>3. CASE Retry(t)
    BY <1>c, <2>3 DEF Retry, AgesInv
  <2> QED BY <1>3, <2>1, <2>2, <2>3
<1>4. ASSUME NEW t \in Threads, Answered(t) PROVE TypeOK' /\ AttemptInv' /\ AgesInv'
  <2>1. CASE TickersArrive(t)
    BY <1>c, <2>1 DEF TickersArrive, Request, AgesInv
  <2>2. ASSUME NEW listing \in Listings, SubmissionsArrive(t, listing)
        PROVE  TypeOK' /\ AttemptInv' /\ AgesInv'
    BY <1>c, <2>2 DEF SubmissionsArrive, Returns, AgesInv
  <2>3. CASE DocumentArrives(t) \/ GivesUp(t)
    <3>1. Returns(t, NoListing) /\ UNCHANGED <<lead, tickers, job, rest, history>>
      BY <2>3 DEF DocumentArrives, GivesUp
    <3> QED BY <1>c, <3>1 DEF Returns, AgesInv
  <2>4. CASE Refused(t)
    <3>1. tickers' \in BOOLEAN
      BY <2>4, Zenon DEF Refused
    <3>2. Returns(t, NoListing) /\ UNCHANGED <<lead, job, rest, history>>
      BY <2>4 DEF Refused
    <3> QED BY <1>c, <3>1, <3>2 DEF Returns, AgesInv
  <2>5. CASE FailsOnce(t)
    BY <1>c, <2>5 DEF FailsOnce, AgesInv
  <2> QED BY <1>4, <2>1, <2>2, <2>3, <2>4, <2>5 DEF Answered
<1>5. CASE UNCHANGED vars
  BY <1>5 DEF vars, AgesInv
<1> QED BY <1>1, <1>2, <1>3, <1>4, <1>5 DEF Next, Call

LEMMA TypeHolds == Spec => [](TypeOK /\ AttemptInv /\ AgesInv)
<1>1. Init => TypeOK /\ AttemptInv /\ AgesInv
  BY InitHolds DEF RateInv
<1> QED BY <1>1, TypeNext, PTL DEF Spec

(* Types: waiting times never become negative, and no request is attempted *)
(* more often than edgar_max_retries allows.                               *)
THEOREM TypeCorrect == Spec => []TypeOK
BY TypeHolds, PTL

-----------------------------------------------------------------------------
(* Steps that touch neither the limiter nor the threads it has put to      *)
(* sleep.                                                                  *)
LEMMA OtherSteps ==
  ASSUME TypeOK, [Next]_vars
  PROVE  \/ Tick
         \/ \E t \in Threads : Acquire(t) \/ Send(t)
         \/ /\ UNCHANGED <<lead, ages, quiet, overslept>> /\ Asleep' = Asleep
            /\ \A t \in Asleep : rest'[t] = rest[t]
<1> USE DEF TypeOK, limiter, thread, history
<1>1. ASSUME NEW t \in Threads, List(t) \/ FetchDocument(t) \/ Retry(t)
      PROVE  /\ UNCHANGED <<lead, ages, quiet, overslept, rest>>
             /\ pc[t] # "asleep" /\ pc' = [pc EXCEPT ![t] = "acquire"]
  BY <1>1 DEF List, FetchDocument, Retry, Request
<1>2. ASSUME NEW t \in Threads, Answered(t)
      PROVE  /\ UNCHANGED <<lead, ages, quiet, overslept>> /\ pc[t] # "asleep"
             /\ \E to \in {"acquire", "idle", "backoff"} : pc' = [pc EXCEPT ![t] = to]
             /\ \A s \in Threads : s # t => rest'[s] = rest[s]
  BY <1>2 DEF Answered, TickersArrive, SubmissionsArrive, DocumentArrives, Refused,
     FailsOnce, GivesUp, Request, Returns
<1>3. ASSUME UNCHANGED vars PROVE UNCHANGED <<lead, ages, quiet, overslept, rest, pc>>
  BY <1>3 DEF vars
<1> QED BY <1>1, <1>2, <1>3 DEF Next, Call, Asleep

LEMMA AcquireSleeps ==
  ASSUME TypeOK, NEW t \in Threads, Acquire(t)
  PROVE  Cardinality(Asleep') = Cardinality(Asleep) + 1
<1>1. t \notin Asleep /\ Asleep' = Asleep \cup {t}
  BY DEF TypeOK, Asleep, Acquire
<1> QED BY <1>1, AsleepType, FS_AddElement

LEMMA SendWakes ==
  ASSUME TypeOK, NEW t \in Threads, Send(t)
  PROVE  Cardinality(Asleep') = Cardinality(Asleep) - 1
<1>1. t \in Asleep /\ Asleep' = Asleep \ {t}
  BY DEF TypeOK, Asleep, Send
<1> QED BY <1>1, AsleepType, FS_RemoveElement

(* Whoever sleeps through a step keeps its slot.                           *)
LEMMA WaitNext ==
  ASSUME TypeOK, WaitInv, [Next]_vars
  PROVE  WaitInv'
<1> SUFFICES ASSUME NEW k \in 1..lead', k * Interval < lead'
             PROVE  \E t \in Threads : pc'[t] = "asleep" /\ rest'[t] = lead' - k * Interval
  BY DEF WaitInv
<1>t. lead \in Nat /\ rest \in [Threads -> Nat]
      /\ pc \in [Threads -> {"idle", "acquire", "asleep", "sent", "backoff"}]
      /\ Interval \in Nat /\ Interval >= 1
  BY ClientAssumption DEF TypeOK
<1>k. k \in Int /\ k >= 1 /\ k * Interval \in Int
      /\ (k - 1) * Interval = k * Interval - Interval
  BY Multiples
<1>1. CASE Tick
  <2>1. lead > 0 /\ lead' = lead - 1
    BY <1>1, <1>t DEF Tick, Less
  <2>2. k \in 1..lead /\ k * Interval < lead
    BY <1>t, <1>k, <2>1
  <2>3. PICK t \in Threads : pc[t] = "asleep" /\ rest[t] = lead - k * Interval
    BY <2>2 DEF WaitInv
  <2>4. rest[t] > 0 /\ rest'[t] = rest[t] - 1 /\ pc'[t] = "asleep"
    BY <1>1, <1>t, <1>k, <2>2, <2>3 DEF Tick, Less
  <2> QED BY <1>t, <1>k, <2>1, <2>3, <2>4
<1>2. ASSUME NEW t \in Threads, Acquire(t)
      PROVE  \E s \in Threads : pc'[s] = "asleep" /\ rest'[s] = lead' - k * Interval
  <2>1. /\ pc[t] = "acquire" /\ lead' = lead + Interval
        /\ pc'[t] = "asleep" /\ rest'[t] = lead
        /\ \A s \in Threads : s # t => pc'[s] = pc[s] /\ rest'[s] = rest[s]
    BY <1>2, <1>t DEF Acquire
  <2>2. CASE k = 1
    <3>1. k * Interval = Interval
      BY <1>t, <2>2
    <3> QED BY <1>t, <2>1, <3>1
  <2>3. CASE k # 1
    <3>1. k - 1 > 0 /\ (k - 1) * Interval < lead
      BY <1>t, <1>k, <2>1, <2>3
    <3>2. k - 1 < lead
      BY <1>t, <1>k, <3>1, Multiples
    <3>3. PICK s \in Threads : pc[s] = "asleep" /\ rest[s] = lead - (k - 1) * Interval
      <4>1. k - 1 \in 1..lead
        BY <1>t, <1>k, <3>1, <3>2
      <4> QED BY <3>1, <4>1 DEF WaitInv
    <3>4. s # t /\ lead' - k * Interval = lead - (k - 1) * Interval
      BY <1>t, <1>k, <2>1, <3>3
    <3> QED BY <2>1, <3>3, <3>4
  <2> QED BY <2>2, <2>3
<1>3. ASSUME NEW t \in Threads, Send(t)
      PROVE  \E s \in Threads : pc'[s] = "asleep" /\ rest'[s] = lead' - k * Interval
  <2>1. lead' = lead /\ rest' = rest /\ rest[t] = 0 /\ pc' = [pc EXCEPT ![t] = "sent"]
    BY <1>3 DEF Send, limiter, history
  <2>2. PICK s \in Threads : pc[s] = "asleep" /\ rest[s] = lead - k * Interval
    BY <2>1 DEF WaitInv
  <2>3. s # t
    BY <1>t, <1>k, <2>1, <2>2
  <2> QED BY <1>t, <2>1, <2>2, <2>3
<1>4. CASE UNCHANGED <<lead, ages>> /\ Asleep' = Asleep
           /\ \A t \in Asleep : rest'[t] = rest[t]
  <2>1. PICK s \in Threads : pc[s] = "asleep" /\ rest[s] = lead - k * Interval
    BY <1>4 DEF WaitInv
  <2>2. s \in Asleep /\ s \in Asleep'
    BY <1>4, <2>1 DEF Asleep
  <2> QED BY <1>4, <2>1, <2>2 DEF Asleep
<1> QED BY <1>1, <1>2, <1>3, <1>4, OtherSteps

LEMMA TimePasses ==
  ASSUME NEW before \in Int, NEW after \in Int, after + 1 >= before,
         NEW age \in Int, NEW bound \in Int, before + age >= bound
  PROVE  after + (age + 1) >= bound
OBVIOUS

LEMMA SlotNext ==
  ASSUME TypeOK, AgesInv, SlotInv, [Next]_vars
  PROVE  SlotInv'
<1> DEFINE w == Cardinality(Asleep)
           n == Cardinality(Threads)
<1>t. /\ lead \in Nat /\ ages \in Seq(0..Window) /\ Len(ages) \in Nat
      /\ DOMAIN ages = 1..Len(ages) /\ \A i \in 1..Len(ages) : ages[i] \in Int
      /\ Interval \in Nat /\ Interval >= 1
  <2>1. ages \in Seq(0..Window) /\ Window \in Nat
    BY ClientAssumption DEF TypeOK
  <2> QED BY <2>1, ClientAssumption DEF TypeOK
<1>w. w \in Nat /\ n \in Nat /\ w <= n
  BY AsleepType
<1>1. CASE Tick
  <2>1. /\ ages' \in Seq(0..Window) /\ Len(ages') <= Len(ages)
        /\ \A i \in 1..Len(ages') : ages'[i] = ages[i] + 1
    BY <1>1, TickAges
  <2>2. lead' + 1 >= lead /\ lead' \in Nat
    BY <1>1, <1>t DEF Tick, Less
  <2>3. Asleep' = Asleep
    BY <1>1 DEF Tick, Asleep
  <2> SUFFICES ASSUME NEW j \in 1..Len(ages')
               PROVE  lead' + ages'[j] >= (j + w - n) * Interval
    BY <2>1, <2>3 DEF SlotInv
  <2>4. j \in 1..Len(ages)
    BY <1>t, <2>1
  <2>5. lead + ages[j] >= (j + w - n) * Interval
    BY <1>t, <2>4 DEF SlotInv
  <2> HIDE DEF w, n
  <2>6. (j + w - n) * Interval \in Int
    BY <1>w, <2>4, Multiples
  <2>7. ages'[j] = ages[j] + 1 /\ ages[j] \in Int
    BY <1>t, <2>1, <2>4
  <2>8. lead \in Int /\ lead' \in Int
    BY <1>t, <2>2
  <2>9. lead' + (ages[j] + 1) >= (j + w - n) * Interval
    BY <2>2, <2>5, <2>6, <2>7, <2>8, TimePasses
  <2> QED BY <2>7, <2>9
<1>2. ASSUME NEW t \in Threads, Acquire(t) PROVE SlotInv'
  <2>1. lead' = lead + Interval /\ ages' = ages /\ Cardinality(Asleep') = w + 1
    BY <1>2, AcquireSleeps DEF Acquire, history
  <2> SUFFICES ASSUME NEW j \in 1..Len(ages)
               PROVE  lead + Interval + ages[j] >= (j + (w + 1) - n) * Interval
    BY <1>t, <2>1 DEF SlotInv
  <2>2. lead + ages[j] >= (j + w - n) * Interval
    BY <1>t DEF SlotInv
  <2> HIDE DEF w, n
  <2>3. j + w - n \in Int /\ j + (w + 1) - n = (j + w - n) + 1
    BY <1>w
  <2>4. (j + w - n) * Interval \in Int
        /\ (j + (w + 1) - n) * Interval = (j + w - n) * Interval + Interval
    BY <2>3, Multiples
  <2> QED BY <1>t, <2>2, <2>4
<1>3. ASSUME NEW t \in Threads, Send(t) PROVE SlotInv'
  <2>1. lead' = lead /\ Cardinality(Asleep') = w - 1
    BY <1>3, SendWakes DEF Send, limiter, history
  <2>2. /\ ages' \in Seq(0..Window) /\ Len(ages') = Len(ages) + 1 /\ ages'[1] = 0
        /\ \A i \in 1..Len(ages') : i # 1 =>
             i - 1 \in 1..Len(ages) /\ ages'[i] = ages[i - 1]
    BY <1>3, SendAges
  <2> SUFFICES ASSUME NEW j \in 1..Len(ages')
               PROVE  lead + ages'[j] >= (j + (w - 1) - n) * Interval
    BY <2>1, <2>2 DEF SlotInv
  <2>3. CASE j = 1
    <3> HIDE DEF w, n
    <3>1. j + (w - 1) - n <= 0 /\ j + (w - 1) - n \in Int
      BY <1>w, <2>3
    <3>2. (j + (w - 1) - n) * Interval <= 0 /\ (j + (w - 1) - n) * Interval \in Int
      BY <3>1, Multiples
    <3> QED BY <1>t, <2>2, <2>3, <3>2
  <2>4. CASE j # 1
    <3>1. lead + ages[j - 1] >= ((j - 1) + w - n) * Interval /\ ages'[j] = ages[j - 1]
      BY <1>t, <2>2, <2>4 DEF SlotInv
    <3> HIDE DEF w, n
    <3>2. (j - 1) + w - n = j + (w - 1) - n
      BY <1>w, <1>t, <2>2
    <3> QED BY <3>1, <3>2
  <2> QED BY <2>3, <2>4
<1>4. CASE UNCHANGED <<lead, ages>> /\ Asleep' = Asleep
  BY <1>4 DEF SlotInv
<1> QED BY <1>1, <1>2, <1>3, <1>4, OtherSteps

(* A thread whose slot has come: the slots given after it are waited for   *)
(* by other threads, each by one.                                          *)
LEMMA SendersLead ==
  ASSUME TypeOK, WaitInv, NEW t \in Threads, Send(t)
  PROVE  lead <= Cardinality(Asleep) * Interval
<1> DEFINE w == Cardinality(Asleep)
<1>t. lead \in Nat /\ rest \in [Threads -> Nat] /\ Interval \in Nat /\ Interval >= 1
  BY ClientAssumption DEF TypeOK
<1>w. w \in Nat /\ w * Interval \in Int
  BY AsleepType, Multiples
<1> SUFFICES ASSUME w * Interval < lead PROVE FALSE
  BY <1>t, <1>w
<1>1. \A k \in 1..w :
        \E s \in Asleep \ {t} : rest[s] = lead - k * Interval
  <2> TAKE k \in 1..w
  <2> HIDE DEF w
  <2>1. k \in Int /\ k > 0 /\ k <= w /\ w \in Int
    BY <1>w
  <2>2. k * Interval \in Int /\ k * Interval <= w * Interval
    BY <2>1, Multiples
  <2>3. k * Interval < lead
    BY <1>t, <1>w, <2>2
  <2>4. k < lead
    BY <1>t, <2>1, <2>3, Multiples
  <2>5. PICK s \in Threads : pc[s] = "asleep" /\ rest[s] = lead - k * Interval
    BY <1>t, <2>1, <2>3, <2>4 DEF WaitInv
  <2>6. rest[s] # 0 /\ rest[t] = 0
    BY <1>t, <2>2, <2>3, <2>5 DEF Send
  <2> QED BY <2>5, <2>6 DEF Asleep
<1> DEFINE who == [k \in 1..w |-> CHOOSE s \in Asleep \ {t} : rest[s] = lead - k * Interval]
<1>2. who \in [1..w -> Asleep \ {t}] /\ \A k \in 1..w : rest[who[k]] = lead - k * Interval
  <2> HIDE DEF w
  <2> QED BY <1>1
<1>3. \A k, m \in 1..w : who[k] = who[m] => k = m
  <2> SUFFICES ASSUME NEW k \in 1..w, NEW m \in 1..w, k * Interval = m * Interval, k < m
               PROVE  FALSE
    <3>1. \A k, m \in 1..w : who[k] = who[m] => k * Interval = m * Interval
      <4> TAKE k, m \in 1..w
      <4> HIDE DEF w, who
      <4>1. k * Interval \in Int /\ m * Interval \in Int
        <5>1. k \in Int /\ m \in Int
          OBVIOUS
        <5> QED BY <5>1, Multiples
      <4> QED BY <1>t, <1>2, <4>1
    <3> HIDE DEF who
    <3>2. \A k, m \in 1..w : k # m => k < m \/ m < k
      OBVIOUS
    <3> QED BY <3>1, <3>2
  <2> HIDE DEF w, who
  <2>1. k \in Int /\ m \in Int /\ k + 1 \in Int /\ k + 1 <= m
    OBVIOUS
  <2>2. (k + 1) * Interval = k * Interval + Interval /\ (k + 1) * Interval <= m * Interval
        /\ k * Interval \in Int
    BY <2>1, Multiples
  <2> QED BY <1>t, <2>2
<1>4. IsFiniteSet(Asleep \ {t}) /\ Cardinality(Asleep \ {t}) = w - 1
  BY AsleepType, FS_RemoveElement DEF Asleep, Send
<1>5. Cardinality(1..w) = w
  <2> HIDE DEF w
  <2> QED BY <1>w, FS_Interval
<1>6. who \in Injection(1..w, Asleep \ {t})
  <2> HIDE DEF w, who
  <2> QED BY <1>2, <1>3, Fun_IsInj
<1> HIDE DEF who
<1>7. Cardinality(1..w) <= Cardinality(Asleep \ {t})
  BY <1>4, <1>6, FS_Injection
<1> HIDE DEF w
<1> QED BY <1>w, <1>4, <1>5, <1>7

LEMMA RateNext ==
  ASSUME TypeOK, AgesInv, WaitInv, SlotInv, RateKept, [Next]_vars
  PROVE  RateKept'
<1> DEFINE n == Cardinality(Threads)
           w == Cardinality(Asleep)
<1>t. /\ lead \in Nat /\ ages \in Seq(0..Window) /\ Len(ages) \in Nat
      /\ DOMAIN ages = 1..Len(ages) /\ \A i \in 1..Len(ages) : ages[i] \in Int
      /\ Interval \in Nat /\ n \in Nat /\ w \in Nat
  <2>1. ages \in Seq(0..Window) /\ Window \in Nat
    BY ClientAssumption DEF TypeOK
  <2> QED BY <2>1, ClientAssumption, AsleepType DEF TypeOK
<1>1. CASE Tick
  <2>1. /\ ages' \in Seq(0..Window) /\ Len(ages') <= Len(ages)
        /\ \A i \in 1..Len(ages') : ages'[i] = ages[i] + 1
    BY <1>1, TickAges
  <2>d. DOMAIN ages' = 1..Len(ages')
    BY <2>1
  <2> SUFFICES ASSUME NEW i \in 1..Len(ages'), NEW j \in 1..Len(ages'), i <= j
               PROVE  ages'[j] - ages'[i] >= (j - i - n) * Interval
    BY <2>d DEF RateKept
  <2>2. i \in 1..Len(ages) /\ j \in 1..Len(ages)
    BY <1>t, <2>1
  <2>3. ages[j] - ages[i] >= (j - i - n) * Interval
    BY <1>t, <2>2 DEF RateKept
  <2>4. ages'[j] - ages'[i] = ages[j] - ages[i]
    BY <1>t, <2>1, <2>2
  <2> QED BY <2>3, <2>4
<1>2. ASSUME NEW t \in Threads, Send(t) PROVE RateKept'
  <2>1. /\ ages' \in Seq(0..Window) /\ Len(ages') = Len(ages) + 1 /\ ages'[1] = 0
        /\ \A i \in 1..Len(ages') : i # 1 =>
             i - 1 \in 1..Len(ages) /\ ages'[i] = ages[i - 1]
    BY <1>2, SendAges
  <2>d. DOMAIN ages' = 1..Len(ages')
    BY <2>1
  <2> SUFFICES ASSUME NEW i \in 1..Len(ages'), NEW j \in 1..Len(ages'), i <= j
               PROVE  ages'[j] - ages'[i] >= (j - i - n) * Interval
    BY <2>d DEF RateKept
  <2>2. CASE i # 1
    <3>1. j # 1 /\ i - 1 \in 1..Len(ages) /\ j - 1 \in 1..Len(ages) /\ i - 1 <= j - 1
          /\ ages'[i] = ages[i - 1] /\ ages'[j] = ages[j - 1]
      BY <2>1, <2>2
    <3>2. ages[j - 1] - ages[i - 1] >= ((j - 1) - (i - 1) - n) * Interval
      BY <1>t, <3>1 DEF RateKept
    <3> HIDE DEF n
    <3>3. (j - 1) - (i - 1) - n = j - i - n
      BY <1>t
    <3> QED BY <3>1, <3>2, <3>3
  <2>3. CASE i = 1 /\ j = 1
    <3> HIDE DEF n
    <3>1. j - i - n \in Int /\ j - i - n <= 0
      BY <1>t, <2>3
    <3>2. (j - i - n) * Interval <= 0 /\ (j - i - n) * Interval \in Int
      BY <3>1, Multiples
    <3> QED BY <2>1, <2>3, <3>2
  <2>4. CASE i = 1 /\ j # 1
    <3>1. /\ j - 1 \in 1..Len(ages) /\ ages'[j] = ages[j - 1]
          /\ lead + ages[j - 1] >= ((j - 1) + w - n) * Interval
          /\ lead <= w * Interval
      BY <1>t, <1>2, <2>1, <2>4, SendersLead DEF SlotInv
    <3> HIDE DEF n, w
    <3>2. ((j - 1) + w - n) * Interval = (j - i - n) * Interval + w * Interval
      BY <1>t, <2>4
    <3>3. (j - i - n) * Interval \in Int /\ w * Interval \in Int
      BY <1>t, <2>4, Multiples
    <3> QED BY <1>t, <2>1, <2>4, <3>1, <3>2, <3>3
  <2> QED BY <2>2, <2>3, <2>4
<1>3. ages' = ages => RateKept'
  BY DEF RateKept
<1> QED BY <1>1, <1>2, <1>3, OtherSteps DEF Acquire, history

(* "requests are spaced at least 1/rate apart", in the form that holds     *)
(* when threads oversleep: n + k + 1 sends of n threads take at least k    *)
(* intervals, however requests, retries and late wake-ups interleave.      *)
THEOREM RateAlwaysKept == Spec => []RateKept
<1>1. TypeOK /\ AgesInv /\ WaitInv /\ [Next]_vars => WaitInv'
  BY WaitNext
<1>2. TypeOK /\ AgesInv /\ SlotInv /\ [Next]_vars => SlotInv'
  BY SlotNext
<1>3. TypeOK /\ AgesInv /\ WaitInv /\ SlotInv /\ RateKept /\ [Next]_vars => RateKept'
  BY RateNext
<1>4. Init => WaitInv /\ SlotInv /\ RateKept
  BY InitHolds DEF RateInv
<1> QED BY <1>1, <1>2, <1>3, <1>4, TypeHolds, PTL DEF Spec

(* Who does not oversleep keeps apart: a new slot lies behind all others,  *)
(* and when the time of one has come an interval has passed without one.   *)
LEMMA SpacedNext ==
  ASSUME TypeOK, SpacedInv, [Next]_vars
  PROVE  SpacedInv' /\ \A t \in Threads : Send(t) /\ t \notin overslept => quiet = Interval
<1>t. /\ lead \in Nat /\ rest \in [Threads -> Nat] /\ quiet \in 0..Interval
      /\ Interval \in Nat /\ overslept \subseteq Threads
      /\ pc \in [Threads -> {"idle", "acquire", "asleep", "sent", "backoff"}]
  BY ClientAssumption DEF TypeOK
<1>s. ASSUME NEW t \in Threads, Send(t), t \notin overslept
      PROVE  t \in Punctual /\ rest[t] = 0 /\ quiet = Interval
  <2>1. t \in Punctual /\ rest[t] = 0
    BY <1>s DEF Send, Punctual, Asleep
  <2> QED BY <1>t, <2>1 DEF SpacedInv
<1>1. CASE Tick
  <2>1. /\ Punctual' = {t \in Punctual : rest[t] # 0}
        /\ \A t \in Punctual' : rest'[t] = rest[t] - 1
    BY <1>1, <1>t DEF Tick, Less, Punctual, Asleep
  <2>2. /\ lead' = IF lead > 0 THEN lead - 1 ELSE 0
        /\ quiet' = IF quiet < Interval THEN quiet + 1 ELSE quiet
    BY <1>1 DEF Tick, Less
  <2>3. \A t \in Punctual' : t \in Punctual /\ rest[t] \in Nat /\ rest[t] > 0
    BY <1>t, <2>1 DEF Punctual, Asleep
  <2> QED BY <1>t, <1>s, <2>1, <2>2, <2>3 DEF SpacedInv
<1>2. ASSUME NEW t \in Threads, Acquire(t) PROVE SpacedInv'
  <2>1. /\ lead' = lead + Interval /\ quiet' = quiet
        /\ Punctual' \subseteq Punctual \cup {t} /\ t \notin Punctual
        /\ rest'[t] = lead /\ \A s \in Punctual : rest'[s] = rest[s]
    BY <1>2, <1>t DEF Acquire, history, Punctual, Asleep
  <2>2. \A s \in Punctual : rest[s] \in Nat
    BY <1>t DEF Punctual, Asleep
  <2> QED BY <1>t, <2>1, <2>2 DEF SpacedInv
<1>3. ASSUME NEW t \in Threads, Send(t) PROVE SpacedInv'
  <2>1. /\ lead' = lead /\ rest' = rest /\ Punctual' = Punctual \ {t}
        /\ quiet' = IF t \in overslept THEN quiet ELSE 0
    BY <1>3, <1>t DEF Send, limiter, Punctual, Asleep
  <2>2. \A s \in Punctual : rest[s] \in Nat
    BY <1>t DEF Punctual, Asleep
  <2>3. CASE t \in overslept
    BY <2>1, <2>3 DEF SpacedInv
  <2>4. CASE t \notin overslept
    BY <1>t, <1>s, <1>3, <2>1, <2>2, <2>4 DEF SpacedInv
  <2> QED BY <2>3, <2>4
<1>4. ASSUME UNCHANGED <<lead, quiet, overslept>>, Asleep' = Asleep,
             \A t \in Asleep : rest'[t] = rest[t]
      PROVE  SpacedInv'
  BY <1>4 DEF SpacedInv, Punctual
<1> QED BY <1>s, <1>1, <1>2, <1>3, <1>4, OtherSteps

(* The spacing that rate_limit.py states, for every request that is sent   *)
(* when its slot comes, whatever other threads send late in between.       *)
THEOREM OnTimeStaysSpaced == Spec => OnTimeSpaced
<1>1. Init => SpacedInv
  BY InitHolds DEF RateInv
<1>2. TypeOK /\ SpacedInv /\ [Next]_vars => SpacedInv'
  BY SpacedNext
<1>3. TypeOK /\ SpacedInv /\ [Next]_vars
        => [\A t \in Threads : Send(t) /\ t \notin overslept => quiet = Interval]_vars
  BY SpacedNext
<1> QED BY <1>1, <1>2, <1>3, TypeHolds, PTL DEF Spec, OnTimeSpaced

-----------------------------------------------------------------------------
(* The calendar of this century: days before a year, ...                   *)
Base(y) == 365 * (y - 2000) + (y - 1997) \div 4

LeapDay(y) == IF Leap(y) THEN 1 ELSE 0

LEMMA YearLengths ==
  ASSUME NEW y \in 2000..2099
  PROVE  /\ Base(y) \in Nat /\ LeapDay(y) \in 0..1
         /\ Base(y + 1) = Base(y) + 365 + LeapDay(y)
<1>1. Leap(y) <=> y % 4 = 0
  <2>1. CASE y = 2000
    BY <2>1 DEF Leap
  <2>2. CASE y # 2000
    <3>1. y % 100 # 0
      BY <2>2
    <3> QED BY <3>1 DEF Leap
  <2> QED BY <2>1, <2>2
<1>2. (y - 1996) \div 4 = (y - 1997) \div 4 + (IF y % 4 = 0 THEN 1 ELSE 0)
  OBVIOUS
<1> QED BY <1>1, <1>2 DEF Base, LeapDay

(* ... and the first and last days of its months.                          *)
LEMMA MonthLengths ==
  ASSUME NEW y \in 2000..2099, NEW b, NEW z, b = Base(y), z = LeapDay(y)
  PROVE  /\ Date(y, 1, 1) = b + 1         /\ LastDayOfMonth(y, 1) = b + 31
         /\ Date(y, 2, 1) = b + 32        /\ LastDayOfMonth(y, 2) = b + 59 + z
         /\ Date(y, 3, 1) = b + 60 + z    /\ LastDayOfMonth(y, 3) = b + 90 + z
         /\ Date(y, 4, 1) = b + 91 + z    /\ LastDayOfMonth(y, 4) = b + 120 + z
         /\ Date(y, 5, 1) = b + 121 + z   /\ LastDayOfMonth(y, 5) = b + 151 + z
         /\ Date(y, 6, 1) = b + 152 + z   /\ LastDayOfMonth(y, 6) = b + 181 + z
         /\ Date(y, 7, 1) = b + 182 + z   /\ LastDayOfMonth(y, 7) = b + 212 + z
         /\ Date(y, 8, 1) = b + 213 + z   /\ LastDayOfMonth(y, 8) = b + 243 + z
         /\ Date(y, 9, 1) = b + 244 + z   /\ LastDayOfMonth(y, 9) = b + 273 + z
         /\ Date(y, 10, 1) = b + 274 + z  /\ LastDayOfMonth(y, 10) = b + 304 + z
         /\ Date(y, 11, 1) = b + 305 + z  /\ LastDayOfMonth(y, 11) = b + 334 + z
         /\ Date(y, 12, 1) = b + 335 + z  /\ LastDayOfMonth(y, 12) = b + 365 + z
         /\ Date(y, 12, 31) = b + 365 + z
<1>1. b \in Int /\ z \in Int
  <2>1. Base(y) \in Nat /\ LeapDay(y) \in 0..1
    BY DEF Base, LeapDay
  <2> QED BY <2>1
<1>2. \A m, d \in Int :
        Date(y, m, d) = b + DaysBefore[m] + (IF m > 2 /\ Leap(y) THEN 1 ELSE 0) + d
  BY DEF Date, Base
<1>3. /\ DaysBefore[1] = 0 /\ DaysBefore[2] = 31 /\ DaysBefore[3] = 59
      /\ DaysBefore[4] = 90 /\ DaysBefore[5] = 120 /\ DaysBefore[6] = 151
      /\ DaysBefore[7] = 181 /\ DaysBefore[8] = 212 /\ DaysBefore[9] = 243
      /\ DaysBefore[10] = 273 /\ DaysBefore[11] = 304 /\ DaysBefore[12] = 334
  BY DEF DaysBefore
<1>4. /\ MonthLength(y, 1) = 31 /\ MonthLength(y, 2) = 28 + z /\ MonthLength(y, 3) = 31
      /\ MonthLength(y, 4) = 30 /\ MonthLength(y, 5) = 31 /\ MonthLength(y, 6) = 30
      /\ MonthLength(y, 7) = 31 /\ MonthLength(y, 8) = 31 /\ MonthLength(y, 9) = 30
      /\ MonthLength(y, 10) = 31 /\ MonthLength(y, 11) = 30 /\ MonthLength(y, 12) = 31
  BY DEF MonthLength, LeapDay
<1>5. ASSUME NEW d \in Int
      PROVE  /\ Date(y, 1, d) = b + d /\ Date(y, 2, d) = b + 31 + d
             /\ Date(y, 3, d) = b + 59 + z + d /\ Date(y, 4, d) = b + 90 + z + d
             /\ Date(y, 5, d) = b + 120 + z + d /\ Date(y, 6, d) = b + 151 + z + d
             /\ Date(y, 7, d) = b + 181 + z + d /\ Date(y, 8, d) = b + 212 + z + d
             /\ Date(y, 9, d) = b + 243 + z + d /\ Date(y, 10, d) = b + 273 + z + d
             /\ Date(y, 11, d) = b + 304 + z + d /\ Date(y, 12, d) = b + 334 + z + d
  <2>1. \A m \in 1..12 : Date(y, m, d) = b + DaysBefore[m] + (IF m > 2 THEN z ELSE 0) + d
    BY <1>1, <1>2 DEF LeapDay
  <2> QED BY <1>1, <1>3, <2>1
<1>6. \A m : LastDayOfMonth(y, m) = Date(y, m, MonthLength(y, m))
  BY DEF LastDayOfMonth
<1>7. /\ Date(y, 1, 1) = b + 1 /\ Date(y, 2, 1) = b + 32
      /\ Date(y, 3, 1) = b + 60 + z /\ Date(y, 4, 1) = b + 91 + z
      /\ Date(y, 5, 1) = b + 121 + z /\ Date(y, 6, 1) = b + 152 + z
      /\ Date(y, 7, 1) = b + 182 + z /\ Date(y, 8, 1) = b + 213 + z
      /\ Date(y, 9, 1) = b + 244 + z /\ Date(y, 10, 1) = b + 274 + z
      /\ Date(y, 11, 1) = b + 305 + z /\ Date(y, 12, 1) = b + 335 + z
  <2>1. /\ Date(y, 1, 1) = b + 1 /\ Date(y, 2, 1) = b + 31 + 1
        /\ Date(y, 3, 1) = b + 59 + z + 1 /\ Date(y, 4, 1) = b + 90 + z + 1
        /\ Date(y, 5, 1) = b + 120 + z + 1 /\ Date(y, 6, 1) = b + 151 + z + 1
        /\ Date(y, 7, 1) = b + 181 + z + 1 /\ Date(y, 8, 1) = b + 212 + z + 1
        /\ Date(y, 9, 1) = b + 243 + z + 1 /\ Date(y, 10, 1) = b + 273 + z + 1
        /\ Date(y, 11, 1) = b + 304 + z + 1 /\ Date(y, 12, 1) = b + 334 + z + 1
    BY <1>5
  <2> QED BY <1>1, <2>1
<1>8. /\ LastDayOfMonth(y, 1) = b + 31 /\ LastDayOfMonth(y, 2) = b + 59 + z
      /\ LastDayOfMonth(y, 3) = b + 90 + z /\ LastDayOfMonth(y, 4) = b + 120 + z
      /\ LastDayOfMonth(y, 5) = b + 151 + z /\ LastDayOfMonth(y, 6) = b + 181 + z
      /\ LastDayOfMonth(y, 7) = b + 212 + z /\ LastDayOfMonth(y, 8) = b + 243 + z
      /\ LastDayOfMonth(y, 9) = b + 273 + z /\ LastDayOfMonth(y, 10) = b + 304 + z
      /\ LastDayOfMonth(y, 11) = b + 334 + z /\ LastDayOfMonth(y, 12) = b + 365 + z
  BY <1>1, <1>4, <1>5, <1>6
<1>9. Date(y, 12, 31) = b + 365 + z
  BY <1>4, <1>6, <1>8
<1> QED BY <1>7, <1>8, <1>9

LEMMA InYear ==
  ASSUME NEW y \in 2000..2099, NEW m \in Months
  PROVE  /\ Base(y) \in Nat /\ LeapDay(y) \in 0..1
         /\ Date(y, m, 1) \in Int /\ LastDayOfMonth(y, m) \in Int
         /\ Base(y) < Date(y, m, 1)
         /\ LastDayOfMonth(y, m) <= Base(y) + 365 + LeapDay(y)
<1> DEFINE b == Base(y)
           z == LeapDay(y)
<1>1. b \in Nat /\ z \in 0..1
  BY DEF Base, LeapDay
<1> HIDE DEF b, z
<1>2. m \in {1, 2, 3, 4, 5, 6, 7, 8, 9, 10, 11, 12}
  BY DEF Months
<1>3. /\ Date(y, m, 1) \in Int /\ LastDayOfMonth(y, m) \in Int
      /\ b < Date(y, m, 1) /\ LastDayOfMonth(y, m) <= b + 365 + z
  BY <1>1, <1>2, MonthLengths DEF b, z
<1> QED BY <1>1, <1>3 DEF b, z

LEMMA MonthNotEmpty ==
  ASSUME NEW y \in 2000..2099, NEW m \in Months
  PROVE  Date(y, m, 1) <= LastDayOfMonth(y, m)
<1> DEFINE b == Base(y)
           z == LeapDay(y)
<1>1. b \in Nat /\ z \in 0..1
  BY DEF Base, LeapDay
<1> HIDE DEF b, z
<1>2. m \in {1, 2, 3, 4, 5, 6, 7, 8, 9, 10, 11, 12}
  BY DEF Months
<1> QED BY <1>1, <1>2, MonthLengths DEF b, z

LEMMA MonthsApart ==
  ASSUME NEW y \in 2000..2099, NEW k \in Months, NEW m \in Months, k < m
  PROVE  LastDayOfMonth(y, k) < Date(y, m, 1) /\ LastDayOfMonth(y, k) <= LastDayOfMonth(y, m)
<1> DEFINE b == Base(y)
           z == LeapDay(y)
<1>1. b \in Nat /\ z \in 0..1
  BY DEF Base, LeapDay
<1> HIDE DEF b, z
<1>2. /\ k \in {1, 2, 3, 4, 5, 6, 7, 8, 9, 10, 11}
      /\ m \in {2, 3, 4, 5, 6, 7, 8, 9, 10, 11, 12}
  BY DEF Months
<1> QED BY <1>1, <1>2, MonthLengths DEF b, z

(* A year ends before a later one begins.                                  *)
LEMMA YearsFollow ==
  ASSUME NEW u \in 2000..2099, NEW v \in 2000..2099, u < v
  PROVE  Base(u) + 365 + LeapDay(u) <= Base(v)
<1> DEFINE next == Base(u + 1)
<1>1. next = Base(u) + 365 + LeapDay(u)
  BY YearLengths, SMTT(40)
<1>2. next <= Base(v)
  BY DEF Base
<1> HIDE DEF next
<1> QED BY <1>1, <1>2

LEMMA YearOfIs ==
  ASSUME NEW y \in 2000..2099, NEW d \in Int,
         Base(y) < d, d <= Base(y) + 365 + LeapDay(y)
  PROVE  YearOf(d) = y
<1> DEFINE Fits(x) == Date(x, 1, 1) <= d /\ d <= Date(x, 12, 31)
           R == (1999 + d \div 366)..(2000 + d \div 365)
<1>1. y \in R /\ d \in 1..36525
  <2> DEFINE leaps == (y - 1997) \div 4
  <2>1. leaps \in 0..25 /\ leaps <= y - 2000 /\ (y = 2099 => leaps = 25)
        /\ (y # 2099 => y <= 2098)
    OBVIOUS
  <2>2. /\ 365 * (y - 2000) + leaps < d /\ d <= 365 * (y - 2000) + leaps + 365 + LeapDay(y)
        /\ LeapDay(y) \in 0..1 /\ (y = 2099 => LeapDay(y) = 0)
    BY DEF Base, LeapDay, Leap
  <2> HIDE DEF leaps
  <2>3. 365 * (y - 2000) < d /\ d <= 366 * (y - 1999) /\ d >= 1 /\ d <= 36525
    BY <2>1, <2>2
  <2>4. d \div 366 <= y - 1999 /\ y - 2000 <= d \div 365
    BY <2>3
  <2>5. d \div 366 \in Int /\ d \div 365 \in Int
    OBVIOUS
  <2> QED BY <2>3, <2>4, <2>5
<1>2. Fits(y)
  <2>1. Date(y, 1, 1) = Base(y) + 1 /\ Date(y, 12, 31) = Base(y) + 365 + LeapDay(y)
    BY MonthLengths
  <2>2. Base(y) \in Nat
    BY DEF Base
  <2> QED BY <2>1, <2>2
<1>3. ASSUME NEW x \in R, Fits(x) PROVE x = y
  <2>1. x \in 1999..2100
    <3>1. d \in 1..36525
      BY <1>1
    <3>2. d \div 366 \in Int /\ d \div 366 >= 0
      BY <3>1
    <3>3. d \div 365 \in Int /\ d \div 365 <= 100
      BY <3>1
    <3> QED BY <3>2, <3>3
  <2>2. x # 1999
    <3>1. Date(1999, 12, 31) = 0
      BY DEF Date, DaysBefore, Leap
    <3> QED BY <1>1, <1>3, <3>1
  <2>3. x # 2100
    <3>1. Date(2100, 1, 1) = 36526
      BY DEF Date, DaysBefore, Leap
    <3> QED BY <1>1, <1>3, <3>1
  <2>4. x \in 2000..2099
    BY <2>1, <2>2, <2>3
  <2>5. Date(x, 1, 1) = Base(x) + 1 /\ Date(x, 12, 31) = Base(x) + 365 + LeapDay(x)
    BY <2>4, MonthLengths
  <2>6. Base(x) < d /\ d <= Base(x) + 365 + LeapDay(x)
    <3>1. Base(x) \in Nat
      BY <2>4 DEF Base
    <3> QED BY <1>3, <2>5, <3>1
  <2>7. \A u, v \in 2000..2099 : u < v => Base(u) + 365 + LeapDay(u) <= Base(v)
    BY YearsFollow
  <2>8. /\ Base(x) \in Nat /\ LeapDay(x) \in Nat /\ Base(y) \in Nat /\ LeapDay(y) \in Nat
    BY <2>4 DEF Base, LeapDay
  <2>9. ~ (x < y)
    BY <2>4, <2>6, <2>7, <2>8
  <2>10. ~ (y < x)
    BY <2>4, <2>6, <2>7, <2>8
  <2> QED BY <2>4, <2>9, <2>10
<1>4. YearOf(d) = CHOOSE x \in R : Fits(x)
  BY DEF YearOf
<1> HIDE DEF Fits, R
<1> QED BY <1>1, <1>2, <1>3, <1>4

LEMMA MonthOfIs ==
  ASSUME NEW y \in 2000..2099, NEW d \in Int,
         Base(y) < d, d <= Base(y) + 365 + LeapDay(y)
  PROVE  /\ MonthOf(d) \in Months
         /\ Date(y, MonthOf(d), 1) <= d /\ d <= LastDayOfMonth(y, MonthOf(d))
<1> DEFINE Fits(m) == Date(y, m, 1) <= d /\ d <= LastDayOfMonth(y, m)
<1>1. MonthOf(d) = CHOOSE m \in Months : Fits(m)
  BY YearOfIs DEF MonthOf, LastDayOfMonth
<1>2. \E m \in Months : Fits(m)
  <2> DEFINE b == Base(y)
             z == LeapDay(y)
  <2>1. b \in Nat /\ z \in 0..1
    BY DEF Base, LeapDay
  <2>2. b < d /\ d <= b + 365 + z
    OBVIOUS
  <2> HIDE DEF b, z
  <2>3. ASSUME \A m \in Months : ~ Fits(m) PROVE FALSE
    <3>1. \A m \in 1..12 : Date(y, m, 1) <= d => ~ (d <= LastDayOfMonth(y, m))
      BY <2>3 DEF Months
    <3>2. d > b + 31
      BY <2>1, <2>2, <3>1, MonthLengths DEF b, z
    <3>3. d > b + 59 + z
      BY <2>1, <2>2, <3>1, <3>2, MonthLengths DEF b, z
    <3>4. d > b + 90 + z
      BY <2>1, <2>2, <3>1, <3>3, MonthLengths DEF b, z
    <3>5. d > b + 120 + z
      BY <2>1, <2>2, <3>1, <3>4, MonthLengths DEF b, z
    <3>6. d > b + 151 + z
      BY <2>1, <2>2, <3>1, <3>5, MonthLengths DEF b, z
    <3>7. d > b + 181 + z
      BY <2>1, <2>2, <3>1, <3>6, MonthLengths DEF b, z
    <3>8. d > b + 212 + z
      BY <2>1, <2>2, <3>1, <3>7, MonthLengths DEF b, z
    <3>9. d > b + 243 + z
      BY <2>1, <2>2, <3>1, <3>8, MonthLengths DEF b, z
    <3>10. d > b + 273 + z
      BY <2>1, <2>2, <3>1, <3>9, MonthLengths DEF b, z
    <3>11. d > b + 304 + z
      BY <2>1, <2>2, <3>1, <3>10, MonthLengths DEF b, z
    <3>12. d > b + 334 + z
      BY <2>1, <2>2, <3>1, <3>11, MonthLengths DEF b, z
    <3>13. d > b + 365 + z
      BY <2>1, <2>2, <3>1, <3>12, MonthLengths DEF b, z
    <3> QED BY <2>1, <2>2, <3>13
  <2> QED BY <2>3
<1> HIDE DEF Fits
<1>3. Fits(MonthOf(d)) /\ MonthOf(d) \in Months
  BY <1>1, <1>2
<1> QED BY <1>3 DEF Fits

(* A day is in the fiscal year that ends with or after it, behind the end  *)
(* of the one before.                                                      *)
LEMMA FiscalYearIs ==
  ASSUME NEW y \in 2001..2099, NEW m \in Months, NEW d \in Int,
         LastDayOfMonth(y - 1, m) < d, d <= LastDayOfMonth(y, m)
  PROVE  FiscalYear(d, m) = y
<1>0. y \in 2000..2099 /\ y - 1 \in 2000..2099 /\ (y - 1) + 1 = y
  BY DEF Months
<1>1. CASE Base(y) < d
  <2>1. d <= Base(y) + 365 + LeapDay(y)
    <3>1. /\ LastDayOfMonth(y, m) \in Int /\ Base(y) \in Nat /\ LeapDay(y) \in 0..1
          /\ LastDayOfMonth(y, m) <= Base(y) + 365 + LeapDay(y)
      BY <1>0, InYear
    <3> QED BY <3>1
  <2>2. YearOf(d) = y
    BY <1>0, <1>1, <2>1, YearOfIs
  <2> DEFINE k == MonthOf(d)
  <2>3. k \in Months /\ Date(y, k, 1) <= d
    BY <1>0, <1>1, <2>1, MonthOfIs, SMTT(40)
  <2>4. ~ (m < k)
    <3>1. ASSUME m < k PROVE LastDayOfMonth(y, m) < Date(y, k, 1)
      BY <1>0, <2>3, <3>1, MonthsApart
    <3>2. Date(y, k, 1) \in Int /\ LastDayOfMonth(y, m) \in Int
      BY <1>0, <2>3, InYear
    <3> HIDE DEF k
    <3> QED BY <2>3, <3>1, <3>2
  <2>5. MonthOf(d) <= m
    BY <1>0, <2>3, <2>4 DEF Months
  <2> QED BY <2>2, <2>5 DEF FiscalYear
<1>2. CASE ~ (Base(y) < d)
  <2>1. Base(y - 1) < d /\ d <= Base(y - 1) + 365 + LeapDay(y - 1)
    <3>1. /\ LastDayOfMonth(y - 1, m) \in Int /\ Base(y - 1) \in Nat
          /\ LeapDay(y - 1) \in 0..1 /\ Date(y - 1, m, 1) \in Int
          /\ Base(y - 1) < Date(y - 1, m, 1)
      BY <1>0, InYear
    <3>2. Date(y - 1, m, 1) <= LastDayOfMonth(y - 1, m)
      BY <1>0, MonthNotEmpty
    <3>3. Base(y) = Base(y - 1) + 365 + LeapDay(y - 1) /\ Base(y) \in Nat
      BY <1>0, YearLengths DEF Base
    <3> QED BY <1>2, <3>1, <3>2, <3>3
  <2>2. YearOf(d) = y - 1
    BY <1>0, <2>1, YearOfIs
  <2> DEFINE k == MonthOf(d)
  <2>3. k \in Months /\ d <= LastDayOfMonth(y - 1, k)
    BY <1>0, <2>1, MonthOfIs, SMTT(40)
  <2>4. m < k
    <3>1. LastDayOfMonth(y - 1, m) \in Int /\ LastDayOfMonth(y - 1, k) \in Int
      BY <1>0, <2>3, InYear
    <3>2. k # m
      BY <2>3, <3>1
    <3>3. ASSUME k < m PROVE LastDayOfMonth(y - 1, k) <= LastDayOfMonth(y - 1, m)
      BY <1>0, <2>3, <3>3, MonthsApart
    <3>4. k \in Int
      BY <2>3 DEF Months
    <3> HIDE DEF k
    <3> QED BY <1>0, <2>3, <3>1, <3>2, <3>3, <3>4
  <2>5. ~ (MonthOf(d) <= m)
    BY <1>0, <2>3, <2>4 DEF Months
  <2> QED BY <1>0, <2>2, <2>5 DEF FiscalYear
<1> QED BY <1>1, <1>2

(* Years of any month on record are a year long.                           *)
LEMMA YearsApart ==
  ASSUME NEW y \in 2001..2099, NEW m \in Months
  PROVE  /\ LastDayOfMonth(y, m) \in Int /\ LastDayOfMonth(y - 1, m) \in Int
         /\ LastDayOfMonth(y - 1, m) + 365 <= LastDayOfMonth(y, m)
<1> DEFINE b == Base(y)
           z == LeapDay(y)
           c == Base(y - 1)
           w == LeapDay(y - 1)
<1>0. y \in 2000..2099 /\ y - 1 \in 2000..2099 /\ (y - 1) + 1 = y
  OBVIOUS
<1>1. b \in Nat /\ z \in 0..1 /\ c \in Nat /\ w \in 0..1
  BY DEF Base, LeapDay
<1>2. b = c + 365 + w
  BY <1>0, YearLengths
<1>3. w = 1 => z = 0
  <2>1. (y - 1) % 4 = 0 => y % 4 # 0
    OBVIOUS
  <2> QED BY <2>1 DEF LeapDay, Leap
<1>4. m \in {1, 2, 3, 4, 5, 6, 7, 8, 9, 10, 11, 12}
  BY DEF Months
<1> HIDE DEF b, z, c, w
<1> QED BY <1>0, <1>1, <1>2, <1>3, <1>4, MonthLengths DEF b, z, c, w

-----------------------------------------------------------------------------
(* The end of a quarter is nearest to as many quarters before the last day *)
(* of the year's month as are left of the year, and so is a day up to lag  *)
(* days later, unless the year ends late.                                  *)
Calendars ==
  {c \in [year : 2001..2099, month : Months, early : -44..38, long : BOOLEAN,
          onRecord : BOOLEAN, undated : SUBSET (1..4), lag : Nat] :
     c.lag - c.early <= 44}

LEMMA QuarterIs ==
  ASSUME NEW c \in Calendars, NEW q \in 1..3
  PROVE  /\ FiscalYear(ReportDate(c, q), c.month) = c.year
         /\ FiscalQuarter(ReportDate(c, q), c.month) = q
<1> DEFINE last == LastDayOfMonth(c.year, c.month)
           before == LastDayOfMonth(c.year - 1, c.month)
           late == IF q \in c.undated THEN c.lag ELSE 0
           days == c.early - late + 7 * (13 * (4 - q) + (IF c.long THEN 1 ELSE 0))
           report == ReportDate(c, q)
<1>1. c.year \in 2001..2099 /\ c.month \in Months /\ c.early \in -44..38
      /\ c.lag \in Nat /\ c.lag - c.early <= 44
  BY DEF Calendars
<1>2. last \in Int /\ before \in Int /\ before + 365 <= last
  BY <1>1, YearsApart
<1>c. c.early - late \in -44..38 /\ late \in Nat
  BY <1>1
<1>4. report = last - days
  BY <1>1, <1>2, <1>c DEF ReportDate, PeriodEnd, YearEnd
<1> HIDE DEF late
<1>3. /\ days \in 0..364
      /\ 730 * (4 - q) <= 8 * days + 365 /\ 8 * days + 365 < 730 * (5 - q)
  BY <1>1, <1>c
<1> HIDE DEF days, report, last, before
<1>5. report \in Int /\ before < report /\ report <= last /\ last - report = days
  BY <1>2, <1>3, <1>4
<1>6. FiscalYear(report, c.month) = c.year
  BY <1>1, <1>5, FiscalYearIs DEF last, before
<1>7. QuartersRemaining(days) = 4 - q
  <2>1. CASE q = 1
    BY <1>3, <2>1 DEF QuartersRemaining
  <2>2. CASE q = 2
    BY <1>3, <2>2 DEF QuartersRemaining
  <2>3. CASE q = 3
    BY <1>3, <2>3 DEF QuartersRemaining
  <2> QED BY <2>1, <2>2, <2>3
<1>8. FiscalQuarter(report, c.month) =
        LET quarter == 4 - QuartersRemaining(last - report)
        IN  IF quarter > 4 THEN 4 ELSE IF quarter < 1 THEN 1 ELSE quarter
  BY <1>6 DEF FiscalQuarter, last
<1>9. FiscalQuarter(report, c.month) = q
  BY <1>5, <1>7, <1>8
<1> QED BY <1>6, <1>9 DEF report

LEMMA YearIs ==
  ASSUME NEW c \in Calendars, c.early >= 0, 4 \notin c.undated
  PROVE  FiscalYear(ReportDate(c, 4), c.month) = c.year
<1> DEFINE last == LastDayOfMonth(c.year, c.month)
           before == LastDayOfMonth(c.year - 1, c.month)
<1>1. c.year \in 2001..2099 /\ c.month \in Months /\ c.early \in 0..38
  BY DEF Calendars
<1>2. last \in Int /\ before \in Int /\ before + 365 <= last
  BY <1>1, YearsApart
<1>3. ReportDate(c, 4) = last - c.early
  BY <1>1, <1>2 DEF ReportDate, PeriodEnd, YearEnd
<1> HIDE DEF last, before
<1>4. /\ ReportDate(c, 4) \in Int /\ before < ReportDate(c, 4)
      /\ ReportDate(c, 4) <= last
  BY <1>1, <1>2, <1>3
<1> QED BY <1>1, <1>4, FiscalYearIs DEF last, before

(* The labels of reports, for every company whose fiscal year ends at most *)
(* 38 days before or 44 days after the last day of the month it is taken   *)
(* to end in, with 52 or 53 weeks, through the leap years of the century:  *)
(* quarters are never taken for each other, also if 10-Qs do not state     *)
(* their period and the day they are filed on, at most 44 days after a     *)
(* year that ends with its month, stands in for it; and an annual report   *)
(* that states its period and does not end late has its own year.  Nothing *)
(* is said of a company with another year end than the December that the   *)
(* code falls back on, where EDGAR has none on record.                     *)
THEOREM LabelsStayRight ==
  ASSUME Companies \subseteq Calendars
  PROVE  Spec => []LabelsRight
<1>1. Init => LatestInv
  BY DEF Init, LatestInv
<1>2. LatestInv /\ [Next]_vars => LatestInv'
  <2> SUFFICES ASSUME LatestInv, [Next]_vars PROVE LatestInv'
    OBVIOUS
  <2>1. CASE Tick
    BY <2>1 DEF Tick, LatestInv
  <2>2. ASSUME NEW t \in Threads, List(t) \/ FetchDocument(t) PROVE LatestInv'
    BY <2>2 DEF List, FetchDocument, LatestInv
  <2>3. ASSUME NEW t \in Threads, Acquire(t) \/ Send(t) \/ Retry(t) PROVE LatestInv'
    BY <2>3 DEF Acquire, Send, Retry, LatestInv
  <2>4. ASSUME NEW t \in Threads, Answered(t) PROVE LatestInv'
    BY <2>4 DEF Answered, TickersArrive, SubmissionsArrive, DocumentArrives, Refused,
                FailsOnce, GivesUp, Returns, LatestInv
  <2>5. CASE UNCHANGED vars
    BY <2>5 DEF vars, thread, LatestInv
  <2> QED BY <2>1, <2>2, <2>3, <2>4, <2>5 DEF Next, Call
<1>3. LatestInv => LabelsRight
  <2> SUFFICES ASSUME LatestInv, latest # NoListing, MonthKnown(latest.company)
               PROVE  LabelsRight
    BY DEF LabelsRight, QuartersRight, AnnualRight
  <2>1. PICK c \in Companies :
          latest = [company |-> c,
                    filings |-> <<Annual(c), Quarterly(c, 3), Quarterly(c, 2), Quarterly(c, 1)>>]
    BY DEF LatestInv, Listings
  <2>2. c \in Calendars
    OBVIOUS
  <2>3. /\ latest.company = c /\ latest.filings[1] = Annual(c)
        /\ latest.filings[2] = Quarterly(c, 3) /\ latest.filings[3] = Quarterly(c, 2)
        /\ latest.filings[4] = Quarterly(c, 1)
    BY <2>1
  <2>m. EndMonth(c) = c.month
    BY <2>3 DEF MonthKnown
  <2>4. \A q \in 1..3 :
          Quarterly(c, q) = [form |-> "10-Q", year |-> c.year, quarter |-> q]
    BY <2>2, <2>m, QuarterIs DEF Quarterly
  <2>5. \A i \in 2..4 : 5 - i \in 1..3 /\ latest.filings[i] = Quarterly(c, 5 - i)
    BY <2>3
  <2>6. QuartersRight
    BY <2>3, <2>4, <2>5 DEF QuartersRight
  <2>7. AnnualRight
    BY <2>2, <2>m, <2>3, YearIs DEF AnnualRight, Annual
  <2> QED BY <2>6, <2>7 DEF LabelsRight
<1> QED BY <1>1, <1>2, <1>3, PTL DEF Spec
=============================================================================
