--------------------------- MODULE AnswerService ---------------------------
(***************************************************************************)
(* The query service: worker threads that run the /query handler over one  *)
(* shared LLM client, with its Budget, its ResponseCache on disk and the   *)
(* CumulativeSpend of the process.                                         *)
(*                                                                         *)
(* A question stands for everything a completion depends on (model,        *)
(* prompt with its passages, settings) and a response is known by the      *)
(* question it answers.  Tokens are counted through their cost, and        *)
(* cached_calls, which limits nothing, is left out.                        *)
(***************************************************************************)
EXTENDS Integers, FiniteSets

CONSTANTS
  Threads,       \* workers of the service
  Questions,
  Unanswerable,  \* questions for which retrieval finds no passage
  Cost,          \* Cost[q]: what one call for q is billed
  Key,           \* Key[q]: the cache key of q
  MaxCalls, MaxCost,  \* the ceilings of the budget
  CacheOn,       \* LLM_CACHE_ENABLED
  MaxBilled,     \* bound: calls billed to one process
  NoFile, Torn, None

Keys == {Key[q] : q \in Questions}
Outcomes == {"unknown", "rejected", "failed"}
Places == {"idle", "lookup", "check", "call", "record", "open", "write",
           "rename", "finish", "absorbing"}

ASSUME ServiceAssumption ==
  /\ IsFiniteSet(Threads)
  /\ Unanswerable \subseteq Questions
  /\ Cost \in [Questions -> Nat]
  /\ DOMAIN Key = Questions
  /\ MaxCalls \in Nat \ {0} /\ MaxCost \in Nat \ {0}
  /\ CacheOn \in BOOLEAN
  /\ MaxBilled \in Nat
  /\ {NoFile, Torn, None} \cap (Questions \cup Outcomes) = {}
  /\ NoFile # Torn /\ None \notin {NoFile, Torn} /\ Outcomes \cap Questions = {}

VARIABLES
  pc, asked, reply,    \* per thread: step, question, what it will answer
  handle,              \* per thread: the name its open cache file goes by
  entry, tmp,          \* cache files by key
  budget, spend,       \* [calls, cost] since the last reset, since the start
  billed, times,       \* what the provider charged: in all, per question
  overlapped, refused  \* have requests overlapped, has a cache write failed?

request == <<pc, asked, reply>>
cache   == <<handle, entry, tmp>>
money   == <<budget, spend>>
history == <<billed, times, overlapped, refused>>
vars    == <<request, cache, money, history>>

-----------------------------------------------------------------------------
Nothing == [calls |-> 0, cost |-> 0]
Plus(m, c) == [calls |-> m.calls + 1, cost |-> m.cost + c]

Busy == {t \in Threads : pc[t] # "idle"}

Go(t, place) == pc' = [pc EXCEPT ![t] = place]
Answer(t, r) == reply' = [reply EXCEPT ![t] = r]

KeyOf(t) == Key[asked[t]]

(* Mutant of Cached: an entry is taken as it is.                           *)
CachedUnread(k) == entry[k] # NoFile

(* An entry that is there and can be decoded.                              *)
Cached(k) == entry[k] \notin {NoFile, Torn}

(* Mutant of Exceeded: refuses the last call the ceiling allows.           *)
ExceededEarly(m) == m.calls + 1 >= MaxCalls \/ m.cost >= MaxCost

(* Budget.check.                                                           *)
Exceeded(m) == m.calls >= MaxCalls \/ m.cost >= MaxCost

-----------------------------------------------------------------------------
Init ==
  /\ pc = [t \in Threads |-> "idle"]
  /\ asked = [t \in Threads |-> None]
  /\ reply = [t \in Threads |-> None]
  /\ handle = [t \in Threads |-> "none"]
  /\ entry = [k \in Keys |-> NoFile] /\ tmp = [k \in Keys |-> NoFile]
  /\ budget = Nothing /\ spend = Nothing
  /\ billed = Nothing /\ times = [q \in Questions |-> 0]
  /\ overlapped = FALSE /\ refused = FALSE

(* Mutant of Arrive: the request goes on with the budget it finds.         *)
ArriveUnreset(t, q) ==
  /\ pc[t] = "idle"
  /\ billed.calls + Cardinality(Busy) < MaxBilled
  /\ asked' = [asked EXCEPT ![t] = q]
  /\ IF q \in Unanswerable
       THEN Answer(t, "unknown") /\ Go(t, "finish")
       ELSE Answer(t, None) /\ Go(t, IF CacheOn THEN "lookup" ELSE "check")
  /\ overlapped' = (overlapped \/ Busy # {})
  /\ UNCHANGED <<cache, money, billed, times, refused>>

(* start_request resets the shared budget; with no passage retrieved the   *)
(* pipeline answers without a call.                                        *)
Arrive(t, q) ==
  /\ pc[t] = "idle"
  /\ billed.calls + Cardinality(Busy) < MaxBilled
  /\ budget' = Nothing
  /\ asked' = [asked EXCEPT ![t] = q]
  /\ IF q \in Unanswerable
       THEN Answer(t, "unknown") /\ Go(t, "finish")
       ELSE Answer(t, None) /\ Go(t, IF CacheOn THEN "lookup" ELSE "check")
  /\ overlapped' = (overlapped \/ Busy # {})
  /\ UNCHANGED <<cache, spend, billed, times, refused>>

(* ResponseCache.get: an entry that cannot be decoded is a miss.           *)
LookupHit(t) ==
  /\ pc[t] = "lookup" /\ Cached(KeyOf(t))
  /\ Answer(t, entry[KeyOf(t)])
  /\ Go(t, "finish")
  /\ UNCHANGED <<asked, cache, money, history>>

LookupMiss(t) ==
  /\ pc[t] = "lookup" /\ ~Cached(KeyOf(t))
  /\ Go(t, "check")
  /\ UNCHANGED <<asked, reply, cache, money, history>>

CheckPasses(t) ==
  /\ pc[t] = "check" /\ ~Exceeded(budget)
  /\ Go(t, "call")
  /\ UNCHANGED <<asked, reply, cache, money, history>>

(* BudgetExceeded, answered with 429.                                      *)
CheckRaises(t) ==
  /\ pc[t] = "check" /\ Exceeded(budget)
  /\ Answer(t, "rejected")
  /\ Go(t, "finish")
  /\ UNCHANGED <<asked, cache, money, history>>

(* The provider answers and charges for it ...                             *)
Call(t) ==
  /\ pc[t] = "call"
  /\ Answer(t, asked[t])
  /\ billed' = Plus(billed, Cost[asked[t]])
  /\ times' = [times EXCEPT ![asked[t]] = @ + 1]
  /\ Go(t, "record")
  /\ UNCHANGED <<asked, cache, money, overlapped, refused>>

(* Mutant of CallFails: a failed call is recorded and cached like any.     *)
CallFailsRecorded(t) ==
  /\ pc[t] = "call"
  /\ Answer(t, "failed")
  /\ Go(t, "record")
  /\ UNCHANGED <<asked, cache, money, history>>

(* ... or fails.                                                           *)
CallFails(t) ==
  /\ pc[t] = "call"
  /\ Answer(t, "failed")
  /\ Go(t, "finish")
  /\ UNCHANGED <<asked, cache, money, history>>

Record(t) ==
  /\ pc[t] = "record"
  /\ budget' = Plus(budget, Cost[asked[t]])
  /\ Go(t, IF CacheOn THEN "open" ELSE "finish")
  /\ UNCHANGED <<asked, reply, cache, spend, history>>

(* ResponseCache.put opens the temporary file of the key, emptying one     *)
(* that is there, ...                                                      *)
PutOpen(t) ==
  /\ pc[t] = "open"
  /\ tmp' = [tmp EXCEPT ![KeyOf(t)] = Torn]
  /\ handle' = [handle EXCEPT ![t] = "tmp"]
  /\ Go(t, "write")
  /\ UNCHANGED <<asked, reply, entry, money, history>>

(* What a write leaves behind: over the longer text of another writer it   *)
(* is not decodable.                                                       *)
Written(t, old) == IF old = Torn THEN {reply[t]} ELSE {reply[t], Torn}

(* ... writes to the file it opened, whatever its name is by now, ...      *)
PutWrite(t) ==
  /\ pc[t] = "write"
  /\ LET k == KeyOf(t) IN
       \/ /\ handle[t] = "tmp"
          /\ \E x \in Written(t, tmp[k]) : tmp' = [tmp EXCEPT ![k] = x]
          /\ UNCHANGED entry
       \/ /\ handle[t] = "entry"
          /\ \E x \in Written(t, entry[k]) : entry' = [entry EXCEPT ![k] = x]
          /\ UNCHANGED tmp
       \/ /\ handle[t] = "none"
          /\ UNCHANGED <<entry, tmp>>
  /\ handle' = [handle EXCEPT ![t] = "none"]
  /\ Go(t, "rename")
  /\ UNCHANGED <<asked, reply, money, history>>

(* The names that open files of key k go by once tmp has replaced entry.   *)
Renamed(k) ==
  [u \in Threads |->
     IF pc[u] # "write" \/ KeyOf(u) # k THEN handle[u]
     ELSE IF handle[u] = "tmp" THEN "entry" ELSE "none"]

(* Mutant of PutRename: the response stays in the temporary file.          *)
PutRenameForgotten(t) ==
  /\ pc[t] = "rename"
  /\ Go(t, "finish")
  /\ UNCHANGED <<asked, reply, cache, money, history>>

(* ... and renames what stands under the temporary name, if anything does. *)
PutRename(t) ==
  /\ pc[t] = "rename"
  /\ LET k == KeyOf(t) IN
       IF tmp[k] = NoFile THEN UNCHANGED cache
       ELSE /\ entry' = [entry EXCEPT ![k] = tmp[k]]
            /\ tmp' = [tmp EXCEPT ![k] = NoFile]
            /\ handle' = Renamed(k)
  /\ Go(t, "finish")
  /\ UNCHANGED <<asked, reply, money, history>>

(* An OSError of the cache is swallowed.                                   *)
PutFails(t) ==
  /\ pc[t] = "open"
  /\ refused' = TRUE
  /\ Go(t, "finish")
  /\ UNCHANGED <<asked, reply, cache, money, billed, times, overlapped>>

(* finish_request: absorb reads the counters one by one, under the lock of *)
(* the totals but not of the budget.                                       *)
AbsorbCalls(t) ==
  /\ pc[t] = "finish"
  /\ \A u \in Threads : pc[u] # "absorbing"
  /\ spend' = [spend EXCEPT !.calls = @ + budget.calls]
  /\ Go(t, "absorbing")
  /\ UNCHANGED <<asked, reply, cache, budget, history>>

AbsorbCost(t) ==
  /\ pc[t] = "absorbing"
  /\ spend' = [spend EXCEPT !.cost = @ + budget.cost]
  /\ Go(t, "idle")
  /\ Answer(t, None)
  /\ asked' = [asked EXCEPT ![t] = None]
  /\ UNCHANGED <<cache, budget, history>>

(* The process stops and is started again: the cache files stay.           *)
Restart ==
  /\ pc' = [t \in Threads |-> "idle"]
  /\ reply' = [t \in Threads |-> None]
  /\ handle' = [t \in Threads |-> "none"]
  /\ budget' = Nothing /\ spend' = Nothing
  /\ billed' = Nothing /\ times' = [q \in Questions |-> 0]
  /\ overlapped' = FALSE /\ refused' = FALSE
  /\ asked' = [t \in Threads |-> None]
  /\ UNCHANGED <<entry, tmp>>

-----------------------------------------------------------------------------
Handle(t) ==
  \/ LookupHit(t) \/ LookupMiss(t)
  \/ CheckPasses(t) \/ CheckRaises(t)
  \/ Call(t) \/ CallFails(t) \/ Record(t)
  \/ PutOpen(t) \/ PutWrite(t) \/ PutRename(t) \/ PutFails(t)
  \/ AbsorbCalls(t) \/ AbsorbCost(t)

Next ==
  \/ \E t \in Threads : (\E q \in Questions : Arrive(t, q)) \/ Handle(t)
  \/ Restart

Spec == Init /\ [][Next]_vars

-----------------------------------------------------------------------------
Money == [calls : Nat, cost : Nat]
Content == Questions \cup {NoFile, Torn}

(* Types: among them that only a thread with an answer records or caches.  *)
TypeOK ==
  /\ pc \in [Threads -> Places]
  /\ asked \in [Threads -> Questions \cup {None}]
  /\ \A t \in Busy : asked[t] \in Questions
  /\ reply \in [Threads -> Questions \cup Outcomes \cup {None}]
  /\ \A t \in Threads :
       pc[t] \in {"record", "open", "write"} => reply[t] \in Questions
  /\ handle \in [Threads -> {"none", "tmp", "entry"}]
  /\ entry \in [Keys -> Content] /\ tmp \in [Keys -> Content]
  /\ budget \in Money /\ spend \in Money /\ billed \in Money
  /\ times \in [Questions -> Nat]
  /\ overlapped \in BOOLEAN /\ refused \in BOOLEAN

(* Threads that may still add a call to the budget.                        *)
Uncounted == {t \in Threads : pc[t] \in {"lookup", "check", "call", "record"}}

(* As every request resets the shared budget, it never holds more calls    *)
(* than the service has threads: the ceiling meant for a runaway loop does *)
(* not add up over the requests of a busy service.                         *)
CallsBounded ==
  budget.calls + Cardinality(Uncounted) <= Cardinality(Threads)

(* Banking, where requests do not overlap: how the three counters stand    *)
(* to each other at every step of the one request in progress.             *)
BankingInv ==
  ~overlapped =>
    /\ \A t, v \in Busy : t = v
    /\ Busy = {} => spend = billed
    /\ \A t \in Busy :
         /\ pc[t] \in {"lookup", "check", "call"} =>
              budget = Nothing /\ spend = billed
         /\ pc[t] = "record" =>
              budget = Nothing /\ Plus(spend, Cost[asked[t]]) = billed
         /\ pc[t] \in {"open", "write", "rename", "finish"} =>
              /\ spend.calls + budget.calls = billed.calls
              /\ spend.cost + budget.cost = billed.cost
         /\ pc[t] = "absorbing" =>
              /\ spend.calls = billed.calls
              /\ spend.cost + budget.cost = billed.cost
         /\ reply[t] # "rejected"

(* Served one at a time, no request is turned away on account of earlier   *)
(* ones, however many there were.                                          *)
NoForeignCeiling ==
  ~overlapped => \A t \in Busy : reply[t] # "rejected"

(* With no request in progress the reported totals are what the provider   *)
(* charged, as long as requests did not overlap: finish_request banks      *)
(* every request, also one that failed, exactly once.                      *)
SpendExact ==
  ~overlapped /\ Busy = {} => spend = billed

(* What a request is answered with is a response to its own question, in   *)
(* full, even if writers and readers of one cache entry race.              *)
ServedOwn ==
  \A t \in Threads :
    /\ reply[t] \notin {NoFile, Torn}
    /\ reply[t] \in Questions => reply[t] = asked[t]

(* A question is paid for once: unless requests overlap or the cache       *)
(* cannot be written, asking it again is answered from the cache.          *)
BilledOnce ==
  CacheOn /\ ~overlapped /\ ~refused => \A q \in Questions : times[q] <= 1

(* Why: what was paid for is in the cache, or on its way there undisturbed.*)
PaidInv ==
  CacheOn /\ ~overlapped /\ ~refused =>
    /\ \A q \in Questions :
         /\ times[q] <= 1
         /\ times[q] # 0 =>
              \/ Cached(Key[q])
              \/ \E t \in Threads :
                   asked[t] = q /\ pc[t] \in {"record", "open", "write", "rename"}
    /\ \A t \in Threads :
         /\ pc[t] \in {"check", "call"} => times[asked[t]] = 0
         /\ pc[t] = "write" => handle[t] = "tmp" /\ tmp[KeyOf(t)] = Torn
         /\ pc[t] = "rename" => tmp[KeyOf(t)] \in Questions
=============================================================================
