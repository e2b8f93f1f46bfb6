---------------------------- MODULE EdgarClient ----------------------------
(***************************************************************************)
(* The EDGAR client of ingest/client.py over the RateLimiter of            *)
(* ingest/rate_limit.py: threads that share one limiter list a company's   *)
(* filings, each request being retried after transient failures.           *)
(*                                                                         *)
(* Time is measured from now: lead is how far the limiter's _next_allowed  *)
(* lies ahead, rest is what a thread has left to sleep, and sends are      *)
(* remembered by their age.  A thread may oversleep by any amount.         *)
(***************************************************************************)
EXTENDS Fiscal, FiniteSets

CONSTANTS
  Threads,
  Interval,      \* min_interval
  MaxAttempts,   \* edgar_max_retries
  Backoff,       \* Backoff[n]: the wait after the n-th attempt
  Window,        \* sends older than this are forgotten (history only)
  Companies,     \* what a listing may be about, see YearEnd and ReportDate
  NoListing

ASSUME ClientAssumption ==
  /\ IsFiniteSet(Threads)
  /\ Interval \in Nat \ {0}
  /\ MaxAttempts \in Nat \ {0}
  /\ Backoff \in [1..MaxAttempts -> Nat \ {0}]
  /\ Window \in Nat

VARIABLES
  lead,       \* max(0, _next_allowed - now)
  tickers,    \* is _ticker_map there?
  pc, job, attempt, rest,   \* per thread
  latest,     \* the listing the last call to end has returned, if any
  ages,       \* history: how long ago each request was sent, newest first,
  quiet,      \* for how long none was sent on time (up to an interval), and
  overslept   \* who is asleep although its slot has passed

limiter == <<lead>>
thread  == <<pc, job, attempt, rest, latest>>
history == <<ages, quiet, overslept>>
vars    == <<limiter, tickers, thread, history>>

-----------------------------------------------------------------------------
(* A company's periodic reports of one fiscal year, by quarter.  The       *)
(* fiscal year called `year` ends `early` days before the last day of      *)
(* `month` (after it, if negative); a long year has its 53rd week in the   *)
(* last quarter.                                                           *)
YearEnd(c) == LastDayOfMonth(c.year, c.month) - c.early

PeriodEnd(c, q) ==
  IF q = 4 THEN YearEnd(c)
  ELSE YearEnd(c) - 7 * (13 * (4 - q) + (IF c.long THEN 1 ELSE 0))

(* _fiscal_year_end_month: EDGAR may have no month on record for it.       *)
EndMonth(c) == IF c.onRecord THEN c.month ELSE 12

(* reportDate, or the filing date (lag days later) of a report without.    *)
ReportDate(c, q) == PeriodEnd(c, q) + (IF q \in c.undated THEN c.lag ELSE 0)

(* What list_filings makes of them: the fiscal year and, for the 10-Qs of  *)
(* the first three quarters, the quarter.                                  *)
Annual(c) == [form |-> "10-K", year |-> FiscalYear(ReportDate(c, 4), EndMonth(c))]

Quarterly(c, q) ==
  [form    |-> "10-Q",
   year    |-> FiscalYear(ReportDate(c, q), EndMonth(c)),
   quarter |-> FiscalQuarter(ReportDate(c, q), EndMonth(c))]

Listings ==
  {[company |-> c,
    filings |-> <<Annual(c), Quarterly(c, 3), Quarterly(c, 2), Quarterly(c, 1)>>] :
   c \in Companies}

-----------------------------------------------------------------------------
Init ==
  /\ lead = 0 /\ tickers = FALSE
  /\ pc = [t \in Threads |-> "idle"]
  /\ job = [t \in Threads |-> "tickers"]
  /\ attempt = [t \in Threads |-> 0]
  /\ rest = [t \in Threads |-> 0]
  /\ latest = NoListing
  /\ ages = <<>> /\ quiet = Interval /\ overslept = {}

(* _get: the first of the attempts for a thread's next request             *)
Request(t, what) ==
  /\ pc' = [pc EXCEPT ![t] = "acquire"]
  /\ job' = [job EXCEPT ![t] = what]
  /\ attempt' = [attempt EXCEPT ![t] = 1]

(* list_filings: the submissions of a company, and the ticker map if this  *)
(* client has not fetched it yet.                                          *)
List(t) ==
  /\ pc[t] = "idle"
  /\ Request(t, IF tickers THEN "submissions" ELSE "tickers")
  /\ latest' = NoListing
  /\ UNCHANGED <<limiter, tickers, rest, history>>

(* fetch_document                                                          *)
FetchDocument(t) ==
  /\ pc[t] = "idle"
  /\ Request(t, "document")
  /\ latest' = NoListing
  /\ UNCHANGED <<limiter, tickers, rest, history>>

(* Mutant of Acquire: the next slot is reserved only from now on.          *)
AcquireFromNow(t) ==
  /\ pc[t] = "acquire"
  /\ rest' = [rest EXCEPT ![t] = lead]
  /\ lead' = Interval
  /\ pc' = [pc EXCEPT ![t] = "asleep"]
  /\ UNCHANGED <<tickers, job, attempt, latest, history>>

(* RateLimiter.acquire: reserve the next slot under the lock, sleep till   *)
(* it comes.                                                               *)
Acquire(t) ==
  /\ pc[t] = "acquire"
  /\ rest' = [rest EXCEPT ![t] = lead]
  /\ lead' = lead + Interval
  /\ pc' = [pc EXCEPT ![t] = "asleep"]
  /\ UNCHANGED <<tickers, job, attempt, latest, history>>

Send(t) ==
  /\ pc[t] = "asleep" /\ rest[t] = 0
  /\ ages' = <<0>> \o ages
  /\ quiet' = IF t \in overslept THEN quiet ELSE 0
  /\ overslept' = overslept \ {t}
  /\ pc' = [pc EXCEPT ![t] = "sent"]
  /\ UNCHANGED <<limiter, tickers, job, attempt, rest, latest>>

(* The ticker map has come; the submissions are requested.                 *)
TickersArrive(t) ==
  /\ pc[t] = "sent" /\ job[t] = "tickers"
  /\ tickers' = TRUE
  /\ Request(t, "submissions")
  /\ UNCHANGED <<limiter, rest, latest, history>>

Returns(t, result) ==
  /\ pc' = [pc EXCEPT ![t] = "idle"]
  /\ attempt' = [attempt EXCEPT ![t] = 0]
  /\ latest' = result

SubmissionsArrive(t, listing) ==
  /\ pc[t] = "sent" /\ job[t] = "submissions"
  /\ Returns(t, listing)
  /\ UNCHANGED <<limiter, tickers, job, rest, history>>

DocumentArrives(t) ==
  /\ pc[t] = "sent" /\ job[t] = "document"
  /\ Returns(t, NoListing)
  /\ UNCHANGED <<limiter, tickers, job, rest, history>>

(* resolve_ticker of a ticker that is not in the map; a 403 or another     *)
(* status that is not retried.                                             *)
Refused(t) ==
  /\ pc[t] = "sent"
  /\ Returns(t, NoListing)
  /\ tickers' \in {tickers, tickers \/ job[t] = "tickers"}
  /\ UNCHANGED <<limiter, job, rest, history>>

(* A transient failure: a status to retry, or no response at all.          *)
FailsOnce(t) ==
  /\ pc[t] = "sent" /\ attempt[t] < MaxAttempts
  /\ pc' = [pc EXCEPT ![t] = "backoff"]
  /\ rest' = [rest EXCEPT ![t] = Backoff[attempt[t]]]
  /\ UNCHANGED <<limiter, tickers, job, attempt, latest, history>>

(* The last attempt has failed: its error reaches the caller.              *)
GivesUp(t) ==
  /\ pc[t] = "sent" /\ attempt[t] = MaxAttempts
  /\ Returns(t, NoListing)
  /\ UNCHANGED <<limiter, tickers, job, rest, history>>

(* Mutant of Retry: the attempts are not counted.                          *)
RetryUncounted(t) ==
  /\ pc[t] = "backoff" /\ rest[t] = 0
  /\ pc' = [pc EXCEPT ![t] = "acquire"]
  /\ UNCHANGED <<limiter, tickers, job, attempt, rest, latest, history>>

Retry(t) ==
  /\ pc[t] = "backoff" /\ rest[t] = 0
  /\ attempt' = [attempt EXCEPT ![t] = @ + 1]
  /\ pc' = [pc EXCEPT ![t] = "acquire"]
  /\ UNCHANGED <<limiter, tickers, job, rest, latest, history>>

(* Time goes by.                                                           *)
Less(n) == IF n > 0 THEN n - 1 ELSE 0

Tick ==
  /\ lead' = Less(lead)
  /\ rest' = [t \in Threads |-> Less(rest[t])]
  /\ ages' = [i \in {k \in DOMAIN ages : ages[k] < Window} |-> ages[i] + 1]
  /\ quiet' = IF quiet < Interval THEN quiet + 1 ELSE quiet
  /\ overslept' = overslept \cup {t \in Threads : pc[t] = "asleep" /\ rest[t] = 0}
  /\ UNCHANGED <<tickers, pc, job, attempt, latest>>

-----------------------------------------------------------------------------
Answered(t) ==
  \/ TickersArrive(t)
  \/ \E listing \in Listings : SubmissionsArrive(t, listing)
  \/ DocumentArrives(t)
  \/ Refused(t)
  \/ FailsOnce(t)
  \/ GivesUp(t)

Call(t) == Acquire(t) \/ Send(t) \/ Answered(t) \/ Retry(t)

Next == Tick \/ \E t \in Threads : List(t) \/ FetchDocument(t) \/ Call(t)

(* Time passes, the scheduler runs every thread, and a request ends with a *)
(* response or with the client's timeout.                                  *)
Fairness == WF_vars(Tick) /\ \A t \in Threads : WF_vars(Call(t))

Spec == Init /\ [][Next]_vars /\ Fairness

-----------------------------------------------------------------------------
(* Types: waiting times never become negative, and no request is attempted *)
(* more often than edgar_max_retries allows.                               *)
TypeOK ==
  /\ lead \in Nat /\ tickers \in BOOLEAN
  /\ pc \in [Threads -> {"idle", "acquire", "asleep", "sent", "backoff"}]
  /\ job \in [Threads -> {"tickers", "submissions", "document"}]
  /\ attempt \in [Threads -> 0..MaxAttempts]
  /\ rest \in [Threads -> Nat]
  /\ ages \in Seq(0..Window) /\ quiet \in 0..Interval /\ overslept \subseteq Threads

(* rate_limit.py: "requests are spaced at least 1/rate apart".  Threads    *)
(* that oversleep can send closer together than that, but only as many     *)
(* requests as there are threads ever are ahead of their turn: however     *)
(* requests, retries and late wake-ups interleave, n + k + 1 sends of n    *)
(* threads take at least k intervals, so the rate holds in the long run.   *)
RateKept ==
  \A i, j \in DOMAIN ages :
    i <= j => ages[j] - ages[i] >= (j - i - Cardinality(Threads)) * Interval

(* A thread that does not oversleep is not among those: two requests sent  *)
(* on time are an interval apart, whoever sends them and whatever is sent  *)
(* late in between.                                                        *)
OnTimeSpaced ==
  [][\A t \in Threads : Send(t) /\ t \notin overslept => quiet = Interval]_vars

(* The month the year is taken to end in is the company's.                 *)
MonthKnown(c) == EndMonth(c) = c.month

(* The quarter of a 10-Q is the company's own, and so is its fiscal year,  *)
(* although 52/53-week calendars move period ends across month boundaries  *)
(* and the filing date stands in for a period that EDGAR does not give:    *)
(* "measuring the distance to year end instead tolerates that drift".      *)
QuartersRight ==
  latest # NoListing /\ MonthKnown(latest.company) =>
    \A i \in 2..4 :
      latest.filings[i] =
        [form |-> "10-Q", year |-> latest.company.year, quarter |-> 5 - i]

(* An annual report whose period is given carries the fiscal year it       *)
(* closes, if that year ends within the month on record.                   *)
AnnualRight ==
  latest # NoListing /\ MonthKnown(latest.company)
      /\ latest.company.early >= 0 /\ 4 \notin latest.company.undated =>
    latest.filings[1].year = latest.company.year

(* Filters find a report under the fiscal year and quarter its company     *)
(* gives it: fiscal_year "as the company labels it".  The code's defaults  *)
(* fall short of that in two cases, which are left out here: a company     *)
(* whose year does not end in December and whose year end EDGAR does not   *)
(* give, and an annual report filed without its period, which is labelled  *)
(* with the year it is filed in.                                           *)
LabelsRight == QuartersRight /\ AnnualRight

(* A listing ends, with filings or an error, whatever the server answers.  *)
EachCallEnds == \A t \in Threads : pc[t] # "idle" ~> pc[t] = "idle"

-----------------------------------------------------------------------------
(* What the properties rest on.  Attempts are counted while a request is   *)
(* under way, and a thread that backs off has one left.                    *)
AttemptInv ==
  \A t \in Threads :
    /\ pc[t] # "idle" => attempt[t] >= 1
    /\ pc[t] = "backoff" => attempt[t] < MaxAttempts

AgesInv == \A i, j \in DOMAIN ages : i <= j => ages[i] <= ages[j]

Asleep == {t \in Threads : pc[t] = "asleep"}

(* Every slot that is yet to come is waited for: the last one is an        *)
(* interval before the next to be given, and so on.                        *)
WaitInv ==
  \A k \in 1..lead :
    k * Interval < lead =>
      \E t \in Threads : pc[t] = "asleep" /\ rest[t] = lead - k * Interval

(* The limiter is as far ahead of a send as requests have been given slots *)
(* since, sent or not; all but one for each thread take an interval.       *)
SlotInv ==
  \A j \in DOMAIN ages :
    lead + ages[j] >= (j + Cardinality(Asleep) - Cardinality(Threads)) * Interval

(* The slots of those that are not late are apart from each other, from    *)
(* the last request that was on time and from the next slot to be given.   *)
Punctual == Asleep \ overslept

SpacedInv ==
  /\ lead + quiet >= Interval
  /\ \A t \in Punctual : lead >= rest[t] + Interval /\ rest[t] + quiet >= Interval
  /\ \A s, t \in Punctual :
       s # t => rest[s] >= rest[t] + Interval \/ rest[t] >= rest[s] + Interval

RateInv == AttemptInv /\ AgesInv /\ WaitInv /\ SlotInv /\ SpacedInv

(* A call returns what a company's reports are made into, or nothing.      *)
LatestInv == latest \in Listings \cup {NoListing}
=============================================================================
