----------------------------- MODULE Transport -----------------------------
(***************************************************************************)
(* The transport of reports_fetcher (downloader.py): threads that send     *)
(* requests to the sources, the rate limiter they share, the retry loop    *)
(* and the redirects that are followed by hand.                            *)
(*                                                                         *)
(* A Group is a source group, all hosts of which share one budget.  Times  *)
(* are readings of the monotonic clock in any unit.                        *)
(***************************************************************************)
EXTENDS Integers

CONSTANTS Thread,       \* threads that send requests
          Group,        \* source groups
          Interval,     \* config: source_intervals
          MaxRetries,   \* config: max_retries
          MaxHops,      \* _MAX_REDIRECT_HOPS
          BackoffBase,  \* _BACKOFF_BASE_SECONDS
          BackoffCap,   \* _BACKOFF_CAP_SECONDS
          RetryAfter,   \* values of Retry-After that sources send
          NoGroup,
          NoTime,       \* no reading, no Retry-After
          MaxRequest,   \* bound: requests in one behaviour
          MaxTime       \* bound: the last reading of the clock

ASSUME TransportAssumption ==
    /\ NoTime \notin Nat /\ NoGroup \notin Group
    /\ Interval \in [Group -> Nat] /\ RetryAfter \subseteq Nat
    /\ MaxRetries \in Nat /\ MaxHops \in Nat /\ BackoffBase \in Nat /\ BackoffCap \in Nat
    /\ MaxRequest \in Nat /\ MaxTime \in Nat

VARIABLES
    now,         \* the clock
    nextOk,      \* RateLimiter._next_ok
    pc,
    attempt, hop,   \* counters of the loops of request and _issue
    home,        \* group of the request
    target,      \* group of the URL that comes next
    ticket,      \* what the last wait reserved: a group and a time
    wakeAt,      \* end of the sleep a thread is in
    requests,
    \* history, read by properties only
    barred,      \* until when the last answer asked the thread to stay away
    sent         \* requests that have gone to each group

vars == <<now, nextOk, pc, attempt, hop, home, target, ticket, wakeAt, requests, barred, sent>>

Pc == {"idle", "limiter", "asleep", "issue", "answer", "backoff"}

NoTicket == [group |-> NoGroup, time |-> NoTime]

MinOf(a, b) == IF a <= b THEN a ELSE b
MaxOf(a, b) == IF a >= b THEN a ELSE b

Init ==
    /\ now = 0
    /\ nextOk = [g \in Group |-> NoTime]
    /\ pc = [t \in Thread |-> "idle"]
    /\ attempt = [t \in Thread |-> 0] /\ hop = [t \in Thread |-> 0]
    /\ home = [t \in Thread |-> NoGroup] /\ target = [t \in Thread |-> NoGroup]
    /\ ticket = [t \in Thread |-> NoTicket]
    /\ wakeAt = [t \in Thread |-> 0]
    /\ requests = 0
    /\ barred = [t \in Thread |-> 0]
    /\ sent = [g \in Group |-> 0]

Goto(t, label) == pc' = [pc EXCEPT ![t] = label]

\* request returns or raises; its locals go with it.
Return(t) ==
    /\ Goto(t, "idle")
    /\ home' = [home EXCEPT ![t] = NoGroup] /\ target' = [target EXCEPT ![t] = NoGroup]
    /\ attempt' = [attempt EXCEPT ![t] = 0] /\ hop' = [hop EXCEPT ![t] = 0]
    /\ ticket' = [ticket EXCEPT ![t] = NoTicket]
    /\ wakeAt' = [wakeAt EXCEPT ![t] = 0] /\ barred' = [barred EXCEPT ![t] = 0]

\* request is called: the first attempt goes to the limiter at once.
Request(t, g) ==
    /\ pc[t] = "idle" /\ requests < MaxRequest
    /\ requests' = requests + 1
    /\ home' = [home EXCEPT ![t] = g] /\ target' = [target EXCEPT ![t] = g]
    /\ Goto(t, "limiter")
    /\ UNCHANGED <<now, nextOk, attempt, hop, ticket, wakeAt, barred, sent>>

-----------------------------------------------------------------------------
(* RateLimiter.wait: a slot is reserved under the lock, the sleep that     *)
(* leads to it is outside of it.                                           *)

\* Mutant: the interval counts from the call and not from the slot.
SlotFromNow(g) == now

Earliest(g) == IF nextOk[g] = NoTime THEN now ELSE nextOk[g]

\* Mutant: the limiter is asked for the group the request began in.
BudgetOfRequest(t) == home[t]

\* The group whose budget the coming request is charged to.
Budget(t) == target[t]

\* When the thread may go on; a group without an interval has no slots.
SlotTime(g) == IF Interval[g] = 0 THEN now ELSE MaxOf(now, Earliest(g))

Reserve(t) ==
    LET g == Budget(t)
    IN  /\ pc[t] = "limiter"
        /\ nextOk' = IF Interval[g] = 0 THEN nextOk
                     ELSE [nextOk EXCEPT ![g] = SlotTime(g) + Interval[g]]
        /\ wakeAt' = [wakeAt EXCEPT ![t] = SlotTime(g)]
        /\ ticket' = [ticket EXCEPT ![t] = [group |-> g, time |-> SlotTime(g)]]
        /\ Goto(t, "asleep")
        /\ UNCHANGED <<now, attempt, hop, home, target, requests, barred, sent>>

\* The sleep is over, now or some time ago, and the target is acceptable.
SleepEnds(t) ==
    /\ pc[t] = "asleep" /\ now >= wakeAt[t] /\ hop[t] <= MaxHops
    /\ Goto(t, "issue")
    /\ UNCHANGED <<now, nextOk, attempt, hop, home, target, ticket, wakeAt, requests, barred,
                   sent>>

\* _validate_redirect_target rejects the target, or it was one hop too many;
\* both are found out after the wait.
RedirectRefused(t) ==
    /\ pc[t] = "asleep" /\ now >= wakeAt[t] /\ hop[t] > 0
    /\ Return(t)
    /\ UNCHANGED <<now, nextOk, requests, sent>>

-----------------------------------------------------------------------------
(* _issue and the retry loop.                                              *)

Send(t) ==
    /\ pc[t] = "issue"
    /\ sent' = [sent EXCEPT ![target[t]] = @ + 1]
    /\ Goto(t, "answer")
    /\ UNCHANGED <<now, nextOk, attempt, hop, home, target, ticket, wakeAt, requests, barred>>

\* A 2xx answer is returned; a status that is not retried, a redirect without
\* a location or to an unknown host raises.
Done(t) ==
    /\ pc[t] = "answer"
    /\ Return(t)
    /\ UNCHANGED <<now, nextOk, requests, sent>>

\* A redirect to a known group goes through the limiter of that group.
Redirect(t, g) ==
    /\ pc[t] = "answer" /\ hop[t] <= MaxHops
    /\ hop' = [hop EXCEPT ![t] = @ + 1]
    /\ target' = [target EXCEPT ![t] = g]
    /\ Goto(t, "limiter")
    /\ UNCHANGED <<now, nextOk, attempt, home, ticket, wakeAt, requests, barred, sent>>

\* Mutant: the shorter of the two waits.
EagerDelay(delay, asked) == IF asked = NoTime THEN delay ELSE MinOf(delay, asked)

\* Retry-After is heeded up to four times the cap.
Delay(delay, asked) ==
    IF asked = NoTime THEN delay ELSE MaxOf(delay, MinOf(asked, 4 * BackoffCap))

\* _backoff_delay before the n-th retry: doubled each time up to the cap, and
\* by jitter as little as half of it.
BackoffDelays(n, asked) ==
    LET limit == MinOf(BackoffCap, BackoffBase * 2 ^ (n - 1))
    IN  {Delay(delay, asked) :
           delay \in {d \in 0..BackoffCap : d <= limit /\ limit <= 2 * d}}

\* Mutant: one retry too many.
RetriesLeftLoose(t) == attempt[t] <= MaxRetries

RetriesLeft(t) == attempt[t] < MaxRetries

\* A network error, or an answer 429 or 5xx, which may ask for a pause.
Fail(t, asked) ==
    /\ pc[t] = "answer"
    /\ IF RetriesLeft(t)
       THEN /\ attempt' = [attempt EXCEPT ![t] = @ + 1]
            /\ \E delay \in BackoffDelays(attempt[t] + 1, asked) :
                 wakeAt' = [wakeAt EXCEPT ![t] = now + delay]
            /\ barred' = [barred EXCEPT ![t] =
                            IF asked = NoTime THEN 0 ELSE now + MinOf(asked, 4 * BackoffCap)]
            /\ Goto(t, "backoff")
            /\ UNCHANGED <<hop, home, target, ticket>>
       ELSE Return(t)
    /\ UNCHANGED <<now, nextOk, requests, sent>>

\* Each attempt follows the redirects from the start.
BackoffEnds(t) ==
    /\ pc[t] = "backoff" /\ now >= wakeAt[t]
    /\ hop' = [hop EXCEPT ![t] = 0]
    /\ target' = [target EXCEPT ![t] = home[t]]
    /\ Goto(t, "limiter")
    /\ UNCHANGED <<now, nextOk, attempt, home, ticket, wakeAt, requests, barred, sent>>

Tick ==
    /\ now < MaxTime
    /\ now' = now + 1
    /\ UNCHANGED <<nextOk, pc, attempt, hop, home, target, ticket, wakeAt, requests, barred,
                   sent>>

ThreadStep(t) ==
    \/ Reserve(t) \/ SleepEnds(t) \/ RedirectRefused(t) \/ Send(t) \/ Done(t)
    \/ \E g \in Group : Redirect(t, g)
    \/ \E asked \in RetryAfter \cup {NoTime} : Fail(t, asked)
    \/ BackoffEnds(t)

Next ==
    \/ \E t \in Thread : (\E g \in Group : Request(t, g)) \/ ThreadStep(t)
    \/ Tick

Spec == Init /\ [][Next]_vars

-----------------------------------------------------------------------------
(* Properties.                                                             *)

TypeOK ==
    /\ now \in Nat /\ nextOk \in [Group -> Nat \cup {NoTime}]
    /\ pc \in [Thread -> Pc]
    /\ attempt \in [Thread -> 0..MaxRetries] /\ hop \in [Thread -> 0..(MaxHops + 1)]
    /\ home \in [Thread -> Group \cup {NoGroup}] /\ target \in [Thread -> Group \cup {NoGroup}]
    /\ ticket \in [Thread -> [group : Group, time : Nat] \cup {NoTicket}]
    /\ wakeAt \in [Thread -> Nat]
    /\ requests \in Nat /\ barred \in [Thread -> Nat] /\ sent \in [Group -> Nat]

\* Two threads never hold slots of one group that are closer than its
\* interval, although neither sleeps under the lock.
SlotsApart ==
    \A t, u \in Thread :
        LET g == ticket[t].group
            a == ticket[t].time
            b == ticket[u].time
        IN  t # u /\ g \in Group /\ ticket[u].group = g =>
              a + Interval[g] <= b \/ b + Interval[g] <= a

\* What a thread sends is charged to the budget of the group it goes to,
\* also after redirects and retries, and does not go before its slot.
SentInBudget ==
    \A t \in Thread : pc[t] = "issue" =>
        ticket[t].group = target[t] /\ now >= ticket[t].time

\* From outside: no more requests reach a group than its interval allows in
\* the time that has passed, whatever the threads do.
RateHolds ==
    \A g \in Group : sent[g] > 0 => (sent[g] - 1) * Interval[g] <= now

\* A source that asked for a pause gets it, up to four times the cap, before
\* the same request reaches it again.
PauseKept == \A t \in Thread : pc[t] = "issue" => now >= barred[t]
=============================================================================
