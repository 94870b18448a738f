-------------------------- MODULE TransportProofs --------------------------
(***************************************************************************)
(* Proofs about Transport, for any threads, groups, intervals and bounds.  *)
(***************************************************************************)
EXTENDS Transport, FiniteSets, FiniteSetTheorems, TLAPS

\* The next slot of a group comes an interval after every slot given out.
SlotInv ==
    /\ \A t \in Thread : LET g == ticket[t].group IN
         g \in Group /\ Interval[g] > 0 =>
           nextOk[g] # NoTime /\ ticket[t].time + Interval[g] <= nextOk[g]
    /\ SlotsApart

\* What a thread knows at each point of its request.
CallInv ==
    \A t \in Thread :
        /\ pc[t] # "idle" => home[t] \in Group /\ target[t] \in Group
        /\ pc[t] \in {"asleep", "issue", "answer"} =>
             ticket[t].group = target[t] /\ ticket[t].time = wakeAt[t]
        /\ pc[t] \in {"issue", "answer"} => now >= wakeAt[t] /\ hop[t] <= MaxHops
        /\ pc[t] = "backoff" => wakeAt[t] >= barred[t]
        /\ pc[t] # "backoff" => now >= barred[t]

IInv == TypeOK /\ SlotInv /\ CallInv

-----------------------------------------------------------------------------
(* Operators.                                                              *)

LEMMA MinMaxType ==
  ASSUME NEW a \in Nat, NEW b \in Nat
  PROVE  MinOf(a, b) \in Nat /\ MaxOf(a, b) \in Nat /\ MaxOf(a, b) >= a /\ MaxOf(a, b) >= b
  BY DEF MinOf, MaxOf

\* A backoff lasts at least as long as the pause the source asked for, up to
\* four times the cap.
LEMMA BackoffHeeds ==
  ASSUME NEW n, NEW asked \in RetryAfter \cup {NoTime}, NEW delay \in BackoffDelays(n, asked)
  PROVE  /\ delay \in Nat
         /\ asked # NoTime =>
              MinOf(asked, 4 * BackoffCap) \in Nat /\ delay >= MinOf(asked, 4 * BackoffCap)
  <1>1. PICK d \in 0..BackoffCap : delay = Delay(d, asked)
    BY DEF BackoffDelays
  <1>2. d \in Nat /\ 4 * BackoffCap \in Nat
    BY TransportAssumption DEF TransportAssumption
  <1>3. CASE asked = NoTime
    BY <1>1, <1>2, <1>3 DEF Delay
  <1>4. CASE asked # NoTime
    <2>1. asked \in Nat
      BY <1>4, TransportAssumption DEF TransportAssumption
    <2> QED
      BY <1>1, <1>2, <1>4, <2>1, MinMaxType DEF Delay
  <1> QED
    BY <1>3, <1>4

-----------------------------------------------------------------------------
(* Steps.                                                                  *)

LEMMA InitIInv == Init => IInv
  <1> SUFFICES ASSUME Init
               PROVE  IInv
    OBVIOUS
  <1>1. TypeOK
    BY TransportAssumption DEF TransportAssumption, Init, TypeOK, Pc
  <1>2. SlotInv
    BY TransportAssumption DEF TransportAssumption, Init, SlotInv, SlotsApart, NoTicket
  <1>3. CallInv
    <2>1. now = 0 /\ \A t \in Thread : pc[t] = "idle" /\ barred[t] = 0
      BY DEF Init
    <2>2. ASSUME NEW t \in Thread
          PROVE  now >= barred[t]
      BY <1>1, <2>1 DEF TypeOK
    <2> QED
      BY <2>1, <2>2 DEF CallInv
  <1> QED
    BY <1>1, <1>2, <1>3 DEF IInv

\* Where a request ends, nothing is left of it that the invariant speaks of.
LEMMA ReturnKeeps ==
  ASSUME IInv, NEW t \in Thread, Return(t), UNCHANGED <<now, nextOk, requests, sent>>
  PROVE  IInv'
  <1> USE TransportAssumption DEF TransportAssumption, IInv, Return, Goto
  <1>1. TypeOK'
    BY DEF TypeOK, Pc
  <1>2. SlotInv'
    BY DEF TypeOK, SlotInv, SlotsApart, NoTicket
  <1>3. CallInv'
    BY DEF TypeOK, CallInv, Pc
  <1> QED
    BY <1>1, <1>2, <1>3

\* A reservation moves the next slot past the one it takes.
LEMMA ReserveKeeps ==
  ASSUME IInv, NEW t \in Thread, Reserve(t)
  PROVE  IInv'
  <1> USE TransportAssumption DEF TransportAssumption
  <1> DEFINE g == target[t]
             time == SlotTime(g)
  <1>0. TypeOK /\ SlotInv /\ CallInv
    BY DEF IInv
  <1>1. /\ g \in Group /\ now \in Nat /\ Interval[g] \in Nat
        /\ time \in Nat /\ time >= now
        /\ Interval[g] > 0 /\ nextOk[g] # NoTime => time >= nextOk[g]
    <2>1. g \in Group /\ now \in Nat /\ Interval[g] \in Nat /\ nextOk[g] \in Nat \cup {NoTime}
      BY <1>0 DEF Reserve, CallInv, TypeOK
    <2>2. Earliest(g) \in Nat /\ (nextOk[g] # NoTime => Earliest(g) = nextOk[g])
      BY <2>1 DEF Earliest
    <2>3. CASE Interval[g] = 0
      BY <2>1, <2>3 DEF SlotTime
    <2>4. CASE Interval[g] # 0
      <3>1. time = MaxOf(now, Earliest(g))
        BY <2>4 DEF SlotTime
      <3>2. time \in Nat /\ time >= now /\ time >= Earliest(g)
        BY <2>1, <2>2, <3>1, MinMaxType
      <3> QED
        BY <2>1, <2>2, <3>2
    <2> QED
      BY <2>3, <2>4
  <1>2. /\ pc[t] = "limiter" /\ pc' = [pc EXCEPT ![t] = "asleep"]
        /\ wakeAt' = [wakeAt EXCEPT ![t] = time]
        /\ ticket' = [ticket EXCEPT ![t] = [group |-> g, time |-> time]]
        /\ nextOk' = IF Interval[g] = 0 THEN nextOk
                     ELSE [nextOk EXCEPT ![g] = time + Interval[g]]
        /\ UNCHANGED <<now, attempt, hop, home, target, requests, barred, sent>>
    BY DEF Reserve, Goto, Budget
  <1> HIDE DEF time
  <1>3. TypeOK'
    BY <1>0, <1>1, <1>2 DEF TypeOK, Pc
  <1>4. CallInv'
    BY <1>0, <1>1, <1>2 DEF CallInv, TypeOK
  <1>5. CASE Interval[g] = 0
    <2>1. nextOk' = nextOk
      BY <1>2, <1>5
    <2>2. SlotsApart'
      BY <1>0, <1>1, <1>2, <1>3, <1>5 DEF SlotInv, SlotsApart, TypeOK, NoTicket
    <2> QED
      BY <1>0, <1>1, <1>2, <1>3, <1>4, <1>5, <2>1, <2>2 DEF IInv, SlotInv, TypeOK
  <1>6. CASE Interval[g] > 0
    <2>1. nextOk' = [nextOk EXCEPT ![g] = time + Interval[g]]
      BY <1>1, <1>2, <1>6
    <2>2. ASSUME NEW u \in Thread \ {t}, ticket[u].group = g
          PROVE  ticket[u].time \in Nat /\ ticket[u].time + Interval[g] <= time
      BY <1>0, <1>1, <1>6, <2>2 DEF SlotInv, TypeOK, NoTicket
    <2>3. SlotsApart'
      BY <1>0, <1>1, <1>2, <1>3, <2>2 DEF SlotInv, SlotsApart, TypeOK, NoTicket
    <2>4. SlotInv'
      BY <1>0, <1>1, <1>2, <1>6, <2>1, <2>2, <2>3 DEF SlotInv, TypeOK, NoTicket
    <2> QED
      BY <1>3, <1>4, <2>4 DEF IInv
  <1> QED
    BY <1>1, <1>5, <1>6

LEMMA StepKeeps ==
  ASSUME IInv, [Next]_vars
  PROVE  IInv'
  <1> USE TransportAssumption DEF TransportAssumption
  <1>0. TypeOK /\ SlotInv /\ CallInv
    BY DEF IInv
  <1>1. ASSUME UNCHANGED <<ticket, nextOk>>
        PROVE  SlotInv'
    BY <1>0, <1>1 DEF SlotInv, SlotsApart
  <1>2. ASSUME NEW t \in Thread, NEW g \in Group, Request(t, g)
        PROVE  IInv'
    <2>1. TypeOK' /\ CallInv'
      BY <1>0, <1>2 DEF Request, Goto, TypeOK, CallInv, Pc
    <2> QED
      BY <1>1, <1>2, <2>1 DEF IInv, Request
  <1>3. ASSUME NEW t \in Thread, SleepEnds(t)
        PROVE  IInv'
    <2>1. TypeOK' /\ CallInv'
      BY <1>0, <1>3 DEF SleepEnds, Goto, TypeOK, CallInv, Pc
    <2> QED
      BY <1>1, <1>3, <2>1 DEF IInv, SleepEnds
  <1>4. ASSUME NEW t \in Thread, Send(t)
        PROVE  IInv'
    <2>1. TypeOK' /\ CallInv'
      BY <1>0, <1>4 DEF Send, Goto, TypeOK, CallInv, Pc
    <2> QED
      BY <1>1, <1>4, <2>1 DEF IInv, Send
  <1>5. ASSUME NEW t \in Thread, RedirectRefused(t) \/ Done(t)
        PROVE  IInv'
    BY <1>5, ReturnKeeps DEF RedirectRefused, Done
  <1>6. ASSUME NEW t \in Thread, NEW g \in Group, Redirect(t, g)
        PROVE  IInv'
    <2>1. TypeOK' /\ CallInv'
      BY <1>0, <1>6 DEF Redirect, Goto, TypeOK, CallInv, Pc
    <2> QED
      BY <1>1, <1>6, <2>1 DEF IInv, Redirect
  <1>7. ASSUME NEW t \in Thread, NEW asked \in RetryAfter \cup {NoTime}, Fail(t, asked)
        PROVE  IInv'
    <2>1. CASE RetriesLeft(t)
      <3>1. PICK delay \in BackoffDelays(attempt[t] + 1, asked) :
              wakeAt' = [wakeAt EXCEPT ![t] = now + delay]
        BY <1>7, <2>1 DEF Fail
      <3> DEFINE until == IF asked = NoTime THEN 0 ELSE now + MinOf(asked, 4 * BackoffCap)
      <3>2. now \in Nat /\ delay \in Nat /\ until \in Nat /\ until <= now + delay
        BY <1>0, <3>1, BackoffHeeds DEF TypeOK
      <3>3. /\ pc' = [pc EXCEPT ![t] = "backoff"] /\ pc[t] = "answer"
            /\ attempt' = [attempt EXCEPT ![t] = @ + 1]
            /\ barred' = [barred EXCEPT ![t] = until]
            /\ UNCHANGED <<now, nextOk, hop, home, target, ticket, requests, sent>>
        BY <1>7, <2>1 DEF Fail, Goto
      <3> HIDE DEF until
      <3>4. TypeOK'
        BY <1>0, <2>1, <3>1, <3>2, <3>3 DEF TypeOK, RetriesLeft, Pc
      <3>5. CallInv'
        BY <1>0, <3>1, <3>2, <3>3 DEF TypeOK, CallInv
      <3> QED
        BY <1>1, <3>3, <3>4, <3>5 DEF IInv
    <2>2. CASE ~RetriesLeft(t)
      BY <1>7, <2>2, ReturnKeeps DEF Fail
    <2> QED
      BY <2>1, <2>2
  <1>8. ASSUME NEW t \in Thread, BackoffEnds(t)
        PROVE  IInv'
    <2>1. TypeOK' /\ CallInv'
      BY <1>0, <1>8 DEF BackoffEnds, Goto, TypeOK, CallInv, Pc
    <2> QED
      BY <1>1, <1>8, <2>1 DEF IInv, BackoffEnds
  <1>9. CASE Tick
    <2>1. TypeOK' /\ CallInv'
      BY <1>0, <1>9 DEF Tick, TypeOK, CallInv
    <2> QED
      BY <1>1, <1>9, <2>1 DEF IInv, Tick
  <1>10. CASE UNCHANGED vars
    BY <1>0, <1>1, <1>10 DEF IInv, TypeOK, CallInv, vars
  <1> QED
    BY <1>2, <1>3, <1>4, <1>5, <1>6, <1>7, <1>8, <1>9, <1>10, ReserveKeeps DEF Next, ThreadStep

-----------------------------------------------------------------------------
(* Slots and requests counted.                                             *)

\* The threads that hold a slot of g and have not sent yet, and those of them
\* whose slot has come by a given time.
Held(g) == {t \in Thread : pc[t] \in {"asleep", "issue"} /\ ticket[t].group = g}
HeldBy(g, time) == {t \in Held(g) : ticket[t].time <= time}

\* The requests that can have reached g by a given time.
SentBy(g, time) == sent[g] + Cardinality(HeldBy(g, time))

\* Every slot of g lies an interval after the one before, so that the slots up
\* to any time are few enough, and the next one comes after all of them.
RateOf(g) ==
    /\ IsFiniteSet(Held(g))
    /\ Interval[g] > 0 =>
         /\ nextOk[g] = NoTime => sent[g] = 0 /\ Held(g) = {}
         /\ nextOk[g] # NoTime => (sent[g] + Cardinality(Held(g))) * Interval[g] <= nextOk[g]
         /\ \A time \in Nat :
              time >= now /\ SentBy(g, time) > 0 => (SentBy(g, time) - 1) * Interval[g] <= time

RateInv == \A g \in Group : RateOf(g)

LEMMA TimesMonotone ==
  ASSUME NEW m \in Nat, NEW n \in Nat, NEW i \in Nat, m <= n
  PROVE  m * i \in Nat /\ n * i \in Nat /\ m * i <= n * i /\ (n + 1) * i = n * i + i
  OBVIOUS

LEMMA HeldCount ==
  ASSUME NEW g \in Group, IInv, IsFiniteSet(Held(g)), NEW time
  PROVE  /\ IsFiniteSet(HeldBy(g, time)) /\ Cardinality(HeldBy(g, time)) \in Nat
         /\ Cardinality(Held(g)) \in Nat /\ sent[g] \in Nat /\ SentBy(g, time) \in Nat
         /\ Cardinality(HeldBy(g, time)) <= Cardinality(Held(g))
  <1>1. HeldBy(g, time) \subseteq Held(g)
    BY DEF HeldBy
  <1>2. /\ IsFiniteSet(HeldBy(g, time)) /\ Cardinality(HeldBy(g, time)) \in Nat
        /\ Cardinality(Held(g)) \in Nat /\ Cardinality(HeldBy(g, time)) <= Cardinality(Held(g))
    BY <1>1, FS_Subset, FS_CardinalityType
  <1>3. sent[g] \in Nat
    BY DEF IInv, TypeOK
  <1> QED
    BY <1>2, <1>3 DEF SentBy

\* Slots are taken by Reserve and used by Send; other steps at most give them up.
LEMMA HeldChange ==
  ASSUME IInv, [Next]_vars
  PROVE  \/ \E t \in Thread : Reserve(t) \/ Send(t)
         \/ /\ UNCHANGED <<nextOk, sent>> /\ now' >= now
            /\ \A t \in Thread : pc'[t] \in {"asleep", "issue"} =>
                 pc[t] \in {"asleep", "issue"} /\ ticket'[t] = ticket[t]
  <1>0. /\ pc \in [Thread -> Pc] /\ now \in Nat
        /\ ticket \in [Thread -> [group : Group, time : Nat] \cup {NoTicket}]
    BY DEF IInv, TypeOK
  <1> SUFFICES ASSUME ~\E t \in Thread : Reserve(t) \/ Send(t)
               PROVE  /\ UNCHANGED <<nextOk, sent>> /\ now' >= now
                      /\ \A t \in Thread : pc'[t] \in {"asleep", "issue"} =>
                           pc[t] \in {"asleep", "issue"} /\ ticket'[t] = ticket[t]
    OBVIOUS
  <1>1. ASSUME NEW t \in Thread, RedirectRefused(t) \/ Done(t)
        PROVE  /\ UNCHANGED <<nextOk, sent, now>> /\ pc' = [pc EXCEPT ![t] = "idle"]
               /\ ticket' = [ticket EXCEPT ![t] = NoTicket]
    BY <1>1 DEF RedirectRefused, Done, Return, Goto
  <1>2. ASSUME NEW t \in Thread, SleepEnds(t)
        PROVE  /\ UNCHANGED <<nextOk, sent, now, ticket>> /\ pc[t] = "asleep"
               /\ pc' = [pc EXCEPT ![t] = "issue"]
    BY <1>2 DEF SleepEnds, Goto
  <1>3. ASSUME NEW t \in Thread,
               \/ \E g \in Group : Request(t, g) \/ Redirect(t, g)
               \/ BackoffEnds(t)
        PROVE  UNCHANGED <<nextOk, sent, now, ticket>> /\ pc' = [pc EXCEPT ![t] = "limiter"]
    BY <1>3 DEF Request, Redirect, BackoffEnds, Goto
  <1>4. ASSUME NEW t \in Thread, NEW asked \in RetryAfter \cup {NoTime}, Fail(t, asked)
        PROVE  /\ UNCHANGED <<nextOk, sent, now>>
               /\ \/ pc' = [pc EXCEPT ![t] = "backoff"] /\ UNCHANGED ticket
                  \/ /\ pc' = [pc EXCEPT ![t] = "idle"]
                     /\ ticket' = [ticket EXCEPT ![t] = NoTicket]
    BY <1>4 DEF Fail, Return, Goto
  <1>5. CASE Tick \/ UNCHANGED vars
    BY <1>0, <1>5 DEF Tick, vars
  <1> QED
    BY <1>0, <1>1, <1>2, <1>3, <1>4, <1>5 DEF Next, ThreadStep

\* Where no slot is taken or used, the counts can only fall.
LEMMA QuietKeepsRate ==
  ASSUME IInv, IInv', RateInv, UNCHANGED <<nextOk, sent>>, now' >= now,
         \A t \in Thread : pc'[t] \in {"asleep", "issue"} =>
           pc[t] \in {"asleep", "issue"} /\ ticket'[t] = ticket[t]
  PROVE  RateInv'
  <1> SUFFICES ASSUME NEW g \in Group
               PROVE  RateOf(g)'
    BY DEF RateInv
  <1>0. Interval[g] \in Nat /\ now \in Nat /\ now' \in Nat
    BY TransportAssumption DEF TransportAssumption, IInv, TypeOK
  <1>1. Held(g)' \subseteq Held(g) /\ IsFiniteSet(Held(g))
    BY DEF Held, RateInv, RateOf
  <1>2. IsFiniteSet(Held(g)') /\ Cardinality(Held(g)') <= Cardinality(Held(g))
        /\ Cardinality(Held(g)') \in Nat /\ Cardinality(Held(g)) \in Nat
    BY <1>1, FS_Subset, FS_CardinalityType
  <1>3. sent'[g] = sent[g] /\ nextOk'[g] = nextOk[g] /\ sent[g] \in Nat
    BY DEF IInv, TypeOK
  <1>4. ASSUME Interval[g] > 0, nextOk[g] # NoTime
        PROVE  (sent[g] + Cardinality(Held(g)')) * Interval[g] <= nextOk[g]
    <2>1. /\ (sent[g] + Cardinality(Held(g))) * Interval[g] <= nextOk[g]
          /\ nextOk[g] \in Nat
      BY <1>4 DEF RateInv, RateOf, IInv, TypeOK
    <2>2. /\ (sent[g] + Cardinality(Held(g)')) * Interval[g] \in Nat
          /\ (sent[g] + Cardinality(Held(g))) * Interval[g] \in Nat
          /\ (sent[g] + Cardinality(Held(g)')) * Interval[g]
               <= (sent[g] + Cardinality(Held(g))) * Interval[g]
      BY <1>0, <1>2, <1>3, TimesMonotone
    <2> QED
      BY <2>1, <2>2
  <1>5. ASSUME Interval[g] > 0, NEW time \in Nat, time >= now', SentBy(g, time)' > 0
        PROVE  (SentBy(g, time)' - 1) * Interval[g] <= time
    <2>1. HeldBy(g, time)' \subseteq HeldBy(g, time)
      BY <1>1 DEF HeldBy, Held
    <2>2. IsFiniteSet(HeldBy(g, time)) /\ SentBy(g, time) \in Nat
          /\ Cardinality(HeldBy(g, time)) \in Nat
      BY <1>1, HeldCount
    <2>3. Cardinality(HeldBy(g, time)') <= Cardinality(HeldBy(g, time))
          /\ Cardinality(HeldBy(g, time)') \in Nat
      BY <2>1, <2>2, FS_Subset, FS_CardinalityType
    <2>4. SentBy(g, time)' \in Nat /\ SentBy(g, time)' <= SentBy(g, time)
      BY <1>3, <2>2, <2>3 DEF SentBy
    <2>5. (SentBy(g, time) - 1) * Interval[g] <= time
      <3>1. time >= now /\ SentBy(g, time) > 0
        BY <1>0, <1>5, <2>2, <2>4
      <3> QED
        BY <1>5, <3>1 DEF RateInv, RateOf
    <2>6. /\ SentBy(g, time)' - 1 \in Nat /\ SentBy(g, time) - 1 \in Nat
          /\ SentBy(g, time)' - 1 <= SentBy(g, time) - 1
      BY <1>5, <2>2, <2>4
    <2>7. /\ (SentBy(g, time)' - 1) * Interval[g] \in Nat
          /\ (SentBy(g, time) - 1) * Interval[g] \in Nat
          /\ (SentBy(g, time)' - 1) * Interval[g] <= (SentBy(g, time) - 1) * Interval[g]
      BY <1>0, <2>6, TimesMonotone
    <2> QED
      BY <2>5, <2>7
  <1>6. ASSUME Interval[g] > 0, nextOk[g] = NoTime
        PROVE  sent[g] = 0 /\ Held(g)' = {}
    BY <1>1, <1>6 DEF RateInv, RateOf
  <1> QED
    BY <1>2, <1>3, <1>4, <1>5, <1>6 DEF RateOf

\* The slot that a wait reserves comes no sooner than the next one of its group.
LEMMA SlotOfReserve ==
  ASSUME IInv, NEW t \in Thread, Reserve(t), Interval[target[t]] > 0
  PROVE  LET g == target[t]
         IN  /\ g \in Group /\ SlotTime(g) \in Nat /\ SlotTime(g) >= now /\ t \notin Held(g)
             /\ nextOk[g] # NoTime => SlotTime(g) >= nextOk[g]
             /\ nextOk' = [nextOk EXCEPT ![g] = SlotTime(g) + Interval[g]]
             /\ ticket' = [ticket EXCEPT ![t] = [group |-> g, time |-> SlotTime(g)]]
             /\ pc' = [pc EXCEPT ![t] = "asleep"] /\ UNCHANGED <<now, sent>>
  <1> DEFINE g == target[t]
  <1>1. g \in Group /\ now \in Nat /\ nextOk[g] \in Nat \cup {NoTime}
    BY DEF Reserve, IInv, CallInv, TypeOK
  <1>2. Earliest(g) \in Nat /\ (nextOk[g] # NoTime => Earliest(g) = nextOk[g])
    BY <1>1 DEF Earliest
  <1>3. SlotTime(g) = MaxOf(now, Earliest(g))
    BY DEF SlotTime
  <1>4. SlotTime(g) \in Nat /\ SlotTime(g) >= now /\ SlotTime(g) >= Earliest(g)
    BY <1>1, <1>2, <1>3, MinMaxType
  <1> QED
    BY <1>1, <1>2, <1>4 DEF Reserve, Budget, Goto, Held

\* A step that leaves the slots of a group alone leaves its counts alone.
LEMMA OtherGroup ==
  ASSUME IInv, RateInv, NEW g \in Group, now' = now, nextOk'[g] = nextOk[g],
         sent'[g] = sent[g], Held(g)' = Held(g), \A u \in Held(g) : ticket'[u] = ticket[u]
  PROVE  RateOf(g)'
  <1>1. ASSUME NEW time \in Nat
        PROVE  SentBy(g, time)' = SentBy(g, time)
    <2>1. HeldBy(g, time)' = HeldBy(g, time)
      BY DEF HeldBy
    <2> QED
      BY <2>1 DEF SentBy
  <1> QED
    BY <1>1 DEF RateInv, RateOf

LEMMA ReserveKeepsRate ==
  ASSUME IInv, IInv', RateInv, NEW t \in Thread, Reserve(t)
  PROVE  RateInv'
  <1>a. PICK g \in Group : g = target[t]
    BY DEF Reserve, IInv, CallInv
  <1> DEFINE i == Interval[g]
             slot == SlotTime(g)
  <1>0. /\ g = target[t] /\ i \in Nat /\ now \in Nat /\ pc \in [Thread -> Pc]
        /\ ticket \in [Thread -> [group : Group, time : Nat] \cup {NoTicket}]
        /\ ticket' \in [Thread -> [group : Group, time : Nat] \cup {NoTicket}]
        /\ nextOk \in [Group -> Nat \cup {NoTime}]
    BY <1>a, TransportAssumption DEF TransportAssumption, Reserve, IInv, TypeOK
  <1>1. /\ ticket' = [ticket EXCEPT ![t] = [group |-> g, time |-> slot]] /\ pc[t] = "limiter"
        /\ pc' = [pc EXCEPT ![t] = "asleep"] /\ UNCHANGED <<now, sent>>
        /\ nextOk' = IF i = 0 THEN nextOk ELSE [nextOk EXCEPT ![g] = slot + i]
    BY <1>a DEF Reserve, Budget, Goto
  <1>2. Held(g)' = Held(g) \cup {t} /\ t \notin Held(g)
    BY <1>0, <1>1 DEF Held
  <1>3. IsFiniteSet(Held(g)) /\ IsFiniteSet(Held(g)')
        /\ Cardinality(Held(g)') = Cardinality(Held(g)) + 1
    BY <1>0, <1>2, FS_AddElement DEF RateInv, RateOf
  <1>4. ASSUME NEW h \in Group \ {g}
        PROVE  /\ nextOk'[h] = nextOk[h] /\ Held(h)' = Held(h)
               /\ \A u \in Held(h) : ticket'[u] = ticket[u]
    BY <1>0, <1>1 DEF Held
  <1>5. ASSUME i > 0
        PROVE  /\ nextOk'[g] \in Nat /\ nextOk'[g] # NoTime
               /\ (sent'[g] + Cardinality(Held(g)')) * i <= nextOk'[g]
               /\ \A time \in Nat :
                    time >= now' /\ SentBy(g, time)' > 0 => (SentBy(g, time)' - 1) * i <= time
    <2> DEFINE all == sent[g] + Cardinality(Held(g))
    <2>1. /\ slot \in Nat /\ slot >= now /\ nextOk'[g] = slot + i
          /\ nextOk[g] # NoTime => slot >= nextOk[g]
      BY <1>0, <1>5, SlotOfReserve
    <2>2. all \in Nat /\ sent[g] \in Nat /\ Cardinality(Held(g)) \in Nat
      BY <1>0, <1>3, HeldCount
    <2>3. all * i \in Nat /\ (all + 1) * i = all * i + i
      BY <1>0, <2>2, TimesMonotone
    <2>4. all * i <= slot
      <3>1. CASE nextOk[g] = NoTime
        <4>1. all = 0
          BY <1>0, <1>5, <3>1, FS_EmptySet DEF RateInv, RateOf
        <4> QED
          BY <1>0, <2>1, <4>1
      <3>2. CASE nextOk[g] # NoTime
        <4>1. all * i <= nextOk[g] /\ nextOk[g] \in Nat
          BY <1>0, <1>5, <3>2 DEF RateInv, RateOf
        <4> QED
          BY <2>1, <2>3, <3>2, <4>1
      <3> QED
        BY <3>1, <3>2
    <2>5. (sent'[g] + Cardinality(Held(g)')) * i <= nextOk'[g]
      <3>1. sent'[g] + Cardinality(Held(g)') = all + 1
        BY <1>1, <1>3, <2>2
      <3> QED
        BY <1>0, <2>1, <2>3, <2>4, <3>1
    <2>6. ASSUME NEW time \in Nat, time >= now', SentBy(g, time)' > 0
          PROVE  (SentBy(g, time)' - 1) * i <= time
      <3>1. CASE time < slot
        <4>1. HeldBy(g, time)' = HeldBy(g, time)
          <5>1. ticket'[t].time = slot /\ \A u \in Held(g) : ticket'[u] = ticket[u]
            BY <1>0, <1>1, <1>2 DEF Held
          <5>2. ~(slot <= time)
            BY <2>1, <3>1
          <5> QED
            BY <1>2, <5>1, <5>2 DEF HeldBy
        <4>2. SentBy(g, time)' = SentBy(g, time)
          BY <1>1, <4>1 DEF SentBy
        <4> QED
          BY <1>0, <1>1, <1>5, <2>6, <4>2 DEF RateInv, RateOf
      <3>2. CASE time >= slot
        <4>1. SentBy(g, time)' <= all + 1 /\ SentBy(g, time)' \in Nat
          <5>1. HeldBy(g, time)' \subseteq Held(g)'
            BY DEF HeldBy
          <5>2. /\ Cardinality(HeldBy(g, time)') \in Nat
                /\ Cardinality(HeldBy(g, time)') <= Cardinality(Held(g)) + 1
            BY <1>3, <5>1, FS_Subset, FS_CardinalityType
          <5> QED
            BY <1>1, <2>2, <5>2 DEF SentBy
        <4>2. SentBy(g, time)' - 1 \in Nat /\ SentBy(g, time)' - 1 <= all
          BY <2>2, <2>6, <4>1
        <4>3. /\ (SentBy(g, time)' - 1) * i <= all * i /\ (SentBy(g, time)' - 1) * i \in Nat
          BY <1>0, <2>2, <4>2, TimesMonotone
        <4> QED
          BY <2>1, <2>3, <2>4, <3>2, <4>3
      <3> QED
        BY <2>1, <3>1, <3>2
    <2>7. nextOk'[g] \in Nat
      BY <1>0, <2>1
    <2> QED
      BY <2>5, <2>6, <2>7, TransportAssumption DEF TransportAssumption
  <1> HIDE DEF slot
  <1>6. ASSUME NEW h \in Group \ {g}
        PROVE  RateOf(h)'
    BY <1>1, <1>4, OtherGroup
  <1>7. RateOf(g)'
    BY <1>0, <1>3, <1>5 DEF RateOf
  <1> QED
    BY <1>6, <1>7 DEF RateInv

\* A request goes when its slot has come: it was counted already.
LEMMA SendKeepsRate ==
  ASSUME IInv, IInv', RateInv, NEW t \in Thread, Send(t)
  PROVE  RateInv'
  <1>a. PICK g \in Group : g = target[t]
    BY DEF Send, IInv, CallInv
  <1> DEFINE i == Interval[g]
  <1>0. /\ g = target[t] /\ i \in Nat /\ now \in Nat /\ pc \in [Thread -> Pc]
        /\ nextOk \in [Group -> Nat \cup {NoTime}] /\ sent \in [Group -> Nat]
        /\ ticket[t].group = g /\ ticket[t].time <= now /\ ticket[t].time \in Nat
    BY <1>a, TransportAssumption DEF TransportAssumption, Send, IInv, CallInv, TypeOK
  <1>1. /\ pc[t] = "issue" /\ pc' = [pc EXCEPT ![t] = "answer"]
        /\ sent' = [sent EXCEPT ![g] = @ + 1] /\ UNCHANGED <<now, ticket, nextOk>>
    BY <1>a DEF Send, Goto
  <1>2. /\ t \in Held(g) /\ Held(g)' = Held(g) \ {t} /\ sent'[g] = sent[g] + 1
    BY <1>0, <1>1 DEF Held
  <1>3. /\ IsFiniteSet(Held(g)) /\ IsFiniteSet(Held(g)')
        /\ Cardinality(Held(g)') = Cardinality(Held(g)) - 1 /\ Cardinality(Held(g)) \in Nat
    BY <1>0, <1>2, FS_RemoveElement, FS_CardinalityType DEF RateInv, RateOf
  <1>4. ASSUME NEW h \in Group \ {g}
        PROVE  sent'[h] = sent[h] /\ Held(h)' = Held(h)
    BY <1>0, <1>1 DEF Held
  <1>5. ASSUME NEW time \in Nat, time >= now
        PROVE  SentBy(g, time)' = SentBy(g, time)
    <2>1. t \in HeldBy(g, time) /\ HeldBy(g, time)' = HeldBy(g, time) \ {t}
      BY <1>0, <1>1, <1>2, <1>5 DEF HeldBy
    <2>2. IsFiniteSet(HeldBy(g, time)) /\ Cardinality(HeldBy(g, time)) \in Nat
      BY <1>0, <1>3, HeldCount
    <2>3. Cardinality(HeldBy(g, time)') = Cardinality(HeldBy(g, time)) - 1
      BY <2>1, <2>2, FS_RemoveElement
    <2> QED
      BY <1>0, <1>2, <2>2, <2>3 DEF SentBy
  <1>6. ASSUME NEW h \in Group \ {g}
        PROVE  RateOf(h)'
    BY <1>1, <1>4, OtherGroup
  <1>7. RateOf(g)'
    <2>1. sent'[g] + Cardinality(Held(g)') = sent[g] + Cardinality(Held(g))
      BY <1>0, <1>2, <1>3
    <2>2. nextOk[g] # NoTime \/ i = 0
      BY <1>0, <1>2 DEF RateInv, RateOf
    <2> QED
      BY <1>0, <1>1, <1>3, <1>5, <2>1, <2>2 DEF RateInv, RateOf
  <1> QED
    BY <1>6, <1>7 DEF RateInv

\* The layer is inductive over IInv.
LEMMA StepKeepsRate ==
  ASSUME IInv, RateInv, [Next]_vars
  PROVE  RateInv'
  BY StepKeeps, HeldChange, QuietKeepsRate, ReserveKeepsRate, SendKeepsRate

LEMMA InitRateInv == Init => RateInv
  <1> SUFFICES ASSUME Init, NEW g \in Group
               PROVE  RateOf(g)
    BY DEF RateInv
  <1>1. Held(g) = {} /\ sent[g] = 0 /\ nextOk[g] = NoTime
    BY DEF Init, Held
  <1>2. ASSUME NEW time \in Nat
        PROVE  SentBy(g, time) = 0
    BY <1>1, FS_EmptySet DEF SentBy, HeldBy
  <1> QED
    BY <1>1, <1>2, FS_EmptySet DEF RateOf

-----------------------------------------------------------------------------
(* Theorems.                                                               *)

\* The inductive invariant of the transport holds in every reachable state.
THEOREM Invariance == Spec => []IInv
  BY InitIInv, StepKeeps, PTL DEF Spec

\* Loop counters, locals and slots of request and _issue keep to their domains;
\* no request is attempted more than max_retries times again.
THEOREM TypeCorrect == Spec => []TypeOK
  BY Invariance, PTL DEF IInv

\* RateLimiter.wait gives no two threads slots closer than the interval of
\* their group, for any number of threads and any readings of the clock.
THEOREM SlotsNeverMeet == Spec => []SlotsApart
  BY Invariance, PTL DEF IInv, SlotInv

\* Every request, retry and redirect of Transport waits for a slot of the very
\* group it goes to.
THEOREM EveryRequestIsCharged == Spec => []SentInBudget
  <1>1. IInv => SentInBudget
    BY DEF IInv, TypeOK, CallInv, SentInBudget
  <1> QED
    BY Invariance, <1>1, PTL

\* The slots and the requests that use them stay within the rate.
LEMMA RateInvariance == Spec => []RateInv
  BY Invariance, InitRateInv, StepKeepsRate, PTL DEF Spec

\* RateLimiter: a source never sees more requests than its interval allows in
\* the time that has passed, with any number of threads, retries and redirects.
THEOREM RateIsKept == Spec => []RateHolds
  <1>1. IInv /\ RateInv => RateHolds
    <2> SUFFICES ASSUME IInv, RateInv, NEW g \in Group, sent[g] > 0
                 PROVE  (sent[g] - 1) * Interval[g] <= now
      BY DEF RateHolds
    <2>0. Interval[g] \in Nat /\ now \in Nat /\ sent[g] \in Nat /\ IsFiniteSet(Held(g))
      BY TransportAssumption DEF TransportAssumption, IInv, TypeOK, RateInv, RateOf
    <2>1. CASE Interval[g] = 0
      BY <2>0, <2>1
    <2>2. CASE Interval[g] > 0
      <3> DEFINE n == SentBy(g, now)
      <3>1. n \in Nat /\ sent[g] <= n
        BY <2>0, HeldCount DEF SentBy
      <3>2. (n - 1) * Interval[g] <= now
        BY <2>0, <2>2, <3>1 DEF RateInv, RateOf
      <3> HIDE DEF n
      <3>3. /\ (sent[g] - 1) * Interval[g] \in Nat /\ (n - 1) * Interval[g] \in Nat
            /\ (sent[g] - 1) * Interval[g] <= (n - 1) * Interval[g]
        <4>1. sent[g] - 1 \in Nat /\ n - 1 \in Nat /\ sent[g] - 1 <= n - 1
          BY <2>0, <3>1
        <4> QED
          BY <2>0, <4>1, TimesMonotone
      <3> QED
        BY <2>0, <3>2, <3>3
    <2> QED
      BY <2>0, <2>1, <2>2
  <1> QED
    BY Invariance, RateInvariance, <1>1, PTL

\* _backoff_delay and the limiter together never send a request again during
\* the pause its source asked for, up to four times the cap.
THEOREM PauseIsKept == Spec => []PauseKept
  <1>1. IInv => PauseKept
    BY DEF IInv, CallInv, PauseKept
  <1> QED
    BY Invariance, <1>1, PTL
=============================================================================
