---------------------------- MODULE FetchProofs ----------------------------
(***************************************************************************)
(* Two inductive invariants of Fetch, for any source, any number of        *)
(* fetches, failures and deadlines.  With IInv the periods of the archive  *)
(* are kept and told as they are, whatever the order of filing.  With      *)
(* OkLayer above it, over sources that file in the order of periods, the   *)
(* status ok is earned and a warm archive selects what a cold one did.     *)
(***************************************************************************)
EXTENDS Fetch, SelectionProofs

\* Before it selects, a fetch has nothing of an earlier one.
FreshInv ==
    /\ pc = "discover" => pool = {} /\ prefetched = {} /\ failures = {}
    /\ pc \in {"discover", "probe", "close"} => selected = {} /\ items = <<>>

\* A title that gives a period has the first word, in the report object and in
\* the manifest.
TitleInv ==
    \A s \in Source : TitleFact(s) # NoFact =>
        /\ fact[s] # NoFact => fact[s] = TitleFact(s)
        /\ pc \in {"probe", "prepare", "download"} => known[s] = TitleFact(s)

\* From the discovery to the preparation a report object knows what the
\* manifest knows; what is still to be probed is known to neither.
KnownInv ==
    /\ pc \in {"probe", "prepare"} => \A s \in Source : fact[s] # NoFact => known[s] = fact[s]
    /\ pc = "probe" => \A s \in pool : known[s] = NoFact

\* A report that is prepared and has not failed is told as it is kept.
ItemInv ==
    \A s \in selected : items[s] \in {"pending", "cached", "downloaded"} => known[s] = fact[s]

IInv == TypeOK /\ FreshInv /\ TitleInv /\ KnownInv /\ ItemInv

USE SourceAssumption, WorldsAssumption, PreferenceAssumption, LimitAssumption

-----------------------------------------------------------------------------
(* Facts *)

\* A true period that a title, a text or an announcement gives.
IsFactOf(f, s) == f = NoFact \/ (f.source # "unknown" /\ f.period = world[s].period)

\* The limits are numbers.
LEMMA LimitsAreNat == LastN \in Nat /\ MaxFetch \in Nat /\ MaxFault \in Nat
  OBVIOUS

\* A step that fails or does not takes no more than there is of faults.
LEMMA FaultType ==
    ASSUME TypeOK, Fault \/ NoFault
    PROVE  faults' \in 0..MaxFault /\ troubled' \in BOOLEAN
  <1>1. faults \in 0..MaxFault /\ troubled \in BOOLEAN BY DEF TypeOK
  <1>2. CASE Fault
    <2>1. faults < MaxFault /\ faults' = faults + 1 /\ troubled' = TRUE BY <1>2 DEF Fault
    <2>2. faults' \in 0..MaxFault BY <1>1, <2>1, LimitsAreNat
    <2> QED BY <2>1, <2>2
  <1>3. CASE NoFault BY <1>1, <1>3 DEF NoFault
  <1> QED BY <1>2, <1>3

\* A report of the source.
LEMMA WorldType ==
    ASSUME TypeOK, NEW s \in Source
    PROVE  world[s] \in ReportOf
  BY DEF TypeOK

\* What a report may tell of its period is of the right kind.
LEMMA FactsAreTrue ==
    ASSUME TypeOK, NEW s \in Source
    PROVE  \A f \in {NoFact, TitleFact(s), TextFact(s), Evidence(s)} :
              f \in PeriodFact /\ IsFactOf(f, s)
  <1>1. world[s].period \in Nat BY WorldType DEF ReportOf
  <1>2. \A how \in {"explicit_title", "document", "announcement_title"} :
           FactOf(s, how) \in PeriodFact /\ IsFactOf(FactOf(s, how), s)
    BY <1>1 DEF FactOf, PeriodFact, IsFactOf
  <1>3. NoFact \in PeriodFact /\ IsFactOf(NoFact, s) BY DEF NoFact, NoPeriod, PeriodFact, IsFactOf
  <1> QED BY <1>2, <1>3 DEF TitleFact, TextFact, Evidence

\* The candidates of a listing are what the selection takes.
LEMMA CandidatesType ==
    ASSUME TypeOK, NEW reports \in SUBSET Source, NEW facts \in [Source -> PeriodFact]
    PROVE  /\ IsCandidates(Candidates(reports, facts))
           /\ {r.id : r \in Candidates(reports, facts)} = reports
  <1> DEFINE cand(s) == [id |-> s, form |-> world[s].form, period |-> facts[s].period,
                 filed |-> world[s].filed, amended |-> world[s].amended, accepted |-> NoDate,
                 role |-> world[s].role, language |-> world[s].language]
             f == [s \in reports |-> cand(s)]
             C == Candidates(reports, facts)
  <1>1. C = {cand(s) : s \in reports} BY DEF Candidates
  <1>2. \A s \in reports : IsVersion(cand(s)) /\ cand(s).id = s
    <2> SUFFICES ASSUME NEW s \in reports PROVE IsVersion(cand(s)) /\ cand(s).id = s
      OBVIOUS
    <2>1. world[s] \in ReportOf /\ facts[s].period \in Nat BY WorldType DEF PeriodFact
    <2> QED BY <2>1 DEF IsVersion, ReportOf, NoDate
  <1>3. IsFiniteSet(reports) BY FS_Subset
  <1>4. IsFiniteSet(C)
    <2>1. f \in Surjection(reports, C) BY <1>1 DEF Surjection
    <2> QED BY <2>1, <1>3, FS_Surjection
  <1> HIDE DEF cand
  <1>5. (\A a \in C : IsVersion(a)) /\ \A a, b \in C : a.id = b.id => a = b BY <1>1, <1>2
  <1>6. {r.id : r \in C} = reports
    <2>1. \A s \in reports : s = cand(s).id /\ cand(s) \in C BY <1>1, <1>2
    <2>2. \A r \in C : \E s \in reports : r = cand(s) BY <1>1
    <2> HIDE DEF C
    <2>3. reports \subseteq {r.id : r \in C} BY <2>1
    <2>4. \A r \in C : r.id \in reports BY <2>1, <2>2, <1>2
    <2> QED BY <2>3, <2>4
  <1> QED BY <1>4, <1>5, <1>6 DEF IsCandidates

\* A fetch selects at most LastN of the reports it has found.
LEMMA SelectType ==
    ASSUME TypeOK, NEW reports \in SUBSET Source, NEW facts \in [Source -> PeriodFact]
    PROVE  /\ Select(reports, facts) \subseteq reports
           /\ Cardinality(Select(reports, facts)) <= LastN
  <1>1. LastN \in Nat OBVIOUS
  <1>2. /\ Select(reports, facts) \subseteq {r.id : r \in FullVersions(Candidates(reports, facts))}
        /\ Cardinality(Select(reports, facts)) <= LastN
    BY <1>1, CandidatesType, SelectionIsBounded DEF Select
  <1>3. {r.id : r \in FullVersions(Candidates(reports, facts))} \subseteq reports
    BY CandidatesType DEF FullVersions
  <1> QED BY <1>2, <1>3

-----------------------------------------------------------------------------
(* The invariant at the beginning *)

\* An archive that nothing was fetched into satisfies the invariant.
LEMMA InitInv == Init => IInv
  <1> SUFFICES ASSUME Init PROVE IInv OBVIOUS
  <1>1. \A s \in Source : fact[s] = NoFact /\ known[s] = NoFact BY DEF Init
  <1>2. TypeOK
    <2>1. fact \in [Source -> PeriodFact] /\ known \in [Source -> PeriodFact]
      BY DEF Init, NoFact, NoPeriod, PeriodFact
    <2>2. selected \subseteq listing /\ Cardinality(selected) <= LastN
      BY FS_EmptySet DEF Init
    <2>3. items \in [selected -> Item] BY DEF Init
    <2>4. \A s \in Source : \A f \in {fact[s], known[s]} : f = NoFact BY <1>1
    <2>5. fetches \in 0..MaxFetch /\ faults \in 0..MaxFault BY LimitsAreNat DEF Init
    <2>6. {truncated, refresh, late, skipped, troubled} \subseteq BOOLEAN BY DEF Init
    <2>7. world \in Worlds /\ held \subseteq Source /\ listing \subseteq Source BY DEF Init
    <2>8. pool \subseteq listing /\ prefetched \subseteq listing \ held /\ failures \subseteq listing
      BY DEF Init
    <2>9. warnings = {} /\ status = "none" /\ pc = "idle" /\ first \in ProbeForm
      BY DEF Init, ProbeForm
    <2> QED BY <2>1, <2>2, <2>3, <2>4, <2>5, <2>6, <2>7, <2>8, <2>9 DEF TypeOK
  <1>3. FreshInv BY DEF Init, FreshInv
  <1>4. TitleInv BY <1>1 DEF Init, TitleInv
  <1>5. KnownInv BY DEF Init, KnownInv
  <1>6. ItemInv BY DEF Init, ItemInv
  <1> QED BY <1>2, <1>3, <1>4, <1>5, <1>6 DEF IInv

-----------------------------------------------------------------------------
(* What the steps do to the periods of one report *)

\* The facts about one report, in any state of it.
Told(f, s) == f \in PeriodFact /\ IsFactOf(f, s)

\* The manifest's period of a report that is synchronised is the report
\* object's, and neither loses what it had.
LEMMA SyncedFacts ==
    ASSUME IInv, NEW s \in Source
    PROVE  /\ Synced(s) \in [Source -> PeriodFact]
           /\ \A t \in Source : Told(Synced(s)[t], t)
           /\ \A t \in Source \ {s} : Synced(s)[t] = known[t]
           /\ known[s] # NoFact => Synced(s)[s] = known[s]
           /\ known[s] = NoFact => Synced(s)[s] = fact[s]
  <1>1. known \in [Source -> PeriodFact] /\ fact \in [Source -> PeriodFact]
    BY DEF IInv, TypeOK
  <1>2. \A t \in Source : Told(known[t], t) /\ Told(fact[t], t)
    BY DEF IInv, TypeOK, IsFactOf, Told
  <1> QED BY <1>1, <1>2 DEF Synced, Effective, Told

\* The best period of a report is of the right kind and never takes the place
\* of another.
LEMMA BestFacts ==
    ASSUME TypeOK, NEW s \in Source, NEW facts \in [Source -> PeriodFact], Told(facts[s], s)
    PROVE  /\ Told(Best(s, facts), s)
           /\ facts[s] # NoFact => Best(s, facts) = facts[s]
  <1>1. Told(TextFact(s), s) BY FactsAreTrue DEF Told
  <1> QED BY <1>1 DEF Best, Enrichable

\* StorePeriods leaves report object and manifest with one period.
LEMMA StoreFacts ==
    ASSUME TypeOK, NEW s \in Source, NEW facts \in [Source -> PeriodFact],
           \A t \in Source : Told(facts[t], t), StorePeriods(s, facts)
    PROVE  /\ known' \in [Source -> PeriodFact] /\ fact' \in [Source -> PeriodFact]
           /\ \A t \in Source : Told(known'[t], t) /\ Told(fact'[t], t)
           /\ \A t \in Source \ {s} : known'[t] = facts[t] /\ fact'[t] = fact[t]
           /\ known'[s] = fact'[s]
           /\ facts[s] # NoFact => known'[s] = facts[s]
           /\ faults' \in 0..MaxFault /\ troubled' \in BOOLEAN
  <1>1. /\ fact \in [Source -> PeriodFact] /\ \A t \in Source : Told(fact[t], t)
    BY DEF TypeOK, IsFactOf, Told
  <1>2. Told(Best(s, facts), s) /\ (facts[s] # NoFact => Best(s, facts) = facts[s])
    BY BestFacts
  <1>3. faults' \in 0..MaxFault /\ troubled' \in BOOLEAN
    BY FaultType DEF StorePeriods
  <1>4. CASE known' = [facts EXCEPT ![s] = Best(s, facts)] /\ fact' = [fact EXCEPT ![s] = Best(s, facts)]
    BY <1>1, <1>2, <1>3, <1>4 DEF Told
  <1>5. CASE known' = facts /\ fact' = [fact EXCEPT ![s] = facts[s]]
    BY <1>1, <1>3, <1>5 DEF Told
  <1> QED BY <1>4, <1>5 DEF StorePeriods

-----------------------------------------------------------------------------
(* Types *)

SourceType == world \in Worlds /\ held \subseteq Source /\ listing \subseteq Source

FactType ==
    /\ fact \in [Source -> PeriodFact] /\ known \in [Source -> PeriodFact]
    /\ \A s \in Source : Told(fact[s], s) /\ Told(known[s], s)

ProbeType ==
    /\ pool \subseteq listing /\ failures \subseteq listing
    /\ prefetched \subseteq listing \ held

ResultType ==
    /\ selected \subseteq listing /\ Cardinality(selected) <= LastN
    /\ items \in [selected -> Item]
    /\ warnings \subseteq {"no_full", "unmerged", "language", "period_unknown", "omitted"}
    /\ status \in {"none", "ok", "partial", "empty", "failed", "raised"}

ControlType ==
    /\ truncated \in BOOLEAN /\ refresh \in BOOLEAN /\ late \in BOOLEAN
    /\ skipped \in BOOLEAN /\ troubled \in BOOLEAN
    /\ pc \in {"idle", "discover", "probe", "prepare", "download", "close"}
    /\ fetches \in 0..MaxFetch /\ faults \in 0..MaxFault
    /\ first \in ProbeForm

Types == SourceType /\ FactType /\ ProbeType /\ ResultType /\ ControlType

\* The parts of the type invariant.
LEMMA TypeParts == TypeOK <=> Types
  <1>1. ASSUME TypeOK PROVE Types
    <2>1. SourceType BY <1>1 DEF TypeOK, SourceType
    <2>2. FactType BY <1>1 DEF TypeOK, FactType, Told, IsFactOf
    <2>3. ProbeType BY <1>1 DEF TypeOK, ProbeType
    <2>4. ResultType BY <1>1 DEF TypeOK, ResultType
    <2>5. ControlType BY <1>1 DEF TypeOK, ControlType
    <2> QED BY <2>1, <2>2, <2>3, <2>4, <2>5 DEF Types
  <1>2. ASSUME Types PROVE TypeOK
    <2>1. /\ world \in Worlds /\ held \subseteq Source /\ listing \subseteq Source
          /\ pool \subseteq listing /\ prefetched \subseteq listing \ held /\ failures \subseteq listing
      BY <1>2 DEF Types, SourceType, ProbeType
    <2>2. /\ fact \in [Source -> PeriodFact] /\ known \in [Source -> PeriodFact]
          /\ \A s \in Source : \A f \in {fact[s], known[s]} :
                f = NoFact \/ (f.source # "unknown" /\ f.period = world[s].period)
      BY <1>2 DEF Types, FactType, Told, IsFactOf
    <2>3. {truncated, refresh, late, skipped, troubled} \subseteq BOOLEAN
      BY <1>2 DEF Types, ControlType
    <2> QED BY <1>2, <2>1, <2>2, <2>3 DEF Types, ResultType, ControlType, TypeOK
  <1> QED BY <1>1, <1>2

\* Steps that change no report, neither its period nor whether it is held.
LEMMA ControlSteps ==
    ASSUME IInv,
           Begin \/ Expire \/ DiscoverFails \/ SkipProbes \/ Close \/ Interrupted
    PROVE  Types'
  <1> USE DEF archive, probe, result, input
  <1>0. Types /\ FreshInv BY TypeParts DEF IInv
  <1>1. UNCHANGED <<archive, world>>
    BY DEF Begin, Expire, DiscoverFails, SkipProbes, Close, Interrupted
  <1>2. ASSUME Fault \/ NoFault
        PROVE  faults' \in 0..MaxFault /\ troubled' \in BOOLEAN
    BY <1>2, FaultType DEF IInv
  <1>3. CASE Begin
    <2>1. SourceType' BY <1>0, <1>1, <1>3 DEF Begin, Types, SourceType
    <2>2. FactType'
      <3>1. known' = [s \in Source |-> NoFact] BY <1>3 DEF Begin
      <3>2. \A s \in Source : Told(NoFact, s)' BY FactsAreTrue, <1>1 DEF IInv, Told, IsFactOf
      <3> QED BY <1>0, <1>1, <3>1, <3>2 DEF Types, FactType, Told, IsFactOf
    <2>3. ProbeType' BY <1>3 DEF Begin, ProbeType
    <2>4. ResultType'
      <3>1. selected' = {} /\ items' = <<>> /\ warnings' = {} /\ status' = "none"
        BY <1>3 DEF Begin
      <3> QED BY <3>1, FS_EmptySet, LimitsAreNat DEF ResultType
    <2>5. ControlType'
      <3>1. fetches \in 0..MaxFetch /\ fetches < MaxFetch /\ fetches' = fetches + 1
        BY <1>0, <1>3 DEF Begin, Types, ControlType
      <3>2. fetches' \in 0..MaxFetch BY <3>1, LimitsAreNat
      <3>3. faults' \in 0..MaxFault BY <1>0, <1>3 DEF Begin, Types, ControlType
      <3>4. truncated' = FALSE /\ late' = FALSE /\ skipped' = FALSE /\ troubled' = FALSE
            /\ refresh' \in BOOLEAN /\ pc' = "discover" /\ first' \in ProbeForm
        BY <1>3 DEF Begin, ProbeForm
      <3> QED BY <3>2, <3>3, <3>4 DEF ControlType
    <2> QED BY <2>1, <2>2, <2>3, <2>4, <2>5 DEF Types
  <1>4. CASE Expire
    BY <1>0, <1>4 DEF Expire, Types, SourceType, FactType, Told, IsFactOf, ProbeType, ResultType,
                      ControlType
  <1>5. CASE DiscoverFails
    BY <1>0, <1>5, <1>2 DEF DiscoverFails, Types, SourceType, FactType, Told, IsFactOf, ProbeType,
                      ResultType, ControlType
  <1>6. CASE SkipProbes
    BY <1>0, <1>6, <1>2 DEF SkipProbes, Types, SourceType, FactType, Told, IsFactOf, ProbeType,
                      ResultType, ControlType
  <1>7. CASE Close
    <2>1. warnings' \subseteq {"no_full", "unmerged", "language", "period_unknown", "omitted"}
      BY <1>0, <1>7 DEF Close, FinalWarnings, Types, ResultType
    <2>2. status' \in {"none", "ok", "partial", "empty", "failed", "raised"}
      BY <1>7 DEF Close, FinalStatus
    <2> QED
      BY <1>0, <1>7, <1>2, <2>1, <2>2 DEF Close, Types, SourceType, FactType, Told, IsFactOf, ProbeType,
                      ResultType, ControlType
  <1>8. CASE Interrupted
    BY <1>0, <1>8, <1>2 DEF Interrupted, Types, SourceType, FactType, Told, IsFactOf, ProbeType,
                      ResultType, ControlType
  <1> QED BY <1>3, <1>4, <1>5, <1>6, <1>7, <1>8

\* The candidates of a fetch are the source's.
LEMMA DiscoverType ==
    ASSUME IInv, Discover
    PROVE  Types'
  <1> USE DEF archive, result
  <1>0. Types /\ FreshInv BY TypeParts DEF IInv
  <1>1. PICK found \in {Source} \cup {Source \ {s} : s \in Source} :
           listing' = found /\ truncated' = (found # Source) /\ pool' = ProbePool(found, Backfilled)
    BY DEF Discover
  <1>2. found \subseteq Source OBVIOUS
  <1>3. SourceType' BY <1>0, <1>1, <1>2 DEF Discover, Types, SourceType
  <1>4. FactType'
    <2>1. Backfilled \in [Source -> PeriodFact] /\ \A s \in Source : Told(Backfilled[s], s)
      BY <1>0, FactsAreTrue DEF IInv, Backfilled, Types, FactType, Told
    <2>2. known' = Backfilled /\ fact' = fact /\ world' = world BY DEF Discover
    <2> QED BY <1>0, <2>1, <2>2 DEF Types, FactType, Told, IsFactOf
  <1>5. ProbeType'
    <2>1. ProbePool(found, Backfilled) \subseteq found BY DEF ProbePool, UnknownOf
    <2>2. prefetched' = {} /\ failures' = {} BY <1>0 DEF Discover, FreshInv
    <2> QED BY <1>1, <2>1, <2>2 DEF ProbeType
  <1>6. ResultType'
    <2>1. selected = {} BY <1>0 DEF Discover, FreshInv
    <2> QED BY <1>0, <2>1 DEF Discover, Types, ResultType
  <1>7. ControlType'
    <2>1. truncated' \in BOOLEAN BY <1>1
    <2>2. faults' \in 0..MaxFault /\ troubled' \in BOOLEAN BY FaultType DEF IInv, Discover
    <2>3. first' \in ProbeForm
      <3>1. \A s \in pool' : world[s].form \in ProbeForm BY <1>1 DEF ProbePool, UnknownOf
      <3>2. first \in ProbeForm BY <1>0 DEF Types, ControlType
      <3> QED BY <3>1, <3>2 DEF Discover
    <2> QED BY <1>0, <2>1, <2>2, <2>3 DEF Discover, Types, ControlType
  <1> QED BY <1>3, <1>4, <1>5, <1>6, <1>7 DEF Types

\* A probe, of the first candidate s in the pool, finds a period that nobody
\* knew, or finds none, or does not come about.
LEMMA ProbeFacts ==
    ASSUME IInv, Probe
    PROVE  \E s \in pool :
              /\ s \in Source /\ s \in listing
              /\ known[s] = NoFact /\ fact[s] = NoFact /\ TitleFact(s) = NoFact
              /\ pool' = pool \ {s}
              /\ known' = [known EXCEPT ![s] = TextFact(s)] \/ known' = known
              /\ fact' = [fact EXCEPT ![s] = known'[s]] \/ fact' = fact
              /\ prefetched' = prefetched \/ (s \notin held /\ prefetched' = prefetched \cup {s})
              /\ failures' \subseteq failures \cup {s}
              /\ Fault \/ NoFault
  <1>0. Types BY TypeParts DEF IInv
  <1>1. PICK s \in pool :
           /\ pool' = pool \ {s}
           /\ Learn(s) \/ NotRead(s)
           /\ prefetched' = prefetched \/ (s \notin held /\ prefetched' = prefetched \cup {s})
    BY DEF Probe, InArchive
  <1>2. s \in Source /\ s \in listing BY <1>0 DEF Types, SourceType, ProbeType
  <1>3. known[s] = NoFact /\ fact[s] = NoFact
    BY <1>2 DEF Probe, IInv, KnownInv
  <1>4. TitleFact(s) = NoFact BY <1>2, <1>3 DEF Probe, IInv, TitleInv
  <1>5. CASE Learn(s)
    <2>1. known \in [Source -> PeriodFact] BY <1>0 DEF Types, FactType
    <2>2. known' = [known EXCEPT ![s] = TextFact(s)] /\ known'[s] = TextFact(s)
      BY <1>2, <1>5, <2>1 DEF Learn
    <2>3. Enriched(TextFact(s), fact[s]) = TextFact(s) /\ Effective(TextFact(s), fact[s]) = TextFact(s)
      BY <1>3 DEF Enriched, Effective
    <2>4. fact' = [fact EXCEPT ![s] = TextFact(s)] \/ fact' = fact
      BY <1>5, <2>3 DEF Learn
    <2>5. failures' \subseteq failures \cup {s} /\ (Fault \/ NoFault) BY <1>5 DEF Learn
    <2> QED BY <1>1, <1>2, <1>3, <1>4, <2>2, <2>4, <2>5
  <1>6. CASE NotRead(s)
    BY <1>1, <1>2, <1>3, <1>4, <1>6 DEF NotRead
  <1> QED BY <1>1, <1>5, <1>6

\* The probes keep the types.
LEMMA ProbeTypes ==
    ASSUME IInv, Probe
    PROVE  Types'
  <1> USE DEF result, input
  <1>0. Types BY TypeParts DEF IInv
  <1>1. PICK s \in pool :
              /\ s \in Source /\ s \in listing
              /\ pool' = pool \ {s}
              /\ known' = [known EXCEPT ![s] = TextFact(s)] \/ known' = known
              /\ fact' = [fact EXCEPT ![s] = known'[s]] \/ fact' = fact
              /\ prefetched' = prefetched \/ (s \notin held /\ prefetched' = prefetched \cup {s})
              /\ failures' \subseteq failures \cup {s}
              /\ Fault \/ NoFault
    BY ProbeFacts
  <1>2. SourceType' BY <1>0 DEF Probe, Types, SourceType
  <1>3. FactType'
    <2>1. Told(TextFact(s), s) BY <1>1, FactsAreTrue DEF IInv, Told
    <2>2. known' \in [Source -> PeriodFact] /\ \A t \in Source : Told(known'[t], t)
      BY <1>0, <1>1, <2>1 DEF Types, FactType, Told
    <2>3. fact' \in [Source -> PeriodFact] /\ \A t \in Source : Told(fact'[t], t)
      BY <1>0, <1>1, <2>2 DEF Types, FactType, Told
    <2>4. world' = world BY DEF Probe
    <2> QED BY <2>2, <2>3, <2>4 DEF FactType, Told, IsFactOf
  <1>4. ProbeType' BY <1>0, <1>1 DEF Probe, Types, ProbeType
  <1>5. ResultType' BY <1>0 DEF Probe, Types, ResultType
  <1>6. ControlType'
    <2>1. faults' \in 0..MaxFault /\ troubled' \in BOOLEAN BY <1>1, FaultType DEF IInv
    <2> QED BY <1>0, <2>1 DEF Probe, Types, ControlType
  <1> QED BY <1>2, <1>3, <1>4, <1>5, <1>6 DEF Types

\* Announcements change only what is unknown.
LEMMA EvidenceFacts ==
    ASSUME IInv
    PROVE  /\ WithEvidence(Rescued) \in [Source -> PeriodFact]
           /\ \A s \in Source : Told(WithEvidence(Rescued)[s], s)
           /\ \A s \in Source : known[s] # NoFact => WithEvidence(Rescued)[s] = known[s]
  <1>1. Types BY TypeParts DEF IInv
  <1>2. \A s \in Source : Told(known[s], s) /\ known[s] \in PeriodFact BY <1>1 DEF Types, FactType
  <1>3. \A s \in Source : Told(Evidence(s), s) BY FactsAreTrue DEF IInv, Told
  <1>4. \A s \in Rescued : known[s] = NoFact BY DEF Rescued
  <1> QED BY <1>2, <1>3, <1>4 DEF WithEvidence, Told

\* The selection keeps the types.
LEMMA SelectTypes ==
    ASSUME IInv, SelectStep
    PROVE  Types'
  <1> USE DEF archive, probe, input
  <1> DEFINE facts == WithEvidence(Rescued)
             chosen == Select(listing, facts)
             omitted == Omitted({s \in failures : facts[s] = NoFact}, chosen)
  <1>0. Types BY TypeParts DEF IInv
  <1>1. /\ known' = facts /\ selected' = chosen
        /\ items' = [s \in chosen |-> "todo"]
        /\ warnings' = SelectionWarnings(Candidates(listing, facts), chosen, Preference)
                         \cup {w \in {"omitted"} : omitted # {}}
        /\ status' = IF chosen = {} THEN "empty" ELSE "ok"
        /\ pc' = "prepare"
        /\ UNCHANGED <<world, fact, held, listing, pool, prefetched, failures, skipped, truncated,
                       first, refresh, late, fetches>>
        /\ faults' \in 0..MaxFault /\ troubled' \in BOOLEAN
    BY FaultType DEF IInv, SelectStep
  <1>2. listing \subseteq Source BY <1>0 DEF Types, SourceType
  <1>3. facts \in [Source -> PeriodFact] /\ \A s \in Source : Told(facts[s], s) BY EvidenceFacts
  <1>4. chosen \subseteq listing /\ Cardinality(chosen) <= LastN
    BY <1>2, <1>3, SelectType DEF IInv
  <1>5. warnings' \subseteq {"no_full", "unmerged", "language", "period_unknown", "omitted"}
    BY <1>1 DEF SelectionWarnings
  <1>6. items' \in [chosen -> Item] BY <1>1 DEF Item
  <1> HIDE DEF facts, chosen, omitted
  <1>7. SourceType' BY <1>0, <1>1 DEF Types, SourceType
  <1>8. FactType' BY <1>0, <1>1, <1>3 DEF Types, FactType, Told, IsFactOf
  <1>9. ProbeType' BY <1>0, <1>1 DEF Types, ProbeType
  <1>10. ResultType' BY <1>1, <1>4, <1>5, <1>6 DEF ResultType
  <1>11. ControlType' BY <1>0, <1>1 DEF Types, ControlType
  <1> QED BY <1>7, <1>8, <1>9, <1>10, <1>11 DEF Types

\* The preparation of one report: its own periods become those of the manifest
\* and the report object together, or its item fails.
LEMMA PrepareFacts ==
    ASSUME IInv, Prepare
    PROVE  \E s \in selected :
              /\ s \in Source
              /\ known' \in [Source -> PeriodFact] /\ fact' \in [Source -> PeriodFact]
              /\ \A t \in Source : Told(known'[t], t) /\ Told(fact'[t], t)
              /\ \A t \in Source \ {s} : known'[t] = known[t] /\ fact'[t] = fact[t]
              /\ known[s] # NoFact => known'[s] = known[s]
              /\ fact[s] # NoFact => fact'[s] = fact[s] /\ known'[s] = fact[s]
              /\ fact'[s] \in {known'[s], fact[s]}
              /\ \E i \in Item : items' = [items EXCEPT ![s] = i] /\ (i = "failed" \/ known'[s] = fact'[s])
              /\ held' \subseteq held
              /\ faults' \in 0..MaxFault /\ troubled' \in BOOLEAN
  <1>0. Types BY TypeParts DEF IInv
  <1>1. PICK s \in selected : PrepareCached(s) \/ PrepareDownload(s) \/ PrepareFails(s)
    BY DEF Prepare
  <1>2. s \in Source BY <1>0 DEF Types, SourceType, ResultType
  <1>3. /\ known \in [Source -> PeriodFact] /\ fact \in [Source -> PeriodFact]
        /\ \A t \in Source : Told(known[t], t) /\ Told(fact[t], t)
        /\ pc = "prepare" /\ (fact[s] # NoFact => known[s] = fact[s])
    BY <1>0, <1>2 DEF Types, FactType, IInv, KnownInv, Prepare
  <1>4. /\ Synced(s) \in [Source -> PeriodFact] /\ \A t \in Source : Told(Synced(s)[t], t)
        /\ \A t \in Source \ {s} : Synced(s)[t] = known[t]
        /\ Synced(s)[s] \in {known[s], fact[s]}
        /\ known[s] # NoFact => Synced(s)[s] = known[s]
        /\ fact[s] # NoFact => Synced(s)[s] = fact[s]
    BY <1>2, <1>3, SyncedFacts
  <1>5. "cached" \in Item /\ "pending" \in Item /\ "failed" \in Item BY DEF Item
  <1>6. CASE PrepareCached(s)
    <2>1. items' = [items EXCEPT ![s] = "cached"] /\ held' = held /\ StorePeriods(s, Synced(s))
      BY <1>6 DEF PrepareCached
    <2>2. /\ known' \in [Source -> PeriodFact] /\ fact' \in [Source -> PeriodFact]
          /\ \A t \in Source : Told(known'[t], t) /\ Told(fact'[t], t)
          /\ \A t \in Source \ {s} : known'[t] = Synced(s)[t] /\ fact'[t] = fact[t]
          /\ known'[s] = fact'[s]
          /\ Synced(s)[s] # NoFact => known'[s] = Synced(s)[s]
          /\ faults' \in 0..MaxFault /\ troubled' \in BOOLEAN
      BY <1>2, <1>4, <2>1, StoreFacts DEF IInv
    <2>3. known[s] # NoFact => known'[s] = known[s] BY <1>4, <2>2
    <2>4. fact[s] # NoFact => fact'[s] = fact[s] /\ known'[s] = fact[s] BY <1>4, <2>2
    <2> QED BY <1>2, <1>4, <1>5, <2>1, <2>2, <2>3, <2>4
  <1>7. ASSUME known' = Synced(s), fact' = [fact EXCEPT ![s] = Synced(s)[s]]
        PROVE  /\ known' \in [Source -> PeriodFact] /\ fact' \in [Source -> PeriodFact]
               /\ \A t \in Source : Told(known'[t], t) /\ Told(fact'[t], t)
               /\ \A t \in Source \ {s} : known'[t] = known[t] /\ fact'[t] = fact[t]
               /\ known[s] # NoFact => known'[s] = known[s]
               /\ fact[s] # NoFact => fact'[s] = fact[s] /\ known'[s] = fact[s]
               /\ fact'[s] = known'[s]
    BY <1>2, <1>3, <1>4, <1>7
  <1>8. CASE PrepareDownload(s)
    <2>1. items' = [items EXCEPT ![s] = "pending"] /\ held' \subseteq held /\ (Fault \/ NoFault)
          /\ known' = Synced(s) /\ fact' = [fact EXCEPT ![s] = Synced(s)[s]]
      BY <1>8 DEF PrepareDownload
    <2> QED BY <1>2, <1>5, <1>7, <2>1, FaultType DEF IInv
  <1>9. CASE PrepareFails(s)
    <2>1. items' = [items EXCEPT ![s] = "failed"] /\ held' = held /\ Fault
      BY <1>9 DEF PrepareFails
    <2>2. CASE UNCHANGED <<known, fact>>
      BY <1>2, <1>3, <1>5, <2>1, <2>2, FaultType DEF IInv
    <2>3. CASE known' = Synced(s) /\ fact' = [fact EXCEPT ![s] = Synced(s)[s]]
      BY <1>2, <1>5, <1>7, <2>1, <2>3, FaultType DEF IInv
    <2> QED BY <1>9, <2>2, <2>3 DEF PrepareFails
  <1> QED BY <1>1, <1>6, <1>8, <1>9

\* The preparation keeps the types.
LEMMA PrepareTypes ==
    ASSUME IInv, Prepare \/ StartDownloads
    PROVE  Types'
  <1> USE DEF probe, input
  <1>0. Types BY TypeParts DEF IInv
  <1>1. CASE Prepare
    <2>1. PICK s \in selected :
              /\ known' \in [Source -> PeriodFact] /\ fact' \in [Source -> PeriodFact]
              /\ \A t \in Source : Told(known'[t], t) /\ Told(fact'[t], t)
              /\ \E i \in Item : items' = [items EXCEPT ![s] = i]
              /\ held' \subseteq held
              /\ faults' \in 0..MaxFault /\ troubled' \in BOOLEAN
      BY <1>1, PrepareFacts
    <2>2. UNCHANGED <<world, listing, pool, prefetched, failures, skipped, selected, warnings, status,
                      truncated, first, refresh, fetches, late, pc>>
      BY <1>1 DEF Prepare
    <2>3. SourceType' BY <1>0, <2>1, <2>2 DEF Types, SourceType
    <2>4. FactType' BY <2>1, <2>2 DEF FactType, Told, IsFactOf
    <2>5. ProbeType' BY <1>0, <2>1, <2>2 DEF Types, ProbeType
    <2>6. ResultType' BY <1>0, <2>1, <2>2 DEF Types, ResultType
    <2>7. ControlType' BY <1>0, <2>1, <2>2 DEF Types, ControlType
    <2> QED BY <2>3, <2>4, <2>5, <2>6, <2>7 DEF Types
  <1>2. CASE StartDownloads
    <2>1. /\ items' = [s \in selected |-> IF late /\ items[s] = "pending" THEN "failed" ELSE items[s]]
          /\ UNCHANGED <<world, fact, held, known, listing, pool, prefetched, failures, skipped, selected,
                         warnings, status, truncated, first, refresh, fetches, late>>
          /\ pc' = "download"
      BY <1>2 DEF StartDownloads, archive
    <2>2. items' \in [selected -> Item] BY <1>0, <2>1 DEF Types, ResultType, Item
    <2>3. faults' \in 0..MaxFault /\ troubled' \in BOOLEAN BY <1>2, FaultType DEF IInv, StartDownloads
    <2>4. SourceType' BY <1>0, <2>1 DEF Types, SourceType
    <2>5. FactType' BY <1>0, <2>1 DEF Types, FactType, Told, IsFactOf
    <2>6. ProbeType' BY <1>0, <2>1 DEF Types, ProbeType
    <2>7. ResultType' BY <1>0, <2>1, <2>2 DEF Types, ResultType
    <2>8. ControlType' BY <1>0, <2>1, <2>3 DEF Types, ControlType
    <2> QED BY <2>4, <2>5, <2>6, <2>7, <2>8 DEF Types
  <1> QED BY <1>1, <1>2

\* A download ends with one period for report object and manifest, or changes
\* neither.
LEMMA DownloadFacts ==
    ASSUME IInv, Download
    PROVE  \E s \in selected :
              /\ s \in Source
              /\ known' \in [Source -> PeriodFact] /\ fact' \in [Source -> PeriodFact]
              /\ \A t \in Source : Told(known'[t], t) /\ Told(fact'[t], t)
              /\ \A t \in Source \ {s} : known'[t] = known[t] /\ fact'[t] = fact[t]
              /\ known[s] # NoFact => known'[s] = known[s]
              /\ fact[s] # NoFact => fact'[s] = fact[s] /\ known[s] = fact[s]
              /\ fact'[s] \in {known'[s], fact[s]}
              /\ \E i \in Item : items' = [items EXCEPT ![s] = i] /\ (i = "failed" \/ known'[s] = fact'[s])
              /\ \/ held' = held \cup {s} /\ prefetched' = prefetched \ {s}
                 \/ held' \subseteq held /\ prefetched' = prefetched
              /\ faults' \in 0..MaxFault /\ troubled' \in BOOLEAN
  <1>0. Types BY TypeParts DEF IInv
  <1>1. PICK s \in selected :
          /\ items[s] = "pending"
          /\ \/ /\ items' = [items EXCEPT ![s] = "downloaded"]
                /\ held' = held \cup {s}
                /\ prefetched' = prefetched \ {s}
                /\ StorePeriods(s, known)
             \/ /\ Fault
                /\ items' = [items EXCEPT ![s] = "failed"]
                /\ held' \in {held, held \ {s}}
                /\ UNCHANGED <<fact, known, prefetched>>
    BY DEF Download
  <1>2. s \in Source BY <1>0 DEF Types, SourceType, ResultType
  <1>3. /\ known \in [Source -> PeriodFact] /\ fact \in [Source -> PeriodFact]
        /\ \A t \in Source : Told(known[t], t) /\ Told(fact[t], t)
        /\ known[s] = fact[s]
    BY <1>0, <1>1, <1>2 DEF Types, FactType, IInv, ItemInv
  <1>4. "downloaded" \in Item /\ "failed" \in Item BY DEF Item
  <1>5. CASE StorePeriods(s, known) /\ items' = [items EXCEPT ![s] = "downloaded"]
             /\ held' = held \cup {s} /\ prefetched' = prefetched \ {s}
    <2>1. /\ known' \in [Source -> PeriodFact] /\ fact' \in [Source -> PeriodFact]
          /\ \A t \in Source : Told(known'[t], t) /\ Told(fact'[t], t)
          /\ \A t \in Source \ {s} : known'[t] = known[t] /\ fact'[t] = fact[t]
          /\ known'[s] = fact'[s]
          /\ known[s] # NoFact => known'[s] = known[s]
          /\ faults' \in 0..MaxFault /\ troubled' \in BOOLEAN
      BY <1>2, <1>3, <1>5, StoreFacts DEF IInv
    <2> QED BY <1>2, <1>3, <1>4, <1>5, <2>1
  <1>6. CASE Fault /\ items' = [items EXCEPT ![s] = "failed"] /\ held' \in {held, held \ {s}}
             /\ UNCHANGED <<fact, known, prefetched>>
    <2>1. faults' \in 0..MaxFault /\ troubled' \in BOOLEAN BY <1>6, FaultType DEF IInv
    <2>2. held' \subseteq held BY <1>6
    <2> QED BY <1>2, <1>3, <1>4, <1>6, <2>1, <2>2
  <1> QED BY <1>1, <1>5, <1>6

\* A download keeps the types.
LEMMA DownloadTypes ==
    ASSUME IInv, Download
    PROVE  Types'
  <1> USE DEF input
  <1>0. Types BY TypeParts DEF IInv
  <1>1. PICK s \in selected :
              /\ s \in Source
              /\ known' \in [Source -> PeriodFact] /\ fact' \in [Source -> PeriodFact]
              /\ \A t \in Source : Told(known'[t], t) /\ Told(fact'[t], t)
              /\ \E i \in Item : items' = [items EXCEPT ![s] = i]
              /\ \/ held' = held \cup {s} /\ prefetched' = prefetched \ {s}
                 \/ held' \subseteq held /\ prefetched' = prefetched
              /\ faults' \in 0..MaxFault /\ troubled' \in BOOLEAN
    BY DownloadFacts
  <1>2. UNCHANGED <<world, listing, pool, failures, skipped, selected, warnings, status,
                    truncated, first, refresh, fetches, late, pc>>
    BY DEF Download
  <1>3. SourceType' BY <1>0, <1>1, <1>2 DEF Types, SourceType
  <1>4. FactType' BY <1>1, <1>2 DEF FactType, Told, IsFactOf
  <1>5. ProbeType' BY <1>0, <1>1, <1>2 DEF Types, ProbeType
  <1>6. ResultType' BY <1>0, <1>1, <1>2 DEF Types, ResultType
  <1>7. ControlType' BY <1>0, <1>1, <1>2 DEF Types, ControlType
  <1> QED BY <1>3, <1>4, <1>5, <1>6, <1>7 DEF Types

\* Every step keeps the types.
LEMMA TypeOKPreserved == IInv /\ [Next]_vars => TypeOK'
  <1> SUFFICES ASSUME IInv, [Next]_vars PROVE Types'
    <2>1. TypeOK' <=> Types' BY TypeParts, PTL
    <2> QED BY <2>1
  <1>1. CASE Next
    BY <1>1, ControlSteps, DiscoverType, ProbeTypes, SelectTypes, PrepareTypes, DownloadTypes DEF Next
  <1>2. CASE UNCHANGED vars
    <2>1. Types BY TypeParts DEF IInv
    <2> QED BY <1>2, <2>1 DEF vars, archive, probe, result, input, Types, SourceType, FactType, Told,
               IsFactOf, ProbeType, ResultType, ControlType
  <1> QED BY <1>1, <1>2

-----------------------------------------------------------------------------
(* The other parts of the invariant *)

\* A fetch starts with nothing of an earlier one.
LEMMA FreshInvPreserved == IInv /\ [Next]_vars => FreshInv'
  <1> SUFFICES ASSUME IInv, [Next]_vars PROVE FreshInv' OBVIOUS
  <1> USE DEF IInv, FreshInv, archive, probe, result, input
  <1>1. CASE Begin BY <1>1 DEF Begin
  <1>2. CASE Expire BY <1>2 DEF Expire
  <1>3. CASE DiscoverFails BY <1>3 DEF DiscoverFails
  <1>4. CASE Discover BY <1>4 DEF Discover
  <1>5. CASE SkipProbes BY <1>5 DEF SkipProbes
  <1>6. CASE Probe BY <1>6 DEF Probe
  <1>7. CASE SelectStep BY <1>7 DEF SelectStep
  <1>8. CASE Prepare BY <1>8 DEF Prepare
  <1>9. CASE StartDownloads BY <1>9 DEF StartDownloads
  <1>10. CASE Download BY <1>10 DEF Download
  <1>11. CASE Close BY <1>11 DEF Close
  <1>12. CASE Interrupted BY <1>12 DEF Interrupted
  <1>13. CASE UNCHANGED vars BY <1>13 DEF vars
  <1> QED BY <1>1, <1>2, <1>3, <1>4, <1>5, <1>6, <1>7, <1>8, <1>9, <1>10, <1>11, <1>12, <1>13 DEF Next

\* Steps that change no period.
LEMMA QuietSteps ==
    ASSUME DiscoverFails \/ Expire \/ SkipProbes \/ StartDownloads \/ Close \/ Interrupted \/ UNCHANGED vars
    PROVE  UNCHANGED <<world, fact, known>>
  BY DEF Expire, DiscoverFails, SkipProbes, StartDownloads, Close, Interrupted, archive, input, vars

\* What a title says is never replaced.
LEMMA TitleInvPreserved == IInv /\ [Next]_vars => TitleInv'
  <1> SUFFICES ASSUME IInv, [Next]_vars, NEW s \in Source, (TitleFact(s) # NoFact)'
               PROVE  /\ fact'[s] # NoFact => fact'[s] = TitleFact(s)
                      /\ pc' \in {"probe", "prepare", "download"} => known'[s] = TitleFact(s)
                      /\ world' = world
    BY DEF TitleInv, TitleFact, FactOf
  <1>0. world' = world
    BY DEF Next, Begin, Expire, DiscoverFails, Discover, SkipProbes, Probe, SelectStep, Prepare,
           StartDownloads, Download, Close, Interrupted, input, vars
  <1>1. TitleFact(s) # NoFact BY <1>0 DEF TitleFact, FactOf
  <1>2. /\ fact[s] # NoFact => fact[s] = TitleFact(s)
        /\ pc \in {"probe", "prepare", "download"} => known[s] = TitleFact(s)
    BY <1>1 DEF IInv, TitleInv
  <1>3. CASE Begin BY <1>0, <1>2, <1>3 DEF Begin, archive
  <1>4. CASE Discover
    <2>1. known' = Backfilled /\ fact' = fact BY <1>4 DEF Discover, archive
    <2> QED BY <1>0, <1>1, <1>2, <2>1 DEF Backfilled
  <1>5. CASE Probe
    <2>1. PICK t \in pool : /\ TitleFact(t) = NoFact
                            /\ known' = [known EXCEPT ![t] = TextFact(t)] \/ known' = known
                            /\ fact' = [fact EXCEPT ![t] = known'[t]] \/ fact' = fact
      BY <1>5, ProbeFacts
    <2>2. s # t BY <1>1, <2>1
    <2>3. known'[s] = known[s] /\ fact'[s] = fact[s] BY <2>1, <2>2 DEF IInv, TypeOK
    <2>4. pc = "probe" BY <1>5 DEF Probe
    <2> QED BY <1>0, <1>2, <2>3, <2>4
  <1>6. CASE SelectStep
    <2>1. known' = WithEvidence(Rescued) /\ fact' = fact /\ pc = "probe" BY <1>6 DEF SelectStep, archive
    <2>2. known[s] # NoFact => known'[s] = known[s] BY <2>1, EvidenceFacts
    <2> QED BY <1>0, <1>1, <1>2, <2>1, <2>2
  <1>7. CASE Prepare
    <2>1. pc = "prepare" BY <1>7 DEF Prepare
    <2>2. PICK t \in selected :
              /\ \A u \in Source \ {t} : known'[u] = known[u] /\ fact'[u] = fact[u]
              /\ known[t] # NoFact => known'[t] = known[t]
              /\ fact'[t] \in {known'[t], fact[t]}
      BY <1>7, PrepareFacts
    <2> QED BY <1>0, <1>1, <1>2, <2>1, <2>2
  <1>8. CASE Download
    <2>1. pc = "download" BY <1>8 DEF Download
    <2>2. PICK t \in selected :
              /\ \A u \in Source \ {t} : known'[u] = known[u] /\ fact'[u] = fact[u]
              /\ known[t] # NoFact => known'[t] = known[t]
              /\ fact'[t] \in {known'[t], fact[t]}
      BY <1>8, DownloadFacts
    <2> QED BY <1>0, <1>1, <1>2, <2>1, <2>2
  <1>9. CASE DiscoverFails \/ Expire \/ SkipProbes \/ StartDownloads \/ Close \/ Interrupted \/ UNCHANGED vars
    <2>1. known' = known /\ fact' = fact BY <1>9, QuietSteps
    <2>2. pc' \in {"probe", "prepare", "download"} => pc \in {"probe", "prepare", "download"}
      BY <1>9 DEF Expire, DiscoverFails, SkipProbes, StartDownloads, Close, Interrupted, vars
    <2> QED BY <1>0, <1>2, <2>1, <2>2
  <1> QED BY <1>3, <1>4, <1>5, <1>6, <1>7, <1>8, <1>9 DEF Next

\* Until the downloads start, a report object knows what the manifest knows.
LEMMA KnownInvPreserved == IInv /\ [Next]_vars => KnownInv'
  <1> SUFFICES ASSUME IInv, [Next]_vars, pc' \in {"probe", "prepare"}
               PROVE  /\ \A s \in Source : fact'[s] # NoFact => known'[s] = fact'[s]
                      /\ pc' = "probe" => \A s \in pool' : known'[s] = NoFact
    BY DEF KnownInv
  <1>0. Types BY TypeParts DEF IInv
  <1>1. /\ pc \in {"probe", "prepare"} => \A s \in Source : fact[s] # NoFact => known[s] = fact[s]
        /\ pc = "probe" => \A s \in pool : known[s] = NoFact
    BY DEF IInv, KnownInv
  <1>2. CASE Begin \/ DiscoverFails \/ StartDownloads \/ Download \/ Close \/ Interrupted
    BY <1>2, <1>0 DEF Begin, DiscoverFails, StartDownloads, Download, Close, Interrupted, Types, ControlType
  <1>3. CASE Expire \/ UNCHANGED vars
    BY <1>1, <1>3 DEF Expire, archive, probe, vars
  <1>4. CASE SkipProbes BY <1>1, <1>4 DEF SkipProbes, archive
  <1>5. CASE Discover
    <2>1. known' = Backfilled /\ fact' = fact /\ \E found \in SUBSET Source : pool' = ProbePool(found, Backfilled)
      BY <1>5 DEF Discover, archive
    <2>2. \A s \in Source : TitleFact(s) # NoFact /\ fact[s] # NoFact => fact[s] = TitleFact(s)
      BY DEF IInv, TitleInv
    <2>3. \A s \in Source : fact'[s] # NoFact => known'[s] = fact'[s] BY <2>1, <2>2 DEF Backfilled
    <2>4. \A s \in pool' : known'[s] = NoFact BY <2>1 DEF ProbePool, UnknownOf
    <2> QED BY <2>3, <2>4
  <1>6. CASE Probe
    <2>1. pc = "probe" BY <1>6 DEF Probe
    <2>2. PICK t \in pool : /\ t \in Source /\ fact[t] = NoFact
                            /\ pool' = pool \ {t}
                            /\ known' = [known EXCEPT ![t] = TextFact(t)] \/ known' = known
                            /\ fact' = [fact EXCEPT ![t] = known'[t]] \/ fact' = fact
      BY <1>6, ProbeFacts
    <2>3. fact \in [Source -> PeriodFact] /\ known \in [Source -> PeriodFact]
      BY <1>0 DEF Types, FactType
    <2>4. pool \subseteq Source BY <1>0 DEF Types, ProbeType, SourceType
    <2> QED BY <1>1, <2>1, <2>2, <2>3, <2>4
  <1>7. CASE SelectStep
    <2>1. known' = WithEvidence(Rescued) /\ fact' = fact /\ pool' = {} /\ pc = "probe"
      BY <1>7 DEF SelectStep, archive, probe
    <2>2. \A s \in Source : known[s] # NoFact => known'[s] = known[s] BY <2>1, EvidenceFacts
    <2> QED BY <1>1, <2>1, <2>2
  <1>8. CASE Prepare
    <2>1. pc = "prepare" /\ pc' = "prepare" BY <1>8 DEF Prepare
    <2>2. PICK t \in selected :
              /\ t \in Source
              /\ \A u \in Source \ {t} : known'[u] = known[u] /\ fact'[u] = fact[u]
              /\ fact[t] # NoFact => fact'[t] = fact[t] /\ known'[t] = fact[t]
              /\ fact'[t] \in {known'[t], fact[t]}
      BY <1>8, PrepareFacts
    <2> QED BY <1>1, <2>1, <2>2
  <1> QED BY <1>2, <1>3, <1>4, <1>5, <1>6, <1>7, <1>8 DEF Next

\* A report that is prepared and has not failed is told as it is kept.
LEMMA ItemInvPreserved == IInv /\ [Next]_vars => ItemInv'
  <1> SUFFICES ASSUME IInv, [Next]_vars PROVE ItemInv' OBVIOUS
  <1>0. Types /\ ItemInv /\ FreshInv BY TypeParts DEF IInv
  <1>1. CASE Begin BY <1>1 DEF Begin, ItemInv
  <1>2. CASE DiscoverFails \/ Expire \/ SkipProbes \/ Close \/ Interrupted \/ UNCHANGED vars
    BY <1>0, <1>2 DEF DiscoverFails, Expire, SkipProbes, Close, Interrupted, vars, archive, probe, result,
                      ItemInv
  <1>3. CASE Discover \/ Probe
    <2>1. selected = {} /\ selected' = selected
      BY <1>0, <1>3 DEF Discover, Probe, FreshInv, result
    <2> QED BY <2>1 DEF ItemInv
  <1>4. CASE SelectStep
    <2>1. \A s \in selected' : items'[s] = "todo" BY <1>4 DEF SelectStep
    <2> QED BY <2>1 DEF ItemInv
  <1>5. CASE StartDownloads
    <2>1. items' = [s \in selected |-> IF late /\ items[s] = "pending" THEN "failed" ELSE items[s]]
          /\ UNCHANGED <<selected, known, fact>>
      BY <1>5 DEF StartDownloads, archive
    <2> QED BY <1>0, <2>1 DEF ItemInv
  <1>6. ASSUME NEW s \in selected,
               \A t \in Source \ {s} : known'[t] = known[t] /\ fact'[t] = fact[t],
               NEW i \in Item, items' = [items EXCEPT ![s] = i], i = "failed" \/ known'[s] = fact'[s],
               selected' = selected
        PROVE  ItemInv'
    <2>1. items \in [selected -> Item] /\ selected \subseteq Source
      BY <1>0 DEF Types, ResultType, SourceType
    <2> SUFFICES ASSUME NEW t \in selected, items'[t] \in {"pending", "cached", "downloaded"}
                 PROVE  known'[t] = fact'[t]
      BY <1>6 DEF ItemInv
    <2>2. CASE t = s BY <1>6, <2>1, <2>2
    <2>3. CASE t # s BY <1>0, <1>6, <2>1, <2>3 DEF ItemInv
    <2> QED BY <2>2, <2>3
  <1>7. CASE Prepare
    <2>1. selected' = selected BY <1>7 DEF Prepare
    <2> QED BY <1>6, <1>7, <2>1, PrepareFacts
  <1>8. CASE Download
    <2>1. selected' = selected BY <1>8 DEF Download
    <2> QED BY <1>6, <1>8, <2>1, DownloadFacts
  <1> QED BY <1>1, <1>2, <1>3, <1>4, <1>5, <1>7, <1>8 DEF Next

-----------------------------------------------------------------------------
(* What a fetch of an orderly source selects *)

\* The reports whose period can become known: a quarterly report tells it in
\* its title or not at all.
Tellable == {s \in Source : world[s].form \in ProbeForm \/ world[s].titled}

NewerIn(s, K) == {t \in K : world[t].period > world[s].period}

NewestOf(K) == {s \in K : Cardinality(NewerIn(s, K)) < LastN}

AllFull == Source \subseteq FullReports

\* The order of the selection where every report is a group of its own: known
\* periods first, and the later ones first among equals.
Leads(t, s, facts) ==
    \/ facts[t] # NoFact /\ facts[s] = NoFact
    \/ (facts[t] = NoFact <=> facts[s] = NoFact) /\ world[t].period > world[s].period

Leaders(s, facts) == {t \in Source : Leads(t, s, facts)}

Foremost(facts) == {s \in Source : Cardinality(Leaders(s, facts)) < LastN}

\* Sets of reports are finite, and a part is not larger than the whole.
LEMMA PartIsSmaller ==
    ASSUME NEW T \in SUBSET Source, NEW S \in SUBSET T
    PROVE  /\ IsFiniteSet(S) /\ IsFiniteSet(T)
           /\ Cardinality(S) \in Nat /\ Cardinality(T) \in Nat
           /\ Cardinality(S) <= Cardinality(T)
           /\ \A x \in T \ S : Cardinality(S) < Cardinality(T)
  <1>1. IsFiniteSet(T) /\ IsFiniteSet(S)
    <2>1. IsFiniteSet(T) BY FS_Subset
    <2> QED BY <2>1, FS_Subset
  <1>2. Cardinality(S) \in Nat /\ Cardinality(T) \in Nat BY <1>1, FS_CardinalityType
  <1>3. Cardinality(S) <= Cardinality(T) BY <1>1, FS_Subset
  <1>4. ASSUME NEW x \in T \ S PROVE Cardinality(S) < Cardinality(T)
    <2>1. Cardinality(S) # Cardinality(T)
      <3>1. S # T OBVIOUS
      <3> QED BY <1>1, <3>1, FS_Subset
    <2> QED BY <1>2, <1>3, <2>1
  <1> QED BY <1>1, <1>2, <1>3, <1>4

\* In an orderly source dates and periods are numbers in one order, and no two
\* reports have the same.
LEMMA OrderlyReports ==
    ASSUME TypeOK, Orderly, NEW s \in Source, NEW t \in Source
    PROVE  /\ s \in Nat /\ t \in Nat
           /\ world[s].period \in Nat \ {NoPeriod} /\ world[t].period \in Nat \ {NoPeriod}
           /\ world[s].filed \in Nat /\ world[t].filed \in Nat
           /\ world[s].filed > world[t].filed <=> world[s].period > world[t].period
           /\ s # t => world[s].period # world[t].period
  BY WorldType DEF Orderly, ReportOf

\* An unknown period is written as NoPeriod, a known one is the true one.
LEMMA ToldPeriod ==
    ASSUME TypeOK, NEW s \in Source, NEW f, Told(f, s)
    PROVE  /\ f = NoFact => f.period = NoPeriod
           /\ f # NoFact => f.period = world[s].period /\ f.period # NoPeriod
           /\ f.period \in Nat
  <1>1. world[s].period \in Nat \ {NoPeriod} BY WorldType DEF ReportOf
  <1> QED BY <1>1 DEF Told, IsFactOf, NoFact, NoPeriod

\* The candidate of a report.
Cand(s, facts) ==
    [id |-> s, form |-> world[s].form, period |-> facts[s].period,
     filed |-> world[s].filed, amended |-> world[s].amended, accepted |-> NoDate,
     role |-> world[s].role, language |-> world[s].language]

\* On its candidates the order of _group_order_key is Leads.
LEMMA AheadIsLeads ==
    ASSUME TypeOK, Orderly, NEW s \in Source, NEW t \in Source, NEW facts,
           Told(facts[s], s), Told(facts[t], t)
    PROVE  /\ Ahead(Cand(t, facts), Cand(s, facts)) <=> Leads(t, s, facts)
           /\ SameGroup(Cand(t, facts), Cand(s, facts)) => t = s
  <1> DEFINE p == facts[s].period q == facts[t].period
  <1>1. /\ facts[s] = NoFact => p = NoPeriod
        /\ facts[s] # NoFact => p = world[s].period /\ p # NoPeriod
        /\ facts[t] = NoFact => q = NoPeriod
        /\ facts[t] # NoFact => q = world[t].period /\ q # NoPeriod
    BY ToldPeriod
  <1>2. /\ s \in Nat /\ t \in Nat
        /\ world[s].period \in Nat \ {NoPeriod} /\ world[t].period \in Nat \ {NoPeriod}
        /\ world[s].filed \in Nat /\ world[t].filed \in Nat
        /\ world[s].filed > world[t].filed <=> world[s].period > world[t].period
        /\ world[t].filed > world[s].filed <=> world[t].period > world[s].period
        /\ s # t => world[s].period # world[t].period
    BY OrderlyReports
  <1>3. Ahead(Cand(t, facts), Cand(s, facts)) <=>
          \/ q > p
          \/ q = p /\ world[t].filed > world[s].filed
          \/ q = p /\ world[t].filed = world[s].filed /\ t > s
    BY DEF Ahead, Cand
  <1>4. SameGroup(Cand(t, facts), Cand(s, facts)) => q = p /\ (q = NoPeriod => t = s)
    BY DEF SameGroup, Cand
  <1> HIDE DEF p, q
  <1>5. Leads(t, s, facts) <=>
          \/ facts[t] # NoFact /\ facts[s] = NoFact
          \/ (facts[t] = NoFact <=> facts[s] = NoFact) /\ world[t].period > world[s].period
    BY DEF Leads
  <1>6. CASE facts[s] = NoFact /\ facts[t] = NoFact
    BY <1>1, <1>2, <1>3, <1>4, <1>5, <1>6 DEF NoPeriod
  <1>7. CASE facts[s] = NoFact /\ facts[t] # NoFact
    BY <1>1, <1>2, <1>3, <1>4, <1>5, <1>7 DEF NoPeriod
  <1>8. CASE facts[s] # NoFact /\ facts[t] = NoFact
    BY <1>1, <1>2, <1>3, <1>4, <1>5, <1>8 DEF NoPeriod
  <1>9. CASE facts[s] # NoFact /\ facts[t] # NoFact
    BY <1>1, <1>2, <1>3, <1>4, <1>5, <1>9 DEF NoPeriod
  <1> QED BY <1>6, <1>7, <1>8, <1>9

\* Without a warning that full reports are missing, the selection from all
\* reports of an orderly source is the LastN foremost of them.
LEMMA OrderlySelect ==
    ASSUME TypeOK, Orderly, NEW facts \in [Source -> PeriodFact],
           \A s \in Source : Told(facts[s], s), NEW chosen,
           \/ "no_full" \notin SelectionWarnings(Candidates(Source, facts), chosen, Preference)
           \/ AllFull
    PROVE  AllFull /\ Select(Source, facts) = Foremost(facts)
  <1> DEFINE C == Candidates(Source, facts)
             Ahd(h) == {g \in C : Ahead(g, h)}
  <1>1. C = {Cand(s, facts) : s \in Source} BY DEF Candidates, Cand
  <1>2. IsCandidates(C) BY CandidatesType
  <1>3. \A a, b \in C : SameGroup(a, b) => a = b
    <2> SUFFICES ASSUME NEW s \in Source, NEW t \in Source,
                        SameGroup(Cand(t, facts), Cand(s, facts))
                 PROVE  t = s
      BY <1>1
    <2> QED BY AheadIsLeads
  <1>4. \A s \in Source : Cand(s, facts).role = world[s].role /\ Cand(s, facts).id = s
    BY DEF Cand
  <1>5. AllFull <=> \A s \in Source : world[s].role \in FullRole
    BY DEF AllFull, FullReports
  <1>6. C = FullVersions(C) <=> \A s \in Source : world[s].role \in FullRole
    <2>1. C = FullVersions(C) <=> \A r \in C : r.role \in FullRole
      BY DEF FullVersions
    <2>2. (\A r \in C : r.role \in FullRole) <=> \A s \in Source : Cand(s, facts).role \in FullRole
      BY <1>1
    <2> HIDE DEF C
    <2> QED BY <1>4, <2>1, <2>2
  <1> HIDE DEF C
  <1>7. Preference \in Seq(STRING) OBVIOUS
  <1>8. C = FullVersions(C) /\ Heads(C, Preference) = C
    <2>1. "no_full" \notin SelectionWarnings(C, chosen, Preference) \/ C = FullVersions(C)
      BY <1>5, <1>6 DEF C
    <2> QED BY <1>2, <1>3, <1>7, <2>1, SinglesAreHeads
  <1>9. Select(Source, facts) = {r.id : r \in {h \in C : Cardinality(Ahd(h)) < LastN}}
    BY <1>8 DEF Select, SelectReports, C
  <1>10. ASSUME NEW s \in Source
         PROVE  Cardinality(Ahd(Cand(s, facts))) = Cardinality(Leaders(s, facts))
    <2> DEFINE L == Leaders(s, facts)
               M == Ahd(Cand(s, facts))
               f == [t \in L |-> Cand(t, facts)]
    <2>1. L \subseteq Source BY DEF Leaders
    <2>2. \A t \in Source : t \in L <=> Cand(t, facts) \in M
      <3> SUFFICES ASSUME NEW t \in Source PROVE t \in L <=> Cand(t, facts) \in M OBVIOUS
      <3>1. Cand(t, facts) \in C BY <1>1
      <3>2. Ahead(Cand(t, facts), Cand(s, facts)) <=> Leads(t, s, facts) BY AheadIsLeads
      <3> QED BY <3>1, <3>2 DEF Leaders
    <2>3. \A g \in M : \E t \in Source : g = Cand(t, facts) BY <1>1
    <2> HIDE DEF L, M
    <2>4. f \in [L -> M] BY <2>1, <2>2
    <2>5. \A t, u \in L : f[t] = f[u] => t = u BY <1>4, <2>1
    <2>6. \A g \in M : \E t \in L : f[t] = g BY <2>2, <2>3
    <2> HIDE DEF f
    <2>7. f \in Bijection(L, M)
      BY <2>4, <2>5, <2>6 DEF Bijection, Injection, IsInjective, Surjection
    <2>8. ExistsBijection(L, M) BY <2>7 DEF ExistsBijection
    <2>9. IsFiniteSet(L) BY <2>1, PartIsSmaller
    <2>10. Cardinality(M) = Cardinality(L) BY <2>8, <2>9, FS_Bijection
    <2> QED BY <2>10 DEF L, M
  <1> HIDE DEF Ahd
  <1>11. {h \in C : Cardinality(Ahd(h)) < LastN} = {Cand(s, facts) : s \in Foremost(facts)}
    BY <1>1, <1>10 DEF Foremost
  <1>12. Foremost(facts) \subseteq Source BY DEF Foremost
  <1>13. {r.id : r \in {Cand(s, facts) : s \in Foremost(facts)}} = Foremost(facts)
    <2>1. {r.id : r \in {Cand(s, facts) : s \in Foremost(facts)}}
            = {Cand(s, facts).id : s \in Foremost(facts)}
      OBVIOUS
    <2> QED BY <1>4, <1>12, <2>1
  <1> QED BY <1>5, <1>6, <1>8, <1>9, <1>11, <1>13

\* What stands before one of the foremost is one of them.
LEMMA ForemostIsFront ==
    ASSUME TypeOK, Orderly, NEW facts, NEW v \in Foremost(facts), NEW u \in Source,
           Leads(u, v, facts)
    PROVE  u \in Foremost(facts)
  <1>1. v \in Source BY DEF Foremost
  <1>2. \A t \in Source : Leads(t, u, facts) => Leads(t, v, facts)
    <2> SUFFICES ASSUME NEW t \in Source, Leads(t, u, facts) PROVE Leads(t, v, facts)
      OBVIOUS
    <2>1. {world[t].period, world[u].period, world[v].period} \subseteq Nat
      BY <1>1, OrderlyReports
    <2> QED BY <2>1 DEF Leads
  <1>3. Leaders(u, facts) \subseteq Leaders(v, facts) BY <1>2 DEF Leaders
  <1>4. Leaders(v, facts) \in SUBSET Source BY DEF Leaders
  <1>5. /\ Cardinality(Leaders(u, facts)) \in Nat /\ Cardinality(Leaders(v, facts)) \in Nat
        /\ Cardinality(Leaders(u, facts)) <= Cardinality(Leaders(v, facts))
    BY <1>3, <1>4, PartIsSmaller
  <1>6. Cardinality(Leaders(v, facts)) < LastN BY DEF Foremost
  <1> QED BY <1>5, <1>6, LimitsAreNat DEF Foremost

\* Where enough of the newest reports are known they are foremost, whatever is
\* known of the others.
LEMMA KnownNewestAreForemost ==
    ASSUME TypeOK, Orderly, NEW facts, Cardinality(NewestOf(Tellable)) = LastN,
           \A s \in NewestOf(Tellable) : facts[s] # NoFact,
           \A s \in Source \ Tellable : facts[s] = NoFact
    PROVE  Foremost(facts) = NewestOf(Tellable)
  <1> DEFINE K == Tellable S == NewestOf(K)
  <1>1. K \subseteq Source /\ S \subseteq K BY DEF Tellable, NewestOf
  <1>2. \A s \in S : facts[s] # NoFact /\ Cardinality(NewerIn(s, K)) < LastN BY DEF NewestOf
  <1>3. \A t \in K \ S : ~(Cardinality(NewerIn(t, K)) < LastN) BY DEF NewestOf
  <1>4. Cardinality(S) = LastN OBVIOUS
  <1>5. \A t \in Source : facts[t] # NoFact => t \in K OBVIOUS
  <1> HIDE DEF K, S
  <1>6. \A s : NewerIn(s, K) \subseteq K BY DEF NewerIn
  <1>7. ASSUME NEW s \in S PROVE s \in Foremost(facts)
    <2>1. Leaders(s, facts) \subseteq NewerIn(s, K)
      BY <1>2, <1>5, <1>7 DEF Leaders, Leads, NewerIn
    <2>2. NewerIn(s, K) \in SUBSET Source BY <1>1, <1>6
    <2>3. /\ Cardinality(Leaders(s, facts)) \in Nat /\ Cardinality(NewerIn(s, K)) \in Nat
          /\ Cardinality(Leaders(s, facts)) <= Cardinality(NewerIn(s, K))
      BY <2>1, <2>2, PartIsSmaller
    <2>4. Cardinality(NewerIn(s, K)) < LastN BY <1>2, <1>7
    <2> QED BY <1>1, <1>7, <2>3, <2>4, LimitsAreNat DEF Foremost
  <1>8. ASSUME NEW t \in Source \ S PROVE t \notin Foremost(facts)
    <2>1. S \subseteq Leaders(t, facts)
      <3> SUFFICES ASSUME NEW s \in S PROVE Leads(s, t, facts)
        BY <1>1 DEF Leaders
      <3>1. CASE facts[t] = NoFact BY <1>2, <3>1 DEF Leads
      <3>2. CASE facts[t] # NoFact
        <4>1. t \in K \ S /\ s \in Source BY <1>1, <1>5, <3>2
        <4>2. world[s].period \in Nat /\ world[t].period \in Nat /\ world[s].period # world[t].period
          BY <4>1, OrderlyReports
        <4>3. CASE world[t].period > world[s].period
          <5>1. NewerIn(t, K) \subseteq NewerIn(s, K)
            <6> SUFFICES ASSUME NEW u \in K, world[u].period > world[t].period
                         PROVE  world[u].period > world[s].period
              BY DEF NewerIn
            <6>1. world[u].period \in Nat BY <1>1, OrderlyReports
            <6> QED BY <4>2, <4>3, <6>1
          <5>2. NewerIn(s, K) \in SUBSET Source BY <1>1, <1>6
          <5>3. /\ Cardinality(NewerIn(t, K)) \in Nat /\ Cardinality(NewerIn(s, K)) \in Nat
                /\ Cardinality(NewerIn(t, K)) <= Cardinality(NewerIn(s, K))
            BY <5>1, <5>2, PartIsSmaller
          <5>4. Cardinality(NewerIn(s, K)) < LastN /\ ~(Cardinality(NewerIn(t, K)) < LastN)
            BY <1>2, <1>3, <4>1
          <5> QED BY <5>3, <5>4, LimitsAreNat
        <4>4. CASE world[s].period > world[t].period
          <5>1. facts[s] # NoFact BY <1>2
          <5> QED BY <3>2, <4>4, <5>1 DEF Leads
        <4> QED BY <4>2, <4>3, <4>4
      <3> QED BY <3>1, <3>2
    <2>2. Leaders(t, facts) \in SUBSET Source BY DEF Leaders
    <2>3. Cardinality(S) <= Cardinality(Leaders(t, facts)) /\ Cardinality(Leaders(t, facts)) \in Nat
      BY <2>1, <2>2, PartIsSmaller
    <2> QED BY <1>4, <2>3, LimitsAreNat DEF Foremost
  <1>9. Foremost(facts) \subseteq Source BY DEF Foremost
  <1>10. Foremost(facts) = S BY <1>1, <1>7, <1>8, <1>9
  <1> QED BY <1>10 DEF S, K

\* The foremost are the newest if they are enough and tellable, and each of the
\* newest that is left out for want of a period is older than all of them.
LEMMA ForemostAreNewest ==
    ASSUME TypeOK, Orderly, NEW facts, Cardinality(Foremost(facts)) = LastN,
           Foremost(facts) \subseteq Tellable,
           \A u \in NewestOf(Tellable) \ Foremost(facts), v \in Foremost(facts) :
              facts[u] = NoFact => world[u].filed < world[v].filed
    PROVE  Foremost(facts) = NewestOf(Tellable)
  <1> DEFINE K == Tellable S == Foremost(facts)
  <1>1. K \subseteq Source /\ S \subseteq K BY DEF Tellable
  <1>2. Cardinality(S) = LastN OBVIOUS
  <1>3. \A u \in NewestOf(K) \ S, v \in S : facts[u] = NoFact => world[u].filed < world[v].filed
    OBVIOUS
  <1>4. \A v \in S, u \in Source \ S : ~Leads(u, v, facts) BY ForemostIsFront
  <1> HIDE DEF K, S
  <1>5. \A s \in K : NewerIn(s, K) \in SUBSET Source /\ NewerIn(s, K) \subseteq K
    BY <1>1 DEF NewerIn
  <1>6. ASSUME NEW v \in S, NEW u \in K \ S, world[u].period > world[v].period
        PROVE  u \notin NewestOf(K)
    <2>1. u \in Source /\ v \in Source BY <1>1
    <2>2. world[u].filed > world[v].filed /\ world[u].filed \in Nat /\ world[v].filed \in Nat
      BY <1>6, <2>1, OrderlyReports
    <2>3. facts[u] = NoFact BY <1>4, <1>6, <2>1 DEF Leads
    <2>4. ~(world[u].filed < world[v].filed) BY <2>2
    <2> QED BY <1>3, <2>3, <2>4
  <1>7. ASSUME NEW u \in NewestOf(K), u \notin S
        PROVE  FALSE
    <2>1. u \in K /\ Cardinality(NewerIn(u, K)) < LastN BY <1>7 DEF NewestOf
    <2>2. CASE S \subseteq NewerIn(u, K)
      <3>1. Cardinality(S) <= Cardinality(NewerIn(u, K)) /\ Cardinality(NewerIn(u, K)) \in Nat
        BY <1>5, <2>1, <2>2, PartIsSmaller
      <3> QED BY <1>2, <2>1, <3>1, LimitsAreNat
    <2>3. CASE \E v \in S : v \notin NewerIn(u, K)
      <3>1. PICK v \in S : ~(world[v].period > world[u].period)
        BY <1>1, <2>3 DEF NewerIn
      <3>2. world[u].period > world[v].period
        <4>1. u \in Source /\ v \in Source /\ u # v BY <1>1, <1>7, <2>1
        <4>2. world[u].period \in Nat /\ world[v].period \in Nat /\ world[u].period # world[v].period
          BY <4>1, OrderlyReports
        <4> QED BY <3>1, <4>2
      <3> QED BY <1>6, <1>7, <2>1, <3>2
    <2> QED BY <2>2, <2>3
  <1>8. ASSUME NEW v \in S, v \notin NewestOf(K)
        PROVE  FALSE
    <2>1. v \in K /\ ~(Cardinality(NewerIn(v, K)) < LastN) BY <1>1, <1>8 DEF NewestOf
    <2>2. ASSUME NEW u \in K, NewerIn(u, K) \subseteq S \ {v}, ~(Cardinality(NewerIn(u, K)) < LastN)
          PROVE  FALSE
      <3>1. S \in SUBSET Source /\ S \ {v} \in SUBSET S /\ v \in S \ (S \ {v})
        BY <1>1
      <3>2. /\ Cardinality(S \ {v}) \in Nat /\ Cardinality(S) \in Nat
            /\ Cardinality(S \ {v}) < Cardinality(S)
        BY <3>1, PartIsSmaller
      <3>3. S \ {v} \in SUBSET Source BY <1>1
      <3>4. Cardinality(NewerIn(u, K)) \in Nat /\ Cardinality(NewerIn(u, K)) <= Cardinality(S \ {v})
        BY <2>2, <3>3, PartIsSmaller
      <3> QED BY <1>2, <2>2, <3>2, <3>4, LimitsAreNat
    <2> DEFINE U == NewerIn(v, K) \ S
               Sets == {NewerIn(u, K) : u \in U}
    <2>3. U # {}
      <3> SUFFICES ASSUME U = {} PROVE FALSE OBVIOUS
      <3>1. v \notin NewerIn(v, K)
        <4>1. world[v].period \in Nat BY <1>1, OrderlyReports
        <4> QED BY <4>1 DEF NewerIn
      <3>2. NewerIn(v, K) \subseteq S \ {v} BY <3>1
      <3> QED BY <2>1, <2>2, <3>2
    <2>4. \A u \in U : u \in K /\ u \notin S /\ world[u].period > world[v].period
      BY DEF NewerIn
    <2>5. Sets \subseteq FiniteSubsetsOf(Source)
      <3> SUFFICES ASSUME NEW u \in U PROVE NewerIn(u, K) \in FiniteSubsetsOf(Source)
        OBVIOUS
      <3>1. NewerIn(u, K) \in SUBSET Source BY <1>5, <2>4
      <3>2. IsFiniteSet(NewerIn(u, K)) BY <3>1, PartIsSmaller
      <3> QED BY <3>1, <3>2 DEF FiniteSubsetsOf
    <2>6. Sets # {} BY <2>3
    <2> HIDE DEF Sets
    <2>7. PICK W \in Sets : \A V \in Sets : <<V, W>> \notin StrictSubsetOrdering(Source)
      BY <2>5, <2>6, FS_StrictSubsetOrderingWellFounded, WFMin
    <2>8. PICK u \in U : W = NewerIn(u, K) BY <2>7 DEF Sets
    <2>9. ASSUME NEW t \in NewerIn(u, K), t \notin S
          PROVE  FALSE
      <3>1. t \in K /\ world[t].period > world[u].period BY <2>9 DEF NewerIn
      <3>2. {world[t].period, world[u].period, world[v].period} \subseteq Nat
        BY <1>1, <2>4, <2>8, <3>1, OrderlyReports
      <3>3. t \in U
        BY <2>4, <2>8, <2>9, <3>1, <3>2 DEF NewerIn
      <3>4. NewerIn(t, K) \subseteq NewerIn(u, K) /\ t \notin NewerIn(t, K)
        <4> SUFFICES ASSUME NEW x \in K, world[x].period > world[t].period
                     PROVE  world[x].period > world[u].period /\ x # t
          BY DEF NewerIn
        <4>1. world[x].period \in Nat BY <1>1, OrderlyReports
        <4> QED BY <3>1, <3>2, <4>1
      <3>5. NewerIn(t, K) \in Sets BY <3>3 DEF Sets
      <3>6. NewerIn(u, K) \in SUBSET Source BY <1>5, <2>4
      <3>7. <<NewerIn(t, K), NewerIn(u, K)>> \in StrictSubsetOrdering(Source)
        BY <2>9, <3>4, <3>6 DEF StrictSubsetOrdering
      <3> QED BY <2>7, <2>8, <3>5, <3>7
    <2>10. v \notin NewerIn(u, K)
      <3>1. world[u].period \in Nat /\ world[v].period \in Nat BY <1>1, <2>4, <2>8, OrderlyReports
      <3> QED BY <2>4, <2>8, <3>1 DEF NewerIn
    <2>11. NewerIn(u, K) \subseteq S \ {v} BY <2>9, <2>10
    <2>12. u \in K /\ u \notin NewestOf(K) BY <1>6, <2>4, <2>8
    <2>13. ~(Cardinality(NewerIn(u, K)) < LastN) BY <2>12 DEF NewestOf
    <2> QED BY <2>2, <2>11, <2>12, <2>13
  <1>9. S = NewestOf(K) BY <1>7, <1>8
  <1> QED BY <1>9 DEF S, K

-----------------------------------------------------------------------------
(* A second layer: from the discovery to the archive of later fetches, over *)
(* IInv, which every step is already known to keep.                         *)

\* Nobody learns the period of a report that is not tellable, and only reports
\* of the probed forms are probed.
TellInv ==
    /\ \A s \in Source \ Tellable : fact[s] = NoFact /\ known[s] = NoFact
    /\ pc = "probe" => \A s \in pool : world[s].form \in ProbeForm

\* What the stage of a fetch says of its list and its status.
StageInv ==
    /\ pc \in {"probe", "prepare", "download"} => truncated = (listing # Source)
    /\ pc \in {"prepare", "download"} => status \in {"ok", "empty"}
    /\ pc = "close" => status = "failed" /\ troubled
    /\ late => troubled

\* While a fetch of the whole source probes, each of the newest reports is known,
\* is still to be probed or has failed.
ProbedInv ==
    pc = "probe" /\ ~skipped /\ listing = Source /\ Orderly =>
       \A s \in NewestOf(Tellable) : known[s] = NoFact => s \in pool \cup failures

\* What was selected is the newest unless a warning says otherwise.
ChoiceInv ==
    pc \in {"prepare", "download"} /\ listing = Source /\ Orderly /\ "no_full" \notin warnings =>
       /\ AllFull
       /\ (/\ ~skipped /\ "omitted" \notin warnings
           /\ Cardinality(selected) = LastN /\ selected \subseteq Tellable)
             => selected = NewestOf(Tellable)

\* What was found in the archive or downloaded is held.
HeldInv == \A s \in selected : items[s] \in {"cached", "downloaded"} => s \in held

\* A fetch that ended ok is the latest that did.
OkInv ==
    pc = "idle" /\ status = "ok" /\ ~skipped =>
       lastOk = selected /\ selected # {} /\ selected \subseteq held

\* What a fetch that ended ok has selected is the newest there is, and the
\* manifest has its periods for good.
HistInv ==
    lastOk # {} /\ Orderly =>
       /\ AllFull
       /\ lastOk = NewestOf(Tellable) /\ Cardinality(lastOk) = LastN
       /\ \A s \in lastOk : fact[s] # NoFact

\* After such a fetch, whoever sees the whole source selects the same.
WarmInv ==
    pc \in {"prepare", "download"} /\ Orderly /\ lastOk # {} /\ listing = Source =>
       selected = lastOk

OkLayer == TellInv /\ StageInv /\ ProbedInv /\ ChoiceInv /\ HeldInv /\ OkInv /\ HistInv /\ WarmInv

\* The source stays what it is, and with it what is defined from it alone.
LEMMA WorldStays ==
    ASSUME [Next]_vars
    PROVE  /\ world' = world
           /\ Tellable' = Tellable /\ (NewestOf(Tellable))' = NewestOf(Tellable)
           /\ Orderly' <=> Orderly
           /\ AllFull' <=> AllFull
           /\ \A s \in Source : TitleFact(s)' = TitleFact(s)
  <1>1. world' = world
    BY DEF Next, Begin, Expire, DiscoverFails, Discover, SkipProbes, Probe, SelectStep, Prepare,
           StartDownloads, Download, Close, Interrupted, input, vars
  <1>2. Tellable' = Tellable BY <1>1 DEF Tellable
  <1>3. (NewestOf(Tellable))' = NewestOf(Tellable) BY <1>1, <1>2 DEF NewestOf, NewerIn
  <1> QED BY <1>1, <1>2, <1>3 DEF Orderly, AllFull, FullReports, TitleFact, FactOf

\* A period the manifest has is kept by every step.
LEMMA FactStays ==
    ASSUME IInv, [Next]_vars, NEW s \in Source, fact[s] # NoFact
    PROVE  fact'[s] = fact[s]
  <1>1. CASE Begin \/ Discover \/ SelectStep \/ UNCHANGED vars
    BY <1>1 DEF Begin, Discover, SelectStep, archive, vars
  <1>2. CASE DiscoverFails \/ Expire \/ SkipProbes \/ StartDownloads \/ Close \/ Interrupted
    BY <1>2, QuietSteps
  <1>3. CASE Probe
    <2>1. PICK t \in pool : fact[t] = NoFact /\ (fact' = [fact EXCEPT ![t] = known'[t]] \/ fact' = fact)
      BY <1>3, ProbeFacts
    <2> QED BY <2>1 DEF IInv, TypeOK
  <1>4. CASE Prepare BY <1>4, PrepareFacts
  <1>5. CASE Download BY <1>5, DownloadFacts
  <1> QED BY <1>1, <1>2, <1>3, <1>4, <1>5 DEF Next

\* A title that tells a period tells it.
LEMMA TitledIsKnown ==
    ASSUME NEW s \in Source
    PROVE  /\ world[s].titled => TitleFact(s) # NoFact
           /\ ~world[s].titled => TitleFact(s) = NoFact
  BY DEF TitleFact, FactOf, NoFact

\* The initial state.
LEMMA InitOkLayer == Init => OkLayer
  BY DEF Init, OkLayer, TellInv, StageInv, ProbedInv, ChoiceInv, HeldInv, OkInv, HistInv, WarmInv

\* What is written down of a report that is not tellable is nothing.
LEMMA TellInvPreserved ==
    ASSUME IInv, TellInv, [Next]_vars
    PROVE  TellInv'
  <1>0. Types BY TypeParts DEF IInv
  <1>1. world' = world /\ Tellable' = Tellable BY WorldStays
  <1>2. \A s \in Source \ Tellable : /\ fact[s] = NoFact /\ known[s] = NoFact
                                     /\ TitleFact(s) = NoFact /\ world[s].form \notin ProbeForm
    BY TitledIsKnown DEF TellInv, Tellable
  <1>3. fact \in [Source -> PeriodFact] /\ known \in [Source -> PeriodFact] /\ pool \subseteq Source
    BY <1>0 DEF Types, FactType, ProbeType, SourceType
  <1>4. pc = "probe" => \A s \in pool : world[s].form \in ProbeForm BY DEF TellInv
  <1>5. CASE Begin
    <2>1. fact' = fact /\ known' = [s \in Source |-> NoFact] /\ pc' = "discover"
      BY <1>5 DEF Begin, archive
    <2> QED BY <1>1, <1>2, <2>1 DEF TellInv
  <1>6. CASE Discover
    <2>1. /\ fact' = fact /\ known' = Backfilled
          /\ \E found \in SUBSET Source : pool' = ProbePool(found, Backfilled)
      BY <1>6 DEF Discover, archive
    <2>2. \A s \in pool' : world[s].form \in ProbeForm BY <2>1 DEF ProbePool, UnknownOf
    <2> QED BY <1>1, <1>2, <2>1, <2>2 DEF TellInv, Backfilled
  <1>7. CASE Probe
    <2>1. PICK t \in pool : /\ t \in Source
                            /\ pool' = pool \ {t}
                            /\ known' = [known EXCEPT ![t] = TextFact(t)] \/ known' = known
                            /\ fact' = [fact EXCEPT ![t] = known'[t]] \/ fact' = fact
      BY <1>7, ProbeFacts
    <2>2. pc = "probe" BY <1>7 DEF Probe
    <2>3. t \notin Source \ Tellable BY <1>2, <1>4, <2>1, <2>2
    <2>4. \A s \in Source \ Tellable : known'[s] = known[s] /\ fact'[s] = fact[s]
      BY <1>3, <2>1, <2>3
    <2>5. \A s \in pool' : world[s].form \in ProbeForm BY <1>4, <2>1, <2>2
    <2> QED BY <1>1, <1>2, <2>4, <2>5 DEF TellInv
  <1>8. CASE SelectStep
    <2>1. fact' = fact /\ known' = WithEvidence(Rescued) /\ pc' = "prepare"
      BY <1>8 DEF SelectStep, archive
    <2>2. \A s \in Rescued : world[s].form \in ProbeForm BY DEF Rescued
    <2>3. \A s \in Source \ Tellable : known'[s] = known[s] BY <1>2, <2>1, <2>2 DEF WithEvidence
    <2> QED BY <1>1, <1>2, <2>1, <2>3 DEF TellInv
  <1>9. ASSUME NEW t \in Source, NEW facts \in [Source -> PeriodFact], StorePeriods(t, facts),
               \A s \in Source \ Tellable : facts[s] = NoFact
        PROVE  \A s \in Source \ Tellable : known'[s] = NoFact /\ fact'[s] = NoFact
    <2>1. ~Enrichable(t, facts) \/ t \in Tellable BY <1>2 DEF Enrichable
    <2>2. t \notin Tellable => Best(t, facts) = NoFact BY <1>9, <2>1 DEF Best
    <2>3. /\ known' = [facts EXCEPT ![t] = Best(t, facts)] \/ known' = facts
          /\ fact' = [fact EXCEPT ![t] = Best(t, facts)] \/ fact' = [fact EXCEPT ![t] = facts[t]]
      BY <1>9 DEF StorePeriods
    <2> QED BY <1>2, <1>3, <1>9, <2>2, <2>3
  <1>10. ASSUME NEW t \in Source
         PROVE  /\ Synced(t) \in [Source -> PeriodFact]
                /\ \A s \in Source \ Tellable : Synced(t)[s] = NoFact
    BY <1>2, <1>3 DEF Synced, Effective
  <1>11. CASE Prepare
    <2>1. PICK t \in selected : PrepareCached(t) \/ PrepareDownload(t) \/ PrepareFails(t)
      BY <1>11 DEF Prepare
    <2>2. t \in Source BY <1>0 DEF Types, SourceType, ResultType
    <2>3. \/ StorePeriods(t, Synced(t))
          \/ known' = Synced(t) /\ fact' = [fact EXCEPT ![t] = Synced(t)[t]]
          \/ UNCHANGED <<known, fact>>
      BY <2>1 DEF PrepareCached, PrepareDownload, PrepareFails
    <2>4. \A s \in Source \ Tellable : known'[s] = NoFact /\ fact'[s] = NoFact
      BY <1>2, <1>3, <1>9, <1>10, <2>2, <2>3
    <2>5. pc' = "prepare" BY <1>11 DEF Prepare
    <2> QED BY <1>1, <2>4, <2>5 DEF TellInv
  <1>12. CASE Download
    <2>1. PICK t \in selected : StorePeriods(t, known) \/ UNCHANGED <<known, fact>>
      BY <1>12 DEF Download
    <2>2. t \in Source BY <1>0 DEF Types, SourceType, ResultType
    <2>3. \A s \in Source \ Tellable : known'[s] = NoFact /\ fact'[s] = NoFact
      BY <1>2, <1>3, <1>9, <2>1, <2>2
    <2>4. pc' = "download" BY <1>12 DEF Download
    <2> QED BY <1>1, <2>3, <2>4 DEF TellInv
  <1>13. CASE DiscoverFails \/ Expire \/ SkipProbes \/ StartDownloads \/ Close \/ Interrupted \/ UNCHANGED vars
    <2>1. known' = known /\ fact' = fact BY <1>13, QuietSteps
    <2>2. pc' = "probe" => pc = "probe" /\ pool' \subseteq pool
      BY <1>13 DEF Expire, DiscoverFails, SkipProbes, StartDownloads, Close, Interrupted, vars, probe
    <2> QED BY <1>1, <1>2, <1>4, <2>1, <2>2 DEF TellInv
  <1> QED BY <1>5, <1>6, <1>7, <1>8, <1>11, <1>12, <1>13 DEF Next

\* The stage of a fetch fixes what its list and its status may be.
LEMMA StageInvPreserved ==
    ASSUME IInv, StageInv, [Next]_vars
    PROVE  StageInv'
  <1>0. Types BY TypeParts DEF IInv
  <1> USE DEF StageInv, archive, probe, result, input, NoFault, Fault
  <1>1. CASE Begin BY <1>1 DEF Begin
  <1>2. CASE Expire BY <1>2 DEF Expire
  <1>3. CASE DiscoverFails
    <2>1. pc' = "close" /\ status' = "failed" /\ late' = late BY <1>3 DEF DiscoverFails
    <2>2. troubled' BY <1>3 DEF DiscoverFails
    <2> QED BY <2>1, <2>2
  <1>4. CASE Discover
    <2>1. truncated' = (listing' # Source) BY <1>4, WorldStays DEF Discover
    <2>2. pc' = "probe" /\ late' = late /\ ~late BY <1>4 DEF Discover
    <2> QED BY <2>1, <2>2
  <1>5. CASE SkipProbes BY <1>5 DEF SkipProbes
  <1>6. CASE Probe
    <2>1. UNCHANGED <<truncated, listing, late, pc>> /\ pc = "probe" /\ ~late BY <1>6 DEF Probe
    <2> QED BY <2>1
  <1>7. CASE SelectStep
    <2>1. UNCHANGED <<truncated, listing, late, troubled>> /\ pc = "probe" /\ pc' = "prepare"
      BY <1>7 DEF SelectStep
    <2>2. status' \in {"ok", "empty"} BY <1>7 DEF SelectStep
    <2> QED BY <2>1, <2>2
  <1>8. CASE Prepare \/ Download
    <2>1. UNCHANGED <<truncated, listing, late, pc, status>> /\ pc \in {"prepare", "download"}
      BY <1>8 DEF Prepare, Download
    <2>2. troubled => troubled'
      BY <1>8 DEF Prepare, Download, PrepareCached, PrepareDownload, PrepareFails, StorePeriods
    <2> QED BY <2>1, <2>2
  <1>9. CASE StartDownloads BY <1>9 DEF StartDownloads
  <1>10. CASE Close BY <1>10 DEF Close
  <1>11. CASE Interrupted BY <1>11 DEF Interrupted
  <1>12. CASE UNCHANGED vars BY <1>12 DEF vars
  <1> QED BY <1>1, <1>2, <1>3, <1>4, <1>5, <1>6, <1>7, <1>8, <1>9, <1>10, <1>11, <1>12 DEF Next

\* The pool of an orderly source has every one of the newest tellable reports
\* whose period is unknown.
LEMMA PoolHasNewest ==
    ASSUME TypeOK, Orderly, NEW facts, NEW s \in NewestOf(Tellable), facts[s] = NoFact, ~world[s].titled
    PROVE  s \in ProbePool(Source, facts)
  <1> DEFINE U == UnknownOf(world[s].form, Source, facts)
             L == {t \in U : FiledLater(t, s)}
  <1>1. s \in Source /\ world[s].form \in ProbeForm /\ Cardinality(NewerIn(s, Tellable)) < LastN
    BY DEF NewestOf, Tellable
  <1>2. s \in U BY <1>1 DEF UnknownOf
  <1>3. L \subseteq NewerIn(s, Tellable)
    <2> SUFFICES ASSUME NEW t \in Source, world[t].form = world[s].form, FiledLater(t, s)
                 PROVE  t \in Tellable /\ world[t].period > world[s].period
      BY DEF UnknownOf, NewerIn
    <2>1. t \in Tellable BY <1>1 DEF Tellable
    <2>2. /\ s \in Nat /\ t \in Nat
          /\ world[s].period \in Nat /\ world[t].period \in Nat
          /\ world[s].filed \in Nat /\ world[t].filed \in Nat
          /\ world[s].filed > world[t].filed <=> world[s].period > world[t].period
          /\ world[t].filed > world[s].filed <=> world[t].period > world[s].period
          /\ s # t => world[s].period # world[t].period
      BY <1>1, OrderlyReports
    <2> QED BY <2>1, <2>2 DEF FiledLater
  <1>4. NewerIn(s, Tellable) \in SUBSET Source BY DEF NewerIn, Tellable
  <1>5. /\ Cardinality(L) \in Nat /\ Cardinality(NewerIn(s, Tellable)) \in Nat
        /\ Cardinality(L) <= Cardinality(NewerIn(s, Tellable))
    BY <1>3, <1>4, PartIsSmaller
  <1>6. Cardinality(L) < LastN BY <1>1, <1>5, LimitsAreNat
  <1> DEFINE First(form) == {r \in UnknownOf(form, Source, facts) :
                 Cardinality({t \in UnknownOf(form, Source, facts) : FiledLater(t, r)}) < LastN}
  <1>7. s \in First(world[s].form) BY <1>2, <1>6
  <1>8. ProbePool(Source, facts) = UNION {First(form) : form \in ProbeForm} BY DEF ProbePool
  <1> HIDE DEF First
  <1> QED BY <1>1, <1>7, <1>8

\* What one probe does to the newest reports: it takes a report from the pool
\* and makes it known or a failure.
LEMMA ProbeDecides ==
    ASSUME IInv, Probe
    PROVE  \E s \in pool :
              /\ pool' = pool \ {s}
              /\ known'[s] = NoFact => s \in failures'
              /\ \A t \in Source \ {s} : known'[t] = known[t]
              /\ failures \subseteq failures'
  <1>0. known \in [Source -> PeriodFact] /\ pool \subseteq Source BY DEF IInv, TypeOK
  <1>1. PICK s \in pool :
           /\ pool' = pool \ {s}
           /\ Learn(s) \/ (failures' = failures \cup {s} /\ known' = known)
    BY DEF Probe, NotRead
  <1>2. CASE Learn(s)
    <2>1. known' = [known EXCEPT ![s] = TextFact(s)]
          /\ failures' = IF TextFact(s) = NoFact THEN failures \cup {s} ELSE failures
      BY <1>2 DEF Learn
    <2> QED BY <1>0, <1>1, <2>1
  <1>3. CASE failures' = failures \cup {s} /\ known' = known
    BY <1>0, <1>1, <1>3
  <1> QED BY <1>1, <1>2, <1>3

\* None of the newest reports is lost between the pool, the failures and what
\* is known.
LEMMA ProbedInvPreserved ==
    ASSUME IInv, ProbedInv, [Next]_vars
    PROVE  ProbedInv'
  <1> SUFFICES ASSUME pc' = "probe", ~skipped', listing' = Source, Orderly,
                      NEW s \in NewestOf(Tellable), known'[s] = NoFact
               PROVE  s \in pool' \cup failures'
    <2>1. /\ Orderly' <=> Orderly
          /\ (NewestOf(Tellable))' = NewestOf(Tellable) /\ Tellable' = Tellable
      BY WorldStays
    <2> QED BY <2>1 DEF ProbedInv
  <1>0. s \in Source BY DEF NewestOf, Tellable
  <1> USE DEF archive, probe, result, input
  <1>1. CASE Begin \/ DiscoverFails \/ SelectStep \/ StartDownloads \/ Close \/ Interrupted
    BY <1>1 DEF Begin, DiscoverFails, SelectStep, StartDownloads, Close, Interrupted
  <1>2. CASE Prepare \/ Download BY <1>2 DEF Prepare, Download
  <1>3. CASE SkipProbes BY <1>3 DEF SkipProbes
  <1>4. CASE Expire \/ UNCHANGED vars BY <1>4 DEF Expire, vars, ProbedInv
  <1>5. CASE Discover
    <2>1. known' = Backfilled /\ pool' = ProbePool(Source, Backfilled) BY <1>5 DEF Discover
    <2>2. Backfilled[s] = NoFact /\ TitleFact(s) = NoFact BY <1>0, <2>1 DEF Backfilled
    <2>3. ~world[s].titled BY <1>0, <2>2, TitledIsKnown
    <2> QED BY <2>1, <2>2, <2>3, PoolHasNewest DEF IInv
  <1>6. CASE Probe
    <2>1. PICK t \in pool :
              /\ pool' = pool \ {t}
              /\ known'[t] = NoFact => t \in failures'
              /\ \A u \in Source \ {t} : known'[u] = known[u]
              /\ failures \subseteq failures'
      BY <1>6, ProbeDecides
    <2>2. CASE s = t BY <2>1, <2>2
    <2>3. CASE s # t
      <3>1. known[s] = NoFact BY <1>0, <2>1, <2>3
      <3>2. pc = "probe" /\ ~skipped /\ listing = Source BY <1>6 DEF Probe
      <3>3. s \in pool \cup failures BY <3>1, <3>2 DEF ProbedInv
      <3> QED BY <2>1, <2>3, <3>3
    <2> QED BY <2>2, <2>3
  <1> QED BY <1>1, <1>2, <1>3, <1>4, <1>5, <1>6 DEF Next

\* In an orderly source a failed probe that is not counted as omitted is older
\* than everything that was selected.
LEMMA OmittedNone ==
    ASSUME TypeOK, Orderly, NEW failed \in SUBSET Source, NEW chosen \in SUBSET Source,
           Omitted(failed, chosen) = {}, NEW u \in failed \ chosen, NEW v \in chosen
    PROVE  world[u].filed < world[v].filed
  <1> DEFINE dates == {world[t].filed : t \in chosen} \ {NoDate}
  <1>1. \A t \in Source : world[t].filed \in Nat /\ world[t].filed # NoDate
    BY OrderlyReports DEF Orderly
  <1>2. dates \in SUBSET Nat /\ world[v].filed \in dates BY <1>1
  <1>3. Min(dates) \in Nat /\ Min(dates) <= world[v].filed BY <1>2, MinIsLeast
  <1>4. ~(world[u].filed >= Min(dates)) BY <1>1 DEF Omitted
  <1>5. world[u].filed \in Nat /\ world[v].filed \in Nat BY <1>1
  <1> HIDE DEF dates
  <1> QED BY <1>3, <1>4, <1>5

\* What the selection of a fetch that has seen the whole source is made of.
LEMMA SelectsForemost ==
    ASSUME IInv, TellInv, SelectStep, Orderly, listing = Source,
           "no_full" \notin warnings' \/ AllFull
    PROVE  \E facts \in [Source -> PeriodFact] :
              /\ AllFull /\ selected' = Foremost(facts)
              /\ \A s \in Source : known[s] # NoFact => facts[s] # NoFact
              /\ \A s \in Source \ Tellable : facts[s] = NoFact
              /\ "omitted" \notin warnings' =>
                    Omitted({s \in failures : facts[s] = NoFact}, selected') = {}
  <1> DEFINE facts == WithEvidence(Rescued)
             W == SelectionWarnings(Candidates(Source, facts), selected', Preference)
             omitted == Omitted({s \in failures : facts[s] = NoFact}, selected')
  <1>1. /\ facts \in [Source -> PeriodFact]
        /\ \A s \in Source : Told(facts[s], s)
        /\ \A s \in Source : known[s] # NoFact => facts[s] = known[s]
    BY EvidenceFacts
  <1>2. selected' = Select(Source, facts) BY DEF SelectStep
  <1>3. warnings' = W \cup {w \in {"omitted"} : omitted # {}} BY DEF SelectStep
  <1>4. \A s \in Source \ Tellable : facts[s] = NoFact
    BY DEF WithEvidence, Rescued, TellInv, Tellable
  <1> HIDE DEF facts, W, omitted
  <1>5. "no_full" \notin W \/ AllFull BY <1>3
  <1>6. AllFull /\ Select(Source, facts) = Foremost(facts)
    BY <1>1, <1>5, OrderlySelect DEF IInv, W
  <1>7. "omitted" \notin warnings' => omitted = {} BY <1>3
  <1>8. \A s \in Source : known[s] # NoFact => facts[s] # NoFact BY <1>1
  <1> QED BY <1>1, <1>2, <1>4, <1>6, <1>7, <1>8 DEF omitted

\* After the selection a fetch keeps its list and what it has selected.
LEMMA ChoiceStays ==
    ASSUME [Next]_vars, ~SelectStep, pc' \in {"prepare", "download"}
    PROVE  /\ pc \in {"prepare", "download"}
           /\ UNCHANGED <<listing, selected, skipped, lastOk>>
           /\ warnings' = warnings
  <1> USE DEF archive, probe, result, input
  <1>1. CASE Begin \/ DiscoverFails \/ Discover \/ SkipProbes \/ Close \/ Interrupted
    BY <1>1 DEF Begin, DiscoverFails, Discover, SkipProbes, Close, Interrupted
  <1>2. CASE Expire \/ Probe \/ UNCHANGED vars BY <1>2 DEF Expire, Probe, vars
  <1>3. CASE Prepare \/ StartDownloads \/ Download BY <1>3 DEF Prepare, StartDownloads, Download
  <1> QED BY <1>1, <1>2, <1>3 DEF Next

\* What is selected without a warning is the newest.
LEMMA ChoiceInvPreserved ==
    ASSUME IInv, TellInv, ProbedInv, ChoiceInv, [Next]_vars
    PROVE  ChoiceInv'
  <1> SUFFICES ASSUME pc' \in {"prepare", "download"}, listing' = Source, Orderly,
                      "no_full" \notin warnings'
               PROVE  /\ AllFull
                      /\ (/\ ~skipped' /\ "omitted" \notin warnings'
                          /\ Cardinality(selected') = LastN /\ selected' \subseteq Tellable)
                            => selected' = NewestOf(Tellable)
    <2>1. /\ Orderly' <=> Orderly
          /\ AllFull' <=> AllFull
          /\ (NewestOf(Tellable))' = NewestOf(Tellable) /\ Tellable' = Tellable
      BY WorldStays
    <2> QED BY <2>1 DEF ChoiceInv
  <1>1. CASE ~SelectStep
    BY <1>1, ChoiceStays DEF ChoiceInv
  <1>2. CASE SelectStep
    <2>1. listing = Source /\ pc = "probe" /\ pool = {} /\ skipped' = skipped
      BY <1>2 DEF SelectStep, input, probe
    <2>2. PICK facts \in [Source -> PeriodFact] :
              /\ AllFull /\ selected' = Foremost(facts)
              /\ \A s \in Source : known[s] # NoFact => facts[s] # NoFact
              /\ \A s \in Source \ Tellable : facts[s] = NoFact
              /\ "omitted" \notin warnings' =>
                    Omitted({s \in failures : facts[s] = NoFact}, selected') = {}
      BY <1>2, <2>1, SelectsForemost
    <2>3. ASSUME ~skipped', "omitted" \notin warnings', Cardinality(selected') = LastN,
                 selected' \subseteq Tellable
          PROVE  selected' = NewestOf(Tellable)
      <3> DEFINE failed == {s \in failures : facts[s] = NoFact}
      <3>1. failed \in SUBSET Source /\ Omitted(failed, selected') = {}
        BY <2>2, <2>3 DEF IInv, TypeOK
      <3>2. selected' \in SUBSET Source BY <2>2 DEF Foremost
      <3>3. ASSUME NEW u \in NewestOf(Tellable) \ selected', NEW v \in selected', facts[u] = NoFact
            PROVE  world[u].filed < world[v].filed
        <4>1. u \in Source BY DEF NewestOf, Tellable
        <4>2. known[u] = NoFact BY <2>2, <3>3, <4>1
        <4>3. u \in failures BY <2>1, <2>3, <4>2 DEF ProbedInv
        <4>4. u \in failed \ selected' BY <3>3, <4>3
        <4> HIDE DEF failed
        <4> QED BY <3>1, <3>2, <4>4, OmittedNone DEF IInv
      <3> QED BY <2>2, <2>3, <3>3, ForemostAreNewest DEF IInv
    <2> QED BY <2>2, <2>3
  <1> QED BY <1>1, <1>2

\* After a fetch that ended ok, the selection from the whole source is the same.
LEMMA WarmInvPreserved ==
    ASSUME IInv, TellInv, HistInv, WarmInv, [Next]_vars
    PROVE  WarmInv'
  <1> SUFFICES ASSUME pc' \in {"prepare", "download"}, Orderly, lastOk' # {}, listing' = Source
               PROVE  selected' = lastOk'
    BY WorldStays DEF WarmInv
  <1>1. CASE ~SelectStep
    BY <1>1, ChoiceStays DEF WarmInv
  <1>2. CASE SelectStep
    <2>1. listing = Source /\ pc = "probe" /\ lastOk' = lastOk BY <1>2 DEF SelectStep, input
    <2>2. /\ AllFull /\ lastOk = NewestOf(Tellable) /\ Cardinality(lastOk) = LastN
          /\ \A s \in lastOk : fact[s] # NoFact
      BY <2>1 DEF HistInv
    <2>3. PICK facts \in [Source -> PeriodFact] :
              /\ selected' = Foremost(facts)
              /\ \A s \in Source : known[s] # NoFact => facts[s] # NoFact
              /\ \A s \in Source \ Tellable : facts[s] = NoFact
      BY <1>2, <2>1, <2>2, SelectsForemost
    <2>4. \A s \in NewestOf(Tellable) : facts[s] # NoFact
      <3> SUFFICES ASSUME NEW s \in NewestOf(Tellable) PROVE facts[s] # NoFact OBVIOUS
      <3>1. s \in Source BY DEF NewestOf, Tellable
      <3>2. known[s] # NoFact BY <2>1, <2>2, <3>1 DEF IInv, KnownInv
      <3> QED BY <2>3, <3>1, <3>2
    <2>5. Foremost(facts) = NewestOf(Tellable)
      BY <2>2, <2>3, <2>4, KnownNewestAreForemost DEF IInv
    <2> QED BY <2>1, <2>2, <2>3, <2>5
  <1> QED BY <1>1, <1>2

\* What the archive has found or downloaded is held while the fetch goes on.
LEMMA HeldInvPreserved ==
    ASSUME IInv, HeldInv, [Next]_vars
    PROVE  HeldInv'
  <1>0. Types BY TypeParts DEF IInv
  <1>1. CASE Begin BY <1>1 DEF Begin, HeldInv
  <1>2. CASE DiscoverFails \/ Expire \/ SkipProbes \/ Close \/ Interrupted \/ UNCHANGED vars
    BY <1>2 DEF DiscoverFails, Expire, SkipProbes, Close, Interrupted, vars, archive, result, HeldInv
  <1>3. CASE Discover \/ Probe BY <1>3 DEF Discover, Probe, archive, result, HeldInv
  <1>4. CASE SelectStep
    <2>1. \A s \in selected' : items'[s] = "todo" BY <1>4 DEF SelectStep
    <2> QED BY <2>1 DEF HeldInv
  <1>5. CASE StartDownloads
    <2>1. items' = [s \in selected |-> IF late /\ items[s] = "pending" THEN "failed" ELSE items[s]]
          /\ UNCHANGED <<selected, held>>
      BY <1>5 DEF StartDownloads, archive
    <2> QED BY <2>1 DEF HeldInv
  <1>6. ASSUME NEW s \in selected, NEW i, items' = [items EXCEPT ![s] = i], selected' = selected,
               held \ {s} \subseteq held', i \in {"cached", "downloaded"} => s \in held'
        PROVE  HeldInv'
    <2>1. items \in [selected -> Item] BY <1>0 DEF Types, ResultType
    <2> SUFFICES ASSUME NEW t \in selected, items'[t] \in {"cached", "downloaded"}
                 PROVE  t \in held'
      BY <1>6 DEF HeldInv
    <2>2. CASE t = s BY <1>6, <2>1, <2>2
    <2>3. CASE t # s BY <1>6, <2>1, <2>3 DEF HeldInv
    <2> QED BY <2>2, <2>3
  <1>7. CASE Prepare
    <2>1. selected' = selected BY <1>7 DEF Prepare
    <2>2. PICK s \in selected : PrepareCached(s) \/ PrepareDownload(s) \/ PrepareFails(s)
      BY <1>7 DEF Prepare
    <2>3. CASE PrepareCached(s) BY <1>6, <2>1, <2>3 DEF PrepareCached
    <2>4. CASE PrepareDownload(s) BY <1>6, <2>1, <2>4 DEF PrepareDownload
    <2>5. CASE PrepareFails(s) BY <1>6, <2>1, <2>5 DEF PrepareFails
    <2> QED BY <2>2, <2>3, <2>4, <2>5
  <1>8. CASE Download
    <2>1. selected' = selected BY <1>8 DEF Download
    <2>2. PICK s \in selected :
             \/ items' = [items EXCEPT ![s] = "downloaded"] /\ held' = held \cup {s}
             \/ items' = [items EXCEPT ![s] = "failed"] /\ held' \in {held, held \ {s}}
      BY <1>8 DEF Download
    <2> QED BY <1>6, <2>1, <2>2
  <1> QED BY <1>1, <1>2, <1>3, <1>4, <1>5, <1>7, <1>8 DEF Next

\* What it takes to end ok.
LEMMA OkTakes ==
    ASSUME IInv, TellInv, StageInv, ChoiceInv, HeldInv, Close, FinalStatus = "ok"
    PROVE  /\ selected # {} /\ selected \subseteq held
           /\ \A s \in selected : fact[s] # NoFact
           /\ Cardinality(selected) = LastN
           /\ Orderly /\ ~skipped => AllFull /\ selected = NewestOf(Tellable)
  <1>0. Types BY TypeParts DEF IInv
  <1>1. status \notin {"empty", "failed"} BY DEF FinalStatus
  <1>2. /\ Usable # {} /\ Usable = selected /\ FinalWarnings = {} /\ ~truncated
        /\ ~(Cardinality(selected) < LastN)
    BY DEF FinalStatus
  <1>3. pc = "download" BY <1>1 DEF Close, StageInv
  <1>4. listing = Source BY <1>2, <1>3 DEF StageInv
  <1>5. \A s \in selected : /\ s \in Source /\ items[s] \in {"cached", "downloaded"}
                            /\ known[s] # NoFact
    BY <1>0, <1>2 DEF Usable, FinalWarnings, Types, ResultType, SourceType
  <1>6. selected \subseteq held BY <1>5 DEF HeldInv
  <1>7. \A s \in selected : fact[s] # NoFact BY <1>5 DEF IInv, ItemInv
  <1>8. Cardinality(selected) = LastN
    <2>1. selected \in SUBSET Source BY <1>5
    <2>2. Cardinality(selected) \in Nat BY <2>1, PartIsSmaller
    <2>3. Cardinality(selected) <= LastN BY <1>0 DEF Types, ResultType
    <2> QED BY <1>2, <2>2, <2>3, LimitsAreNat
  <1>9. selected \subseteq Tellable BY <1>5 DEF TellInv
  <1>10. "no_full" \notin warnings /\ "omitted" \notin warnings BY <1>2 DEF FinalWarnings
  <1>11. Orderly /\ ~skipped => AllFull /\ selected = NewestOf(Tellable)
    BY <1>3, <1>4, <1>8, <1>9, <1>10 DEF ChoiceInv
  <1> QED BY <1>2, <1>6, <1>7, <1>8, <1>11

\* A fetch that ends ok is the latest that did, until another begins.
LEMMA OkInvPreserved ==
    ASSUME IInv, TellInv, StageInv, ChoiceInv, HeldInv, OkInv, [Next]_vars
    PROVE  OkInv'
  <1> SUFFICES ASSUME pc' = "idle", status' = "ok", ~skipped'
               PROVE  lastOk' = selected' /\ selected' # {} /\ selected' \subseteq held'
    BY DEF OkInv
  <1> USE DEF archive, probe, result, input
  <1>1. CASE Begin \/ DiscoverFails \/ Discover \/ SelectStep \/ StartDownloads \/ Interrupted
    BY <1>1 DEF Begin, DiscoverFails, Discover, SelectStep, StartDownloads, Interrupted
  <1>2. CASE SkipProbes \/ Probe \/ Expire BY <1>2 DEF SkipProbes, Probe, Expire
  <1>3. CASE Prepare \/ Download BY <1>3 DEF Prepare, Download
  <1>4. CASE UNCHANGED vars BY <1>4 DEF vars, OkInv
  <1>5. CASE Close
    <2>1. FinalStatus = "ok" /\ ~skipped /\ UNCHANGED <<selected, held>>
          /\ lastOk' = IF FinalStatus = "ok" /\ ~skipped THEN selected ELSE lastOk
      BY <1>5 DEF Close
    <2> QED BY <1>5, <2>1, OkTakes
  <1> QED BY <1>1, <1>2, <1>3, <1>4, <1>5 DEF Next

\* What such a fetch has selected stays the newest, with its periods.
LEMMA HistInvPreserved ==
    ASSUME IInv, TellInv, StageInv, ChoiceInv, HeldInv, HistInv, [Next]_vars
    PROVE  HistInv'
  <1> SUFFICES ASSUME lastOk' # {}, Orderly
               PROVE  /\ AllFull /\ lastOk' = NewestOf(Tellable) /\ Cardinality(lastOk') = LastN
                      /\ \A s \in lastOk' : fact'[s] # NoFact
    <2>1. /\ Orderly' <=> Orderly
          /\ AllFull' <=> AllFull
          /\ (NewestOf(Tellable))' = NewestOf(Tellable) /\ Tellable' = Tellable
      BY WorldStays
    <2> QED BY <2>1 DEF HistInv
  <1>1. CASE lastOk' = lastOk
    <2>1. /\ AllFull /\ lastOk = NewestOf(Tellable) /\ Cardinality(lastOk) = LastN
          /\ \A s \in lastOk : fact[s] # NoFact
      BY <1>1 DEF HistInv
    <2>2. lastOk \subseteq Source BY <2>1 DEF NewestOf, Tellable
    <2>3. \A s \in lastOk : fact'[s] # NoFact BY <2>1, <2>2, FactStays
    <2> QED BY <1>1, <2>1, <2>3
  <1>2. CASE lastOk' # lastOk
    <2>1. Close
      BY <1>2 DEF Next, Begin, Expire, DiscoverFails, Discover, SkipProbes, Probe, SelectStep, Prepare,
                  StartDownloads, Download, Interrupted, vars
    <2>2. FinalStatus = "ok" /\ ~skipped /\ lastOk' = selected /\ fact' = fact
      BY <1>2, <2>1 DEF Close, archive
    <2> QED BY <2>1, <2>2, OkTakes
  <1> QED BY <1>1, <1>2

-----------------------------------------------------------------------------
(* The theorems *)

\* IInv is an invariant of every sequence of fetches.
THEOREM Invariance == Spec => []IInv
  <1>1. IInv /\ [Next]_vars => IInv'
    BY TypeOKPreserved, FreshInvPreserved, TitleInvPreserved, KnownInvPreserved, ItemInvPreserved DEF IInv
  <1> QED BY InitInv, <1>1, PTL DEF Spec

\* Every variable has its type; in particular a period is never another than
\* the true one, and no fetch selects more than LastN reports.
THEOREM TypeCorrect == Spec => []TypeOK
  <1>1. IInv => TypeOK BY DEF IInv
  <1> QED BY <1>1, Invariance, PTL

\* The result of a fetch tells the periods that the manifest has, whatever
\* failed on the way.
THEOREM ResultIsKept == Spec => []ResultAgrees
  <1>1. IInv => ResultAgrees BY DEF IInv, ItemInv, ResultAgrees, Usable
  <1> QED BY <1>1, Invariance, PTL

\* A period in the manifest stays what it is, through all later fetches.
THEOREM PeriodsAreKept == Spec => PeriodsStay
  <1>1. IInv /\ [Next]_vars => [\A s \in Source : fact[s] # NoFact => fact'[s] = fact[s]]_vars
    BY FactStays
  <1> QED BY <1>1, Invariance, PTL DEF Spec, PeriodsStay

\* The second layer is an invariant too.
THEOREM OkLayerInvariance == Spec => []OkLayer
  <1>1. IInv /\ OkLayer /\ [Next]_vars => OkLayer'
    <2> SUFFICES ASSUME IInv, OkLayer, [Next]_vars PROVE OkLayer' OBVIOUS
    <2>1. TellInv /\ StageInv /\ ProbedInv /\ ChoiceInv /\ HeldInv /\ OkInv /\ HistInv /\ WarmInv
      BY DEF OkLayer
    <2>2. TellInv' /\ StageInv' /\ ProbedInv' /\ ChoiceInv'
      BY <2>1, TellInvPreserved, StageInvPreserved, ProbedInvPreserved, ChoiceInvPreserved
    <2>3. HeldInv' /\ OkInv' /\ HistInv' /\ WarmInv'
      BY <2>1, HeldInvPreserved, OkInvPreserved, HistInvPreserved, WarmInvPreserved
    <2> QED BY <2>2, <2>3 DEF OkLayer
  <1> QED BY InitOkLayer, <1>1, Invariance, PTL DEF Spec

\* The status ok is earned: for any source whose reports are filed in the order
\* of their periods and whose quarterly titles tell theirs, any archive and any
\* failures, a fetch that ends ok and skipped no probe has selected exactly the
\* newest full reports, and the archive holds them.
THEOREM OkIsEarned == Spec => []OkMeansNewest
  <1>1. IInv /\ OkLayer => OkMeansNewest
    <2> SUFFICES ASSUME IInv, OkLayer, pc = "idle", status = "ok", ~skipped, Orderly, QuarterliesTitled
                 PROVE  selected = NewestReports /\ selected \subseteq held
      BY DEF OkMeansNewest
    <2>1. lastOk = selected /\ selected # {} /\ selected \subseteq held BY DEF OkLayer, OkInv
    <2>2. AllFull /\ selected = NewestOf(Tellable) BY <2>1 DEF OkLayer, HistInv
    <2>3. Tellable = Source BY DEF Tellable, QuarterliesTitled
    <2>4. FullReports = Source BY <2>2 DEF AllFull, FullReports
    <2>5. NewestOf(Tellable) = NewestReports BY <2>3, <2>4 DEF NewestOf, NewerIn, NewestReports
    <2> QED BY <2>1, <2>2, <2>5
  <1> QED BY <1>1, Invariance, OkLayerInvariance, PTL

\* After a fetch that ended ok, a preview that reads no text selects the same
\* reports from what the manifest has learnt.
THEOREM PreviewsAgree == Spec => []PreviewAgrees
  <1>1. IInv /\ OkLayer => PreviewAgrees
    <2> SUFFICES ASSUME IInv, OkLayer, pc = "idle", status = "ok", ~skipped, Orderly
                 PROVE  PreviewReports = selected
      BY DEF PreviewAgrees
    <2>0. Types BY TypeParts DEF IInv
    <2>1. lastOk = selected /\ selected # {} BY DEF OkLayer, OkInv
    <2>2. /\ AllFull /\ selected = NewestOf(Tellable) /\ Cardinality(NewestOf(Tellable)) = LastN
          /\ \A s \in selected : fact[s] # NoFact
      BY <2>1 DEF OkLayer, HistInv
    <2>3. /\ Backfilled \in [Source -> PeriodFact]
          /\ \A s \in Source : Told(Backfilled[s], s)
      BY <2>0, FactsAreTrue DEF IInv, Backfilled, Types, FactType, Told
    <2>4. \A s \in NewestOf(Tellable) : Backfilled[s] # NoFact
      BY <2>2 DEF Backfilled, NewestOf, Tellable
    <2>5. \A s \in Source \ Tellable : Backfilled[s] = NoFact
      BY TitledIsKnown DEF Backfilled, OkLayer, TellInv, Tellable
    <2>6. Select(Source, Backfilled) = Foremost(Backfilled)
      BY <2>2, <2>3, OrderlySelect DEF IInv
    <2>7. Foremost(Backfilled) = NewestOf(Tellable)
      BY <2>2, <2>4, <2>5, KnownNewestAreForemost DEF IInv
    <2> QED BY <2>2, <2>6, <2>7 DEF PreviewReports
  <1> QED BY <1>1, Invariance, OkLayerInvariance, PTL

\* A later fetch in which nothing fails selects what the latest one that ended
\* ok did, however warm the archive is.
THEOREM WarmIsKept == Spec => WarmKeeps
  <1>1. IInv /\ OkLayer /\ [Next]_vars =>
           [FetchEnds /\ Orderly /\ lastOk # {} /\ ~troubled /\ listing = Source
              => selected = lastOk]_vars
    <2> SUFFICES ASSUME IInv, OkLayer, Next, FetchEnds, Orderly, lastOk # {}, ~troubled, listing = Source
                 PROVE  selected = lastOk
      OBVIOUS
    <2>1. pc \in {"download", "close"}
      <3>1. pc # "idle" /\ pc' = "idle" /\ status' # "raised" BY DEF FetchEnds
      <3> QED BY <3>1 DEF Next, Begin, Expire, DiscoverFails, Discover, SkipProbes, Probe, SelectStep,
                          Prepare, StartDownloads, Download, Close, Interrupted
    <2>2. pc = "download" BY <2>1 DEF OkLayer, StageInv
    <2> QED BY <2>2 DEF OkLayer, WarmInv
  <1> QED BY <1>1, Invariance, OkLayerInvariance, PTL DEF Spec, WarmKeeps

=============================================================================
