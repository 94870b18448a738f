-------------------------- MODULE SelectionProofs --------------------------
(* Facts about the version selection, for any finite set of candidates. *)
EXTENDS Selection, FiniteSetTheorems, WellFoundedInduction, TLAPS

\* The fields that the orders look at.
IsVersion(r) == {r.id, r.period, r.filed, r.accepted} \subseteq Nat /\ r.amended \in BOOLEAN

\* Candidates as discovery gives them: one for each id.
IsCandidates(C) ==
    /\ \A r \in C : IsVersion(r)
    /\ IsFiniteSet(C)
    /\ \A a, b \in C : a.id = b.id => a = b

-----------------------------------------------------------------------------
(* The orders *)

\* _version_sort_key is a strict order.
LEMMA LaterIsStrict ==
    ASSUME NEW a, NEW b, NEW c, IsVersion(a), IsVersion(b), IsVersion(c)
    PROVE  /\ ~Later(a, a)
           /\ Later(a, b) /\ Later(b, c) => Later(a, c)
  <1>1. /\ {a.id, b.id, c.id, a.filed, b.filed, c.filed} \subseteq Nat
        /\ {a.accepted, b.accepted, c.accepted} \subseteq Nat
        /\ {a.amended, b.amended, c.amended} \subseteq BOOLEAN
    BY DEF IsVersion
  <1> QED BY <1>1 DEF Later

\* It tells any two candidates apart.
LEMMA LaterIsTotal ==
    ASSUME NEW a, NEW b, IsVersion(a), IsVersion(b), a.id # b.id
    PROVE  Later(a, b) \/ Later(b, a)
  <1>1. /\ {a.id, b.id, a.filed, b.filed, a.accepted, b.accepted} \subseteq Nat
        /\ {a.amended, b.amended} \subseteq BOOLEAN
    BY DEF IsVersion
  <1> QED BY <1>1 DEF Later

\* _group_order_key is a strict order that tells any two candidates apart.
LEMMA AheadIsOrder ==
    ASSUME NEW a, NEW b, NEW c, IsVersion(a), IsVersion(b), IsVersion(c)
    PROVE  /\ ~Ahead(a, a)
           /\ Ahead(a, b) /\ Ahead(b, c) => Ahead(a, c)
           /\ a.id # b.id => Ahead(a, b) \/ Ahead(b, a)
  <1>1. {a.id, b.id, c.id, a.filed, b.filed, c.filed, a.period, b.period, c.period} \subseteq Nat
    BY DEF IsVersion
  <1> QED BY <1>1 DEF Ahead

-----------------------------------------------------------------------------
(* The chosen version of a group *)

\* The least of a set of numbers.
LEMMA MinIsLeast ==
    ASSUME NEW S \in SUBSET Nat, S # {}
    PROVE  Min(S) \in S /\ \A j \in S : Min(S) <= j
  <1>1. PICK i \in S : \A j \in S : ~(<<j, i>> \in OpToRel(<, Nat))
    BY WFMin, NatLessThanWellFounded
  <1>2. \A j \in S : i <= j
    <2> SUFFICES ASSUME NEW j \in S PROVE i <= j OBVIOUS
    <2>1. i \in Nat /\ j \in Nat OBVIOUS
    <2>2. ~(j < i) BY <1>1, <2>1, Zenon DEF OpToRel
    <2> QED BY <2>1, <2>2
  <1> QED BY <1>2 DEF Min

\* Of candidates there is a newest, and it is one of them.
LEMMA NewestIsOne ==
    ASSUME NEW V, IsCandidates(V), V # {}
    PROVE  Newest(V) \in V /\ \A o \in V \ {Newest(V)} : Later(Newest(V), o)
  <1> DEFINE Above(r) == {o \in V : Later(o, r)}
             All == {Above(r) : r \in V}
  <1>1. All \subseteq FiniteSubsetsOf(V)
    <2> SUFFICES ASSUME NEW r \in V PROVE Above(r) \in FiniteSubsetsOf(V)
      OBVIOUS
    <2> QED BY FS_Subset DEF FiniteSubsetsOf, IsCandidates
  <1>2. PICK U \in All : \A W \in All : <<W, U>> \notin StrictSubsetOrdering(V)
    <2>1. All # {} OBVIOUS
    <2>2. IsWellFoundedOn(StrictSubsetOrdering(V), FiniteSubsetsOf(V))
      BY FS_StrictSubsetOrderingWellFounded
    <2> HIDE DEF All
    <2> QED BY <1>1, <2>1, <2>2, WFMin
  <1>3. PICK r \in V : U = Above(r) OBVIOUS
  <1>4. Above(r) = {}
    <2> SUFFICES ASSUME NEW q \in Above(r) PROVE FALSE OBVIOUS
    <2>1. Above(q) \subseteq Above(r) /\ q \notin Above(q)
      BY LaterIsStrict DEF IsCandidates
    <2>2. <<Above(q), Above(r)>> \in StrictSubsetOrdering(V)
      BY <2>1 DEF StrictSubsetOrdering
    <2> QED BY <1>2, <1>3, <2>2
  <1>5. \A o \in V \ {r} : Later(r, o)
    BY <1>4, LaterIsTotal DEF IsCandidates
  <1> QED BY <1>5 DEF Newest

\* _select_language leaves a version whenever there is one to choose from.
LEMMA LanguageLeavesOne ==
    ASSUME NEW g, NEW preference \in Seq(STRING), FullVersions(g) # {}
    PROVE  InLanguage(g, preference) # {}
  <1> DEFINE offered == {i \in DOMAIN preference : preference[i] \in Languages(g)}
  <1>1. CASE Cardinality(Languages(g)) <= 1 \/ offered = {}
    BY <1>1 DEF InLanguage
  <1>2. CASE ~(Cardinality(Languages(g)) <= 1 \/ offered = {})
    <2>1. offered \subseteq Nat /\ offered # {} BY <1>2
    <2>2. Min(offered) \in offered BY <2>1, MinIsLeast
    <2>3. PICK r \in FullVersions(g) : preference[Min(offered)] = r.language
      BY <2>2 DEF Languages
    <2>4. InLanguage(g, preference) = {q \in FullVersions(g) : q.language = preference[Min(offered)]}
      BY <1>2 DEF InLanguage
    <2> QED BY <2>3, <2>4
  <1> QED BY <1>1, <1>2

\* The chosen versions are candidates with a full text.
LEMMA HeadsAreFull ==
    ASSUME NEW C, IsCandidates(C), NEW preference \in Seq(STRING)
    PROVE  Heads(C, preference) \subseteq FullVersions(C)
  <1> SUFFICES ASSUME NEW g \in Groups(C), FullVersions(g) # {}
               PROVE  Newest(InLanguage(g, preference)) \in FullVersions(C)
    BY DEF Heads
  <1> DEFINE V == InLanguage(g, preference)
  <1>1. g \subseteq C BY DEF Groups
  <1>2. V \subseteq FullVersions(g) BY DEF InLanguage
  <1>3. V \subseteq C BY <1>1, <1>2 DEF FullVersions
  <1>4. IsCandidates(V) BY <1>3, FS_Subset DEF IsCandidates
  <1>5. V # {} BY LanguageLeavesOne
  <1>6. Newest(V) \in V BY <1>4, <1>5, NewestIsOne
  <1> QED BY <1>1, <1>2, <1>6 DEF FullVersions

-----------------------------------------------------------------------------
(* Candidates that are each a group of their own *)

\* A candidate alone in its group is the version chosen for it.
LEMMA SingleIsChosen ==
    ASSUME NEW r, IsVersion(r), r.role \in FullRole, NEW preference \in Seq(STRING)
    PROVE  FullVersions({r}) = {r} /\ Newest(InLanguage({r}, preference)) = r
  <1>1. FullVersions({r}) = {r} BY DEF FullVersions
  <1>2. Languages({r}) = {r.language} BY <1>1 DEF Languages
  <1>3. Cardinality(Languages({r})) <= 1
    <2>1. Cardinality(Languages({r})) = 1 BY <1>2, FS_Singleton
    <2> QED BY <2>1
  <1>4. InLanguage({r}, preference) = {r} BY <1>1, <1>3 DEF InLanguage
  <1>5. IsCandidates({r}) BY FS_Singleton DEF IsCandidates
  <1> QED BY <1>1, <1>4, <1>5, NewestIsOne

\* Where no two candidates share a group the groups are the candidates, and
\* the quality warnings tell whether all of them are full reports.
LEMMA SinglesAreHeads ==
    ASSUME NEW C, IsCandidates(C), NEW preference \in Seq(STRING), NEW selected,
           \A a, b \in C : SameGroup(a, b) => a = b,
           "no_full" \notin SelectionWarnings(C, selected, preference) \/ C = FullVersions(C)
    PROVE  C = FullVersions(C) /\ Heads(C, preference) = C
  <1>1. \A r \in C : {o \in C : SameGroup(r, o)} = {r}
    BY DEF SameGroup
  <1>2. Groups(C) = {{r} : r \in C} BY <1>1 DEF Groups
  <1>3. C = FullVersions(C)
    <2> SUFFICES ASSUME "no_full" \notin SelectionWarnings(C, selected, preference),
                        NEW r \in C
                 PROVE  r.role \in FullRole
      BY DEF FullVersions
    <2>1. Groups(C) = {g \in Groups(C) : FullVersions(g) # {}}
      BY DEF SelectionWarnings
    <2>2. {r} \in Groups(C) BY <1>2
    <2>3. FullVersions({r}) # {} BY <2>1, <2>2
    <2> QED BY <2>3 DEF FullVersions
  <1>4. \A r \in C : FullVersions({r}) = {r} /\ Newest(InLanguage({r}, preference)) = r
    BY <1>3, SingleIsChosen DEF FullVersions, IsCandidates
  <1>5. {h \in Groups(C) : FullVersions(h) # {}} = {{r} : r \in C}
    BY <1>2, <1>4
  <1>6. Heads(C, preference) = {Newest(InLanguage(g, preference)) : g \in {{r} : r \in C}}
    BY <1>5 DEF Heads
  <1>7. Heads(C, preference) = {Newest(InLanguage({r}, preference)) : r \in C}
    BY <1>6
  <1> DEFINE new(r) == Newest(InLanguage({r}, preference))
  <1>8. Heads(C, preference) = {new(r) : r \in C} /\ \A r \in C : new(r) = r
    BY <1>4, <1>7
  <1> HIDE DEF new
  <1>9. Heads(C, preference) = C BY <1>8
  <1> QED BY <1>3, <1>9

-----------------------------------------------------------------------------
(* The newest lastN groups *)

\* select_reports selects at most lastN reports, all of them full reports of
\* the list it was given.
THEOREM SelectionIsBounded ==
    ASSUME NEW C, IsCandidates(C), NEW lastN \in Nat, NEW preference \in Seq(STRING)
    PROVE  /\ SelectReports(C, lastN, preference) \subseteq {r.id : r \in FullVersions(C)}
           /\ IsFiniteSet(SelectReports(C, lastN, preference))
           /\ Cardinality(SelectReports(C, lastN, preference)) <= lastN
  <1> DEFINE heads == Heads(C, preference)
             Ahd(h) == {g \in heads : Ahead(g, h)}
             chosen == {h \in heads : Cardinality(Ahd(h)) < lastN}
             S == SelectReports(C, lastN, preference)
  <1>1. /\ heads \subseteq FullVersions(C) /\ \A h \in heads : IsVersion(h)
        /\ IsFiniteSet(heads)
        /\ \A a, b \in heads : a.id = b.id => a = b
    BY HeadsAreFull, FS_Subset DEF FullVersions, IsCandidates
  <1>2. S = {r.id : r \in chosen} BY DEF SelectReports
  <1> HIDE DEF heads, S
  <1>3. \A h \in heads : IsFiniteSet(Ahd(h)) /\ Cardinality(Ahd(h)) \in Nat
    BY <1>1, FS_Subset, FS_CardinalityType
  <1>4. \A g, h \in heads : Ahead(g, h) => Cardinality(Ahd(g)) < Cardinality(Ahd(h))
    <2> SUFFICES ASSUME NEW g \in heads, NEW h \in heads, Ahead(g, h)
                 PROVE  Cardinality(Ahd(g)) < Cardinality(Ahd(h))
      OBVIOUS
    <2>1. Ahd(g) \subseteq Ahd(h) /\ g \in Ahd(h) /\ g \notin Ahd(g)
      BY <1>1, AheadIsOrder
    <2>2. Cardinality(Ahd(g)) <= Cardinality(Ahd(h)) /\ Cardinality(Ahd(g)) # Cardinality(Ahd(h))
      BY <2>1, <1>3, FS_Subset
    <2>3. Cardinality(Ahd(g)) \in Nat /\ Cardinality(Ahd(h)) \in Nat BY <1>3
    <2> HIDE DEF Ahd
    <2> QED BY <2>2, <2>3
  <1> DEFINE head(i) == CHOOSE h \in chosen : h.id = i
             f == [i \in S |-> Cardinality(Ahd(head(i)))]
  <1>5. \A i \in S : head(i) \in chosen /\ head(i).id = i
    BY <1>2
  <1>6. f \in Injection(S, 0..(lastN - 1))
    <2>1. f \in [S -> 0..(lastN - 1)]
      <3> SUFFICES ASSUME NEW i \in S PROVE Cardinality(Ahd(head(i))) \in 0..(lastN - 1)
        OBVIOUS
      <3> DEFINE h == head(i)
      <3>1. h \in heads /\ Cardinality(Ahd(h)) < lastN BY <1>5
      <3> HIDE DEF h
      <3>2. Cardinality(Ahd(h)) \in Nat BY <3>1, <1>3
      <3>3. Cardinality(Ahd(h)) \in 0..(lastN - 1) BY <3>1, <3>2
      <3> QED BY <3>3 DEF h
    <2>2. ASSUME NEW i \in S, NEW j \in S, i # j PROVE f[i] # f[j]
      <3> DEFINE g == head(i) h == head(j)
      <3>1. g \in heads /\ h \in heads /\ g.id # h.id BY <1>5, <2>2
      <3>2. f[i] = Cardinality(Ahd(g)) /\ f[j] = Cardinality(Ahd(h)) OBVIOUS
      <3> HIDE DEF g, h
      <3>3. Ahead(g, h) \/ Ahead(h, g) BY <3>1, <1>1, AheadIsOrder
      <3>4. Cardinality(Ahd(g)) \in Nat /\ Cardinality(Ahd(h)) \in Nat BY <3>1, <1>3
      <3>5. \/ Cardinality(Ahd(g)) < Cardinality(Ahd(h))
            \/ Cardinality(Ahd(h)) < Cardinality(Ahd(g))
        BY <3>1, <3>3, <1>4
      <3> HIDE DEF Ahd, f
      <3> QED BY <3>2, <3>4, <3>5
    <2> HIDE DEF f
    <2> QED BY <2>1, <2>2 DEF Injection, IsInjective
  <1> HIDE DEF f
  <1>7. IsFiniteSet(0..(lastN - 1)) /\ Cardinality(0..(lastN - 1)) = lastN
    BY FS_Interval
  <1>8. IsFiniteSet(S) /\ Cardinality(S) <= lastN
    BY <1>6, <1>7, FS_Injection
  <1>9. S \subseteq {r.id : r \in FullVersions(C)} BY <1>1, <1>2
  <1> QED BY <1>8, <1>9 DEF S

-----------------------------------------------------------------------------
(* Which groups are selected, and by which version *)

\* The head of a group is the latest filed full version in its language.
LEMMA HeadOfGroup ==
    ASSUME NEW C, IsCandidates(C), NEW preference \in Seq(STRING), NEW h \in Heads(C, preference)
    PROVE  \E g \in Groups(C) :
              /\ h \in g /\ h = Newest(InLanguage(g, preference))
              /\ g = {o \in C : SameGroup(h, o)}
              /\ \A o \in InLanguage(g, preference) \ {h} : Later(h, o)
  <1>1. PICK g \in Groups(C) : FullVersions(g) # {} /\ h = Newest(InLanguage(g, preference))
    BY DEF Heads
  <1> DEFINE V == InLanguage(g, preference)
  <1>2. PICK r \in C : g = {o \in C : SameGroup(r, o)} BY DEF Groups
  <1>3. V \subseteq g /\ V \subseteq C BY <1>2 DEF InLanguage, FullVersions
  <1>4. V # {} BY <1>1, LanguageLeavesOne
  <1>5. IsCandidates(V) BY <1>3, FS_Subset DEF IsCandidates
  <1>6. h \in V /\ \A o \in V \ {h} : Later(h, o) BY <1>1, <1>4, <1>5, NewestIsOne
  <1>7. h \in g /\ SameGroup(r, h) BY <1>2, <1>3, <1>6
  <1>8. \A o \in C : SameGroup(r, o) <=> SameGroup(h, o)
    BY <1>2, <1>3, <1>6, <1>7 DEF SameGroup
  <1> HIDE DEF V
  <1>9. g = {o \in C : SameGroup(h, o)} BY <1>2, <1>8
  <1> QED BY <1>1, <1>6, <1>7, <1>9 DEF V

\* The chosen versions are of different groups.
LEMMA HeadsAreApart ==
    ASSUME NEW C, IsCandidates(C), NEW preference \in Seq(STRING),
           NEW a \in Heads(C, preference), NEW b \in Heads(C, preference), SameGroup(a, b)
    PROVE  a = b
  <1>1. PICK g \in Groups(C) :
           a \in g /\ a = Newest(InLanguage(g, preference)) /\ g = {o \in C : SameGroup(a, o)}
    BY HeadOfGroup
  <1>2. PICK k \in Groups(C) :
           b \in k /\ b = Newest(InLanguage(k, preference)) /\ k = {o \in C : SameGroup(b, o)}
    BY HeadOfGroup
  <1>3. \A o \in C : SameGroup(a, o) <=> SameGroup(b, o)
    <2> SUFFICES ASSUME NEW o \in C PROVE SameGroup(a, o) <=> SameGroup(b, o) OBVIOUS
    <2>1. a \in C /\ b \in C BY <1>1, <1>2
    <2>2. a.period = NoPeriod => a = b BY <2>1 DEF SameGroup, IsCandidates
    <2>3. a.form = b.form /\ a.period = b.period BY DEF SameGroup
    <2> QED BY <2>2, <2>3 DEF SameGroup
  <1>4. g = k BY <1>1, <1>2, <1>3
  <1> QED BY <1>1, <1>2, <1>4

\* One report is never selected in two versions; what is selected stands before
\* every group that is left out; and nothing is left out while there is room.
THEOREM SelectionIsFront ==
    ASSUME NEW C, IsCandidates(C), NEW lastN \in Nat, NEW preference \in Seq(STRING)
    PROVE  LET heads == Heads(C, preference)
               S == SelectReports(C, lastN, preference)
           IN /\ \A a, b \in heads : SameGroup(a, b) => a = b
              /\ \A g, h \in heads : h.id \in S /\ g.id \notin S => Ahead(h, g)
              /\ Cardinality(S) < lastN => S = {h.id : h \in heads}
  <1> DEFINE heads == Heads(C, preference)
             Ahd(h) == {g \in heads : Ahead(g, h)}
             chosen == {h \in heads : Cardinality(Ahd(h)) < lastN}
             S == SelectReports(C, lastN, preference)
  <1>1. /\ \A h \in heads : IsVersion(h)
        /\ IsFiniteSet(heads)
        /\ \A a, b \in heads : a.id = b.id => a = b
    BY HeadsAreFull, FS_Subset DEF FullVersions, IsCandidates
  <1>2. S = {r.id : r \in chosen} BY DEF SelectReports
  <1>3. \A a, b \in heads : SameGroup(a, b) => a = b BY HeadsAreApart
  <1> HIDE DEF heads, S
  <1>4. \A h \in heads : h.id \in S <=> h \in chosen BY <1>1, <1>2
  <1>5. \A h \in heads : IsFiniteSet(Ahd(h)) /\ Cardinality(Ahd(h)) \in Nat
    BY <1>1, FS_Subset, FS_CardinalityType
  <1>6. ASSUME NEW g \in heads, NEW h \in heads, h \in chosen, g \notin chosen
        PROVE  Ahead(h, g)
    <2>1. ~Ahead(g, h)
      <3> SUFFICES ASSUME Ahead(g, h) PROVE FALSE OBVIOUS
      <3>1. Ahd(g) \subseteq Ahd(h) BY <1>1, AheadIsOrder
      <3>2. Cardinality(Ahd(g)) <= Cardinality(Ahd(h)) BY <1>5, <3>1, FS_Subset
      <3>3. Cardinality(Ahd(h)) < lastN /\ ~(Cardinality(Ahd(g)) < lastN) BY <1>6
      <3>4. Cardinality(Ahd(g)) \in Nat /\ Cardinality(Ahd(h)) \in Nat BY <1>5
      <3> HIDE DEF Ahd, chosen
      <3> QED BY <3>2, <3>3, <3>4
    <2>2. g.id # h.id BY <1>1, <1>6
    <2> QED BY <1>1, <2>1, <2>2, AheadIsOrder
  <1>7. ASSUME Cardinality(S) < lastN, NEW g \in heads, g \notin chosen
        PROVE  FALSE
    <2> DEFINE Out == {h \in heads : h \notin chosen}
               Fronts == {Ahd(h) : h \in Out}
    <2>1. Fronts \subseteq FiniteSubsetsOf(heads)
      BY <1>5 DEF FiniteSubsetsOf
    <2>2. Fronts # {} BY <1>7
    <2> HIDE DEF Fronts
    <2>3. PICK U \in Fronts : \A W \in Fronts : <<W, U>> \notin StrictSubsetOrdering(heads)
      BY <1>1, <2>1, <2>2, FS_StrictSubsetOrderingWellFounded, WFMin
    <2>4. PICK o \in Out : U = Ahd(o) BY <2>3 DEF Fronts
    <2>5. Ahd(o) \subseteq chosen
      <3> SUFFICES ASSUME NEW q \in Ahd(o), q \notin chosen PROVE FALSE OBVIOUS
      <3>1. q \in heads /\ Ahd(q) \in Fronts BY DEF Fronts
      <3>2. Ahd(q) \subseteq Ahd(o) /\ q \notin Ahd(q) BY <1>1, <3>1, AheadIsOrder
      <3>3. <<Ahd(q), Ahd(o)>> \in StrictSubsetOrdering(heads)
        BY <3>2 DEF StrictSubsetOrdering
      <3> QED BY <2>3, <2>4, <3>1, <3>3
    <2>6. Cardinality(chosen) = Cardinality(S) /\ IsFiniteSet(chosen)
      <3> DEFINE f == [h \in chosen |-> h.id]
      <3>1. f \in [chosen -> S] BY <1>2
      <3>2. \A a, b \in chosen : f[a] = f[b] => a = b BY <1>1
      <3>3. \A i \in S : \E h \in chosen : f[h] = i BY <1>2
      <3>4. IsFiniteSet(chosen) BY <1>1, FS_Subset
      <3> HIDE DEF f, chosen
      <3>5. f \in Bijection(chosen, S) BY <3>1, <3>2, <3>3 DEF Bijection, Injection, IsInjective, Surjection
      <3>6. ExistsBijection(chosen, S) BY <3>5 DEF ExistsBijection
      <3> QED BY <3>4, <3>6, FS_Bijection
    <2>7. Cardinality(Ahd(o)) <= Cardinality(chosen) BY <2>5, <2>6, FS_Subset
    <2>8. o \in heads /\ ~(Cardinality(Ahd(o)) < lastN) BY <2>4
    <2>9. Cardinality(Ahd(o)) \in Nat /\ Cardinality(chosen) \in Nat
      BY <1>5, <2>6, <2>8, FS_CardinalityType
    <2> HIDE DEF Ahd, chosen
    <2> QED BY <1>7, <2>6, <2>7, <2>8, <2>9
  <1>8. Cardinality(S) < lastN => S = {h.id : h \in heads}
    <2> SUFFICES ASSUME Cardinality(S) < lastN PROVE S = {h.id : h \in heads} OBVIOUS
    <2>1. chosen = heads BY <1>7
    <2> QED BY <1>2, <2>1
  <1>9. \A g, h \in heads : h.id \in S /\ g.id \notin S => Ahead(h, g)
    BY <1>4, <1>6
  <1> QED BY <1>3, <1>8, <1>9 DEF heads, S

=============================================================================
