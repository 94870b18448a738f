-------------------------- MODULE DiscoveryProofs --------------------------
(***************************************************************************)
(* Proofs about Discovery, for any histories, sizes, budgets and bounds.   *)
(***************************************************************************)
EXTENDS Discovery, FiniteSetTheorems, TLAPS

\* The source: its rows are in order of their filing, and what EDGAR's cache
\* stands for is not older than the session.
SourceInv ==
    /\ Archived < opened
    /\ \A i, j \in DOMAIN rows : i <= j => rows[j].age <= rows[i].age
    /\ submissions # {} => \E n \in opened..Len(rows) : submissions = 1..n

\* A listing begins with nothing, and never before its session.
LocalInv ==
    /\ "history" \in warned => market = "US"
    /\ pc = "resolved" =>
         /\ seen = {} /\ ~truncated /\ ~exhausted /\ warned = {} /\ ~cut
         /\ page = 1 /\ used = 0 /\ sent = 0 /\ search = "results"
         /\ market = "US" => submissions # {}
    /\ pc \in {"list", "done"} => opened <= start

\* Requests that are not counted are those of EDGAR's files that failed.
SpentInv ==
    /\ BudgetKept
    /\ pc = "list" /\ "history" \notin warned => sent = used
    /\ pc = "list" /\ market = "US" => sent + Len(todo) <= used + FileCount

Same(i, j) == market = "HK" => rows[i].search = rows[j].search

\* What was seen is the newest part of what was asked for.
Upward ==
    ~cut /\ "history" \notin warned =>
        \A j \in seen, i \in 1..start : Asked(i) /\ i > j /\ Same(i, j) => i \in seen

\* How many rows of a set a source lists before row i.
Newer(i, set) == Cardinality({j \in set : j > i})

\* CNINFO: the last window is the whole look-back, and the pages read so far
\* were the first ones of the window at hand, whatever was published meanwhile.
CnInv ==
    /\ todo # <<>> /\ todo[Len(todo)] = Whole
    /\ ~truncated /\ warned = {} /\ ~cut
    /\ \A k \in DOMAIN todo : todo[k].from = 0
    /\ \A i \in In(Head(todo)) :
         i <= start /\ Newer(i, In(Head(todo))) < (page - 1) * PageSize => i \in seen

\* HKEXnews: the windows that are left begin where those read have ended, and
\* lead to the end of the look-back; only the second search may have a first
\* one behind it that ran out of the budget, and then there is none left.
Chained(windows) ==
    /\ \A k \in 1..(Len(windows) - 1) : windows[k].to = windows[k + 1].from
    /\ windows # <<>> => windows[Len(windows)].to = Lookback

Reached == IF todo = <<>> THEN Lookback ELSE Head(todo).from

HkInv ==
    /\ Chained(todo) /\ "history" \notin warned
    /\ truncated => todo = <<>> /\ "budget" \in warned
    /\ "budget" \in warned => used >= budget /\ (truncated \/ todo # <<>>)
    /\ ~truncated /\ ~cut =>
         \A i \in 1..start : rows[i].search = search /\ search \in forms /\ rows[i].age < Reached
                               => i \in seen
    /\ search = "results" => \A j \in seen : rows[j].search = "results"
    /\ search = "report" /\ "budget" \notin warned /\ ~cut =>
         \A i \in 1..start : Asked(i) /\ rows[i].search = "results" => i \in seen

\* EDGAR: the files that are left are the older ones, down to the first row.
Downward(files) ==
    /\ \A k \in 1..(Len(files) - 1) : files[k].from = files[k + 1].to
    /\ files # <<>> => files[Len(files)].from = 0
    /\ \A k \in DOMAIN files : files[k].to \in 1..Archived

UsInv ==
    /\ Downward(todo)
    /\ ~truncated /\ ~exhausted /\ "budget" \notin warned /\ ~cut /\ start \in seen
    /\ "history" \notin warned =>
         \A i \in 1..start : i > (IF todo = <<>> THEN 0 ELSE Head(todo).to) => i \in seen

ListInv ==
    pc = "list" => CASE market = "CN" -> CnInv [] market = "HK" -> HkInv [] OTHER -> UsInv

\* What a listing that has ended says is true.
DoneInv ==
    pc = "done" =>
        /\ ExhaustedIsAll /\ TruncatedIsTold
        /\ ~truncated /\ ~exhausted => GroupCount(seen) >= LastN /\ market # "HK"
        /\ market = "US" => start \in seen

IInv == TypeOK /\ SourceInv /\ LocalInv /\ SpentInv /\ Upward /\ ListInv /\ DoneInv

-----------------------------------------------------------------------------
(* Operators.                                                              *)

LEMMA Sizes ==
  /\ FileSize \in Nat \ {0} /\ PageSize \in Nat \ {0} /\ RowLimit \in Nat \ {0}
  /\ LastN \in Nat \ {0} /\ Lookback \in Nat \ {0} /\ Budgets \subseteq Nat \ {0}
  /\ FileCount \in Nat /\ MaxRows \in Nat /\ Archived \in Nat
  <1>1. /\ FileSize \in Nat \ {0} /\ PageSize \in Nat \ {0} /\ RowLimit \in Nat \ {0}
        /\ LastN \in Nat \ {0} /\ Lookback \in Nat \ {0} /\ Budgets \subseteq Nat \ {0}
        /\ FileCount \in Nat /\ MaxRows \in Nat
    BY SizeAssumption DEF SizeAssumption
  <1> QED
    BY <1>1 DEF Archived

\* Sets of rows are finite.
LEMMA RowsFinite ==
  ASSUME rows \in Seq(Row), NEW set, set \subseteq DOMAIN rows
  PROVE  IsFiniteSet(set) /\ Cardinality(set) \in Nat /\ Cardinality(set) <= Len(rows)
  <1>1. DOMAIN rows = 1..Len(rows) /\ Len(rows) \in Nat
    OBVIOUS
  <1>2. IsFiniteSet(1..Len(rows)) /\ Cardinality(1..Len(rows)) = Len(rows)
    <2>1. 1 \in Int /\ Len(rows) \in Int
      BY <1>1
    <2>2. /\ IsFiniteSet(1..Len(rows))
          /\ Cardinality(1..Len(rows)) = (IF 1 > Len(rows) THEN 0 ELSE Len(rows) - 1 + 1)
      BY <2>1, FS_Interval
    <2> QED
      BY <1>1, <2>2
  <1> QED
    BY <1>1, <1>2, FS_Subset, FS_CardinalityType

\* Rows are listed by their numbers: the newer a row the sooner it is listed,
\* and rows that are added are listed before all others.
LEMMA NewerCounts ==
  ASSUME NEW set, IsFiniteSet(set), set \subseteq Nat
  PROVE  /\ \A i \in Nat : Newer(i, set) \in Nat
         /\ \A i \in set : Newer(i, set) < Cardinality(set)
         /\ \A i \in Nat, j \in set : i < j => Newer(j, set) < Newer(i, set)
  <1> DEFINE Above(i) == {j \in set : j > i}
  <1>1. ASSUME NEW i \in Nat
        PROVE  IsFiniteSet(Above(i)) /\ Cardinality(Above(i)) \in Nat
    BY FS_Subset, FS_CardinalityType
  <1>2. ASSUME NEW i \in set
        PROVE  Newer(i, set) < Cardinality(set)
    <2>1. Above(i) \subseteq set /\ Above(i) # set
      OBVIOUS
    <2>2. /\ Cardinality(Above(i)) \in Nat /\ Cardinality(set) \in Nat
          /\ Cardinality(Above(i)) < Cardinality(set)
      BY <1>1, <2>1, FS_Subset, FS_CardinalityType
    <2> QED
      BY <2>2 DEF Newer
  <1>3. ASSUME NEW i \in Nat, NEW j \in set, i < j
        PROVE  Newer(j, set) < Newer(i, set)
    <2>1. j \in Nat /\ j \in Above(i) /\ j \notin Above(j)
      BY <1>3
    <2>2. \A k \in Above(j) : k \in Nat /\ k \in Above(i)
      BY <1>3, <2>1
    <2>3. Above(j) \subseteq Above(i) /\ Above(j) # Above(i)
      BY <2>1, <2>2
    <2>4. /\ Cardinality(Above(j)) \in Nat /\ Cardinality(Above(i)) \in Nat
          /\ Cardinality(Above(j)) < Cardinality(Above(i))
      BY <1>1, <2>1, <2>3, FS_Subset, FS_CardinalityType
    <2> QED
      BY <2>4 DEF Newer
  <1> QED
    BY <1>1, <1>2, <1>3 DEF Newer

LEMMA NewerGrows ==
  ASSUME NEW set, NEW more, set \subseteq more, IsFiniteSet(more), more \subseteq Nat, NEW i \in Nat
  PROVE  Newer(i, set) <= Newer(i, more) /\ Newer(i, set) \in Nat /\ Newer(i, more) \in Nat
  <1>1. {j \in set : j > i} \subseteq {j \in more : j > i} /\ IsFiniteSet({j \in more : j > i})
    BY FS_Subset
  <1> QED
    BY <1>1, FS_Subset, FS_CardinalityType DEF Newer

\* A block beyond the first ones that holds the end of the set holds the rest.
LEMMA BlockHolds ==
  ASSUME NEW set, IsFiniteSet(set), set \subseteq Nat, NEW size, NEW n, NEW i \in set
  PROVE  i \in Block(set, size, n) <=>
           (n - 1) * size <= Newer(i, set) /\ Newer(i, set) < n * size
  BY DEF Block, Newer

\* The search windows of CNINFO begin now and end with the whole look-back.
LEMMA CnWindowsType ==
  /\ CnWindows \in Seq(Window) /\ CnWindows # <<>> /\ CnWindows[Len(CnWindows)] = Whole
  /\ \A k \in DOMAIN CnWindows : CnWindows[k].from = 0
  <1> DEFINE quarters == ((LastN + 3) \div 4) + 1
             stage == Min({Lookback, quarters})
  <1>1. Lookback \in Nat /\ quarters \in Nat
    BY Sizes
  <1> HIDE DEF quarters
  <1>2. stage \in Nat /\ stage <= Lookback
    <2>1. \E x \in {Lookback, quarters} : \A y \in {Lookback, quarters} : x <= y
      BY <1>1
    <2>2. stage \in {Lookback, quarters} /\ \A y \in {Lookback, quarters} : stage <= y
      BY <2>1 DEF Min
    <2> QED
      BY <1>1, <2>2
  <1> DEFINE first == [from |-> 0, to |-> stage]
  <1>3. CnWindows = <<first>> \o (IF stage < Lookback THEN <<Whole>> ELSE <<>>)
    BY DEF CnWindows, quarters
  <1> HIDE DEF stage
  <1>4. /\ Whole = [from |-> 0, to |-> Lookback] /\ Whole \in Window /\ Whole.from = 0
        /\ first \in Window /\ first.from = 0
    BY <1>1, <1>2 DEF Whole, Window
  <1>5. CASE stage < Lookback
    <2> HIDE DEF first
    <2>1. CnWindows = <<first>> \o <<Whole>>
      BY <1>3, <1>5
    <2>2. <<first>> \in Seq(Window) /\ <<Whole>> \in Seq(Window)
      BY <1>4
    <2>3. /\ CnWindows \in Seq(Window) /\ Len(CnWindows) = 2
          /\ CnWindows[1] = first /\ CnWindows[2] = Whole
      BY <2>1, <2>2
    <2> QED
      BY <1>4, <2>3
  <1>6. CASE stage = Lookback
    <2>0. ~(stage < Lookback)
      BY <1>1, <1>6
    <2>1. CnWindows = <<first>> \o <<>>
      BY <1>3, <2>0
    <2>2. first = Whole
      BY <1>4, <1>6
    <2> HIDE DEF first
    <2>3. <<first>> \in Seq(Window) /\ <<>> \in Seq(Window)
      BY <1>4
    <2>4. CnWindows \in Seq(Window) /\ Len(CnWindows) = 1 /\ CnWindows[1] = first
      BY <2>1, <2>3
    <2> QED
      BY <1>4, <2>2, <2>4
  <1> QED
    BY <1>1, <1>2, <1>5, <1>6

\* The years of a window follow each other from its beginning to its end.
LEMMA YearsType ==
  ASSUME NEW w \in Window, w.to - w.from > 1
  PROVE  /\ Years(w) \in Seq(Window) /\ Len(Years(w)) = w.to - w.from /\ w.to - w.from \in Nat
         /\ Years(w)[1].from = w.from /\ Years(w)[w.to - w.from].to = w.to
         /\ \A k \in 1..(w.to - w.from - 1) : Years(w)[k].to = Years(w)[k + 1].from
  <1>1. w.from \in Nat /\ w.to \in Nat /\ w.to - w.from \in Nat
    BY DEF Window
  <1>2. \A k \in 1..(w.to - w.from) :
          /\ Years(w)[k] = [from |-> w.from + k - 1, to |-> w.from + k]
          /\ Years(w)[k] \in Window
    BY <1>1 DEF Years, Window
  <1>3. Years(w) \in Seq(Window) /\ Len(Years(w)) = w.to - w.from
    BY <1>1, <1>2 DEF Years
  <1> QED
    BY <1>1, <1>2, <1>3

\* The history files lie below each other, from the newest archived row to the
\* oldest.
LEMMA FilesType ==
  /\ Files \in Seq(Window) /\ Len(Files) = FileCount /\ Downward(Files)
  /\ Files # <<>> => Head(Files).to = Archived
  /\ Files = <<>> => Archived = 0
  <1>1. FileCount \in Nat /\ FileSize \in Nat \ {0} /\ Archived \in Nat
    BY Sizes
  <1>2. ASSUME NEW k \in 0..FileCount
        PROVE  /\ k * FileSize \in 0..Archived
               /\ k > 0 => (k - 1) * FileSize + FileSize = k * FileSize
    <2>1. /\ k \in Nat /\ FileCount - k \in Nat
          /\ k * FileSize + (FileCount - k) * FileSize = FileCount * FileSize
      BY <1>1
    <2>2. k * FileSize \in Nat /\ (FileCount - k) * FileSize \in Nat
      BY <1>1, <2>1
    <2>3. k * FileSize <= Archived
      BY <1>1, <2>1, <2>2 DEF Archived
    <2>4. (k - 1) * FileSize + FileSize = k * FileSize
      BY <1>1, <2>1
    <2> QED
      BY <2>2, <2>3, <2>4
  <1> DEFINE at == [k \in 0..FileCount |-> Archived - k * FileSize]
  <1>3. ASSUME NEW k \in 0..FileCount
        PROVE  at[k] \in 0..Archived /\ (k > 0 => at[k - 1] = at[k] + FileSize)
    <2>1. /\ k * FileSize \in 0..Archived /\ at[k] = Archived - k * FileSize
          /\ k > 0 => (k - 1) * FileSize + FileSize = k * FileSize
      BY <1>2
    <2>2. CASE k > 0
      <3>1. k - 1 \in 0..FileCount
        BY <1>1, <2>2
      <3>2. (k - 1) * FileSize \in 0..Archived /\ at[k - 1] = Archived - (k - 1) * FileSize
        BY <1>2, <3>1
      <3> QED
        BY <1>1, <2>1, <2>2, <3>2
    <2> QED
      BY <1>1, <2>1, <2>2
  <1>4. at[0] = Archived /\ at[FileCount] = 0
    <2>1. 0 \in 0..FileCount /\ FileCount \in 0..FileCount /\ 0 * FileSize = 0
      BY <1>1
    <2>2. at[0] = Archived - 0 * FileSize /\ at[FileCount] = Archived - FileCount * FileSize
      BY <2>1
    <2> QED
      BY <1>1, <2>1, <2>2 DEF Archived
  <1>5. Files = [k \in 1..FileCount |-> [from |-> at[k], to |-> at[k - 1]]]
    <2>1. \A k \in 1..FileCount : k \in 0..FileCount /\ k - 1 \in 0..FileCount
      BY <1>1
    <2> QED
      BY <2>1 DEF Files
  <1> HIDE DEF at
  <1>6. ASSUME NEW k \in 1..FileCount
        PROVE  /\ [from |-> at[k], to |-> at[k - 1]] \in Window
               /\ Files[k].from = at[k] /\ Files[k].to = at[k - 1] /\ Files[k].to \in 1..Archived
    <2>1. k \in 0..FileCount /\ k - 1 \in 0..FileCount /\ k > 0
      BY <1>1
    <2>2. at[k] \in 0..Archived /\ at[k - 1] \in 0..Archived /\ at[k - 1] = at[k] + FileSize
      BY <1>3, <2>1
    <2>3. Files[k] = [from |-> at[k], to |-> at[k - 1]]
      BY <1>5
    <2>4. at[k] \in Nat /\ at[k - 1] \in 1..Archived
      BY <1>1, <2>2
    <2> QED
      BY <1>1, <2>3, <2>4 DEF Window
  <1>7. Files \in Seq(Window) /\ Len(Files) = FileCount
    BY <1>1, <1>5, <1>6
  <1>8. ASSUME NEW k \in 1..(FileCount - 1)
        PROVE  Files[k].from = Files[k + 1].to
    <2>1. k \in 1..FileCount /\ k + 1 \in 1..FileCount /\ (k + 1) - 1 = k
      BY <1>1
    <2>2. Files[k + 1].to = at[(k + 1) - 1]
      BY <1>6, <2>1
    <2> QED
      BY <1>6, <2>1, <2>2
  <1>9. \A k \in 1..FileCount : Files[k].to \in 1..Archived
    BY <1>6
  <1>10. FileCount > 0 => Files[FileCount].from = 0 /\ Files[1].to = Archived
    <2>1. FileCount > 0 => FileCount \in 1..FileCount /\ 1 \in 1..FileCount /\ 1 - 1 = 0
      BY <1>1
    <2>2. FileCount > 0 => Files[1].to = at[1 - 1]
      BY <1>6, <2>1
    <2> QED
      BY <1>4, <1>6, <2>1, <2>2
  <1>11. FileCount = 0 => Archived = 0
    BY <1>1 DEF Archived
  <1>12. (Files # <<>> <=> FileCount > 0) /\ DOMAIN Files = 1..FileCount
    BY <1>1, <1>7
  <1> QED
    BY <1>1, <1>7, <1>8, <1>9, <1>10, <1>11, <1>12 DEF Downward

LEMMA EmptyLen ==
  ASSUME NEW windows \in Seq(Window)
  PROVE  Len(windows) \in Nat /\ (windows = <<>> <=> Len(windows) = 0)
  OBVIOUS

LEMMA ConcatType ==
  ASSUME NEW first \in Seq(Window), NEW second \in Seq(Window)
  PROVE  /\ first \o second \in Seq(Window) /\ Len(first \o second) = Len(first) + Len(second)
         /\ \A k \in 1..Len(first) : (first \o second)[k] = first[k]
         /\ \A k \in 1..Len(second) : (first \o second)[Len(first) + k] = second[k]
  <1>1. \A k \in 1..Len(first) : (first \o second)[k] = first[k]
    OBVIOUS
  <1>2. \A k \in 1..Len(second) : (first \o second)[Len(first) + k] = second[k]
    OBVIOUS
  <1> QED
    BY <1>1, <1>2

LEMMA TailType ==
  ASSUME NEW windows \in Seq(Window), windows # <<>>
  PROVE  /\ Head(windows) = windows[1] /\ Head(windows) \in Window
         /\ Tail(windows) \in Seq(Window) /\ Len(Tail(windows)) = Len(windows) - 1
         /\ Len(windows) \in Nat \ {0} /\ Len(Tail(windows)) \in Nat
         /\ \A k \in 1..(Len(windows) - 1) : Tail(windows)[k] = windows[k + 1]
         /\ Tail(windows) = <<>> <=> Len(windows) = 1
  <1>1. Len(windows) \in Nat \ {0}
    OBVIOUS
  <1>2. Head(windows) = windows[1] /\ Head(windows) \in Window
    BY <1>1
  <1>3. Tail(windows) \in Seq(Window) /\ Len(Tail(windows)) = Len(windows) - 1
    BY <1>1
  <1>4. \A k \in 1..(Len(windows) - 1) : Tail(windows)[k] = windows[k + 1]
    BY <1>1
  <1>5. Tail(windows) = <<>> <=> Len(windows) = 1
    <2>1. Tail(windows) = <<>> <=> Len(Tail(windows)) = 0
      BY <1>3, EmptyLen
    <2> QED
      BY <1>1, <1>3, <2>1
  <1> QED
    BY <1>1, <1>2, <1>3, <1>4, <1>5

\* Windows that follow each other still do without the first, and with the first
\* one split into years.
LEMMA ChainedTail ==
  ASSUME NEW windows \in Seq(Window), windows # <<>>, Chained(windows)
  PROVE  /\ Chained(Tail(windows))
         /\ Tail(windows) # <<>> => Head(Tail(windows)).from = Head(windows).to
         /\ Tail(windows) = <<>> => Head(windows).to = Lookback
  <1> DEFINE n == Len(windows)
             rest == Tail(windows)
  <1>1. /\ n \in Nat \ {0} /\ Len(rest) = n - 1 /\ rest \in Seq(Window)
        /\ Head(windows) = windows[1] /\ (rest = <<>> <=> n = 1)
        /\ \A k \in 1..(n - 1) : rest[k] = windows[k + 1]
    BY TailType
  <1>2. (\A k \in 1..(n - 1) : windows[k].to = windows[k + 1].from) /\ windows[n].to = Lookback
    BY DEF Chained
  <1> HIDE DEF n, rest
  <1>3. ASSUME NEW k \in 1..(Len(rest) - 1)
        PROVE  rest[k].to = rest[k + 1].from
    <2>1. k \in 1..(n - 1) /\ k + 1 \in 1..(n - 1)
      BY <1>1
    <2> QED
      BY <1>1, <1>2, <2>1
  <1>4. ASSUME rest # <<>>
        PROVE  rest[Len(rest)].to = Lookback /\ Head(rest).from = Head(windows).to
    <2>1. n - 1 \in 1..(n - 1) /\ 1 \in 1..(n - 1) /\ (n - 1) + 1 = n
      BY <1>1, <1>4
    <2>2. Head(rest) = rest[1]
      BY <1>1, <1>4, TailType
    <2> QED
      BY <1>1, <1>2, <2>1, <2>2
  <1>5. rest = <<>> => Head(windows).to = Lookback
    BY <1>1, <1>2
  <1>6. Chained(rest)
    BY <1>3, <1>4 DEF Chained
  <1> QED
    BY <1>4, <1>5, <1>6 DEF rest

LEMMA ChainedYears ==
  ASSUME NEW windows \in Seq(Window), windows # <<>>, Chained(windows),
         Head(windows).to - Head(windows).from > 1
  PROVE  LET split == Years(Head(windows)) \o Tail(windows)
         IN  /\ split \in Seq(Window) /\ split # <<>> /\ Chained(split)
             /\ Head(split).from = Head(windows).from
  <1> DEFINE w == Head(windows)
             n == w.to - w.from
             years == Years(w)
             rest == Tail(windows)
             split == years \o rest
  <1>1. w \in Window /\ rest \in Seq(Window) /\ Len(rest) \in Nat
    BY TailType
  <1>2. /\ years \in Seq(Window) /\ Len(years) = n /\ n \in Nat /\ n > 1
        /\ years[1].from = w.from /\ years[n].to = w.to
        /\ \A k \in 1..(n - 1) : years[k].to = years[k + 1].from
    BY <1>1, YearsType
  <1>3. /\ Chained(rest) /\ (rest # <<>> => Head(rest).from = w.to)
        /\ rest = <<>> => w.to = Lookback
    BY ChainedTail
  <1>4. rest # <<>> => Head(rest) = rest[1] /\ Len(rest) > 0
    BY <1>1
  <1>5. rest = <<>> <=> Len(rest) = 0
    BY <1>1, EmptyLen
  <1> HIDE DEF w, n, years, rest
  <1>6. /\ split \in Seq(Window) /\ Len(split) = n + Len(rest)
        /\ \A k \in 1..n : split[k] = years[k]
        /\ \A k \in 1..Len(rest) : split[n + k] = rest[k]
    BY <1>1, <1>2, ConcatType
  <1> HIDE DEF split
  <1>7. ASSUME NEW k \in 1..(Len(split) - 1)
        PROVE  split[k].to = split[k + 1].from
    <2>1. CASE k < n
      <3>1. k \in 1..n /\ k + 1 \in 1..n /\ k \in 1..(n - 1)
        BY <1>2, <2>1
      <3> QED
        BY <1>2, <1>6, <3>1
    <2>2. CASE k = n
      <3>1. k \in 1..n /\ 1 \in 1..Len(rest) /\ rest # <<>>
        BY <1>1, <1>2, <1>5, <1>6, <2>2
      <3>2. split[k] = years[n] /\ split[k + 1] = rest[1]
        BY <1>6, <2>2, <3>1
      <3> QED
        BY <1>2, <1>3, <1>4, <3>1, <3>2
    <2>3. CASE k > n
      <3>1. PICK j \in 1..(Len(rest) - 1) : k = n + j
        <4>1. k - n \in 1..(Len(rest) - 1) /\ k = n + (k - n)
          BY <1>1, <1>2, <1>6, <2>3
        <4> QED
          BY <4>1
      <3>2. j \in 1..Len(rest) /\ j + 1 \in 1..Len(rest) /\ k + 1 = n + (j + 1)
        BY <1>1, <1>2, <3>1
      <3>3. split[k] = rest[j] /\ split[k + 1] = rest[j + 1]
        BY <1>6, <3>1, <3>2
      <3> QED
        BY <1>3, <3>1, <3>3 DEF Chained
    <2> QED
      BY <1>1, <1>2, <1>6, <2>1, <2>2, <2>3
  <1>8. split[Len(split)].to = Lookback
    <2>1. CASE rest = <<>>
      BY <1>2, <1>3, <1>5, <1>6, <2>1
    <2>2. CASE rest # <<>>
      <3>1. Len(rest) \in 1..Len(rest)
        BY <1>1, <1>4, <2>2
      <3> QED
        BY <1>3, <1>6, <2>2, <3>1 DEF Chained
    <2> QED
      BY <2>1, <2>2
  <1>9. split # <<>> /\ Head(split) = split[1] /\ split[1] = years[1]
    BY <1>1, <1>2, <1>6
  <1> QED
    BY <1>2, <1>6, <1>7, <1>8, <1>9 DEF Chained, w, split, years, rest

LEMMA DownwardTail ==
  ASSUME NEW files \in Seq(Window), files # <<>>, Downward(files)
  PROVE  /\ Downward(Tail(files))
         /\ Tail(files) # <<>> => Head(Tail(files)).to = Head(files).from
         /\ Tail(files) = <<>> => Head(files).from = 0
         /\ Head(files).to \in 1..Archived
  <1> DEFINE n == Len(files)
             rest == Tail(files)
  <1>1. /\ n \in Nat \ {0} /\ Len(rest) = n - 1 /\ rest \in Seq(Window)
        /\ Head(files) = files[1] /\ (rest = <<>> <=> n = 1)
        /\ \A k \in 1..(n - 1) : rest[k] = files[k + 1]
    BY TailType
  <1>2. /\ \A k \in 1..(n - 1) : files[k].from = files[k + 1].to
        /\ files[n].from = 0
        /\ \A k \in 1..n : files[k].to \in 1..Archived
    BY DEF Downward
  <1> HIDE DEF n, rest
  <1>3. ASSUME NEW k \in 1..(Len(rest) - 1)
        PROVE  rest[k].from = rest[k + 1].to
    <2>1. k \in 1..(n - 1) /\ k + 1 \in 1..(n - 1)
      BY <1>1
    <2> QED
      BY <1>1, <1>2, <2>1
  <1>4. ASSUME rest # <<>>
        PROVE  rest[Len(rest)].from = 0 /\ Head(rest).to = Head(files).from
    <2>1. n - 1 \in 1..(n - 1) /\ 1 \in 1..(n - 1) /\ (n - 1) + 1 = n
      BY <1>1, <1>4
    <2>2. Head(rest) = rest[1]
      BY <1>1, <1>4, TailType
    <2> QED
      BY <1>1, <1>2, <2>1, <2>2
  <1>5. ASSUME NEW k \in DOMAIN rest
        PROVE  rest[k].to \in 1..Archived
    <2>1. k \in 1..(n - 1) /\ k + 1 \in 1..n
      BY <1>1
    <2> QED
      BY <1>1, <1>2, <2>1
  <1>6. (rest = <<>> => Head(files).from = 0) /\ Head(files).to \in 1..Archived
    BY <1>1, <1>2
  <1>7. Downward(rest)
    BY <1>3, <1>4, <1>5 DEF Downward
  <1> QED
    BY <1>4, <1>6, <1>7 DEF rest

-----------------------------------------------------------------------------
(* Steps.                                                                  *)

LEMMA RowFacts ==
  ASSUME TypeOK
  PROVE  /\ DOMAIN rows = 1..Len(rows) /\ Len(rows) \in Nat
         /\ \A i \in 1..Len(rows) : rows[i] \in Row /\ rows[i].age \in Nat
         /\ seen \subseteq 1..Len(rows) /\ submissions \subseteq 1..Len(rows)
         /\ budget \in Nat \ {0} /\ used \in Nat /\ used <= budget /\ sent \in Nat
         /\ page \in Nat \ {0} /\ start \in 0..Len(rows) /\ opened \in 0..Len(rows)
         /\ \A window : In(window) \subseteq 1..Len(rows)
  <1>1. /\ rows \in Seq(Row) /\ DOMAIN rows = 1..Len(rows) /\ Len(rows) \in Nat
        /\ budget \in Nat \ {0} /\ used \in 0..budget
    BY Sizes DEF TypeOK
  <1>2. \A i \in 1..Len(rows) : rows[i] \in Row /\ rows[i].age \in Nat
    <2>1. \A r \in Row : r.age \in Nat
      BY DEF Row
    <2> QED
      BY <1>1, <2>1
  <1>3. \A window : In(window) \subseteq 1..Len(rows)
    BY <1>1 DEF In
  <1> QED
    BY <1>1, <1>2, <1>3 DEF TypeOK

LEMMA InitIInv == Init => IInv
  <1> SUFFICES ASSUME Init
               PROVE  IInv
    OBVIOUS
  <1>1. /\ rows \in Seq(Row) /\ Archived < Len(rows) /\ Len(rows) <= MaxRows
        /\ \A i, j \in DOMAIN rows : i <= j => rows[j].age <= rows[i].age
    BY HistoryAssumption DEF HistoryAssumption, Init
  <1>2. budget \in Nat \ {0} /\ Len(rows) \in Nat
    BY <1>1, Sizes DEF Init
  <1>3. TypeOK
    <2>1. forms \in SUBSET Search /\ search \in Search
      BY DEF Init, Search
    <2>2. todo \in Seq(Window)
      BY DEF Init
    <2>3. /\ page \in 1..(Len(rows) + 1) /\ used \in 0..budget /\ sent \in Nat
          /\ {start, opened} \subseteq 0..Len(rows)
      BY <1>2 DEF Init
    <2> QED
      BY <1>1, <2>1, <2>2, <2>3 DEF Init, TypeOK
  <1>4. SourceInv /\ LocalInv /\ Upward /\ ListInv /\ DoneInv
    BY <1>1 DEF Init, SourceInv, LocalInv, Upward, ListInv, DoneInv
  <1>5. SpentInv
    BY <1>2 DEF Init, SpentInv, BudgetKept
  <1> QED
    BY <1>3, <1>4, <1>5 DEF IInv

\* A new row changes nothing that was said of the others.
LEMMA PublishRows ==
  ASSUME TypeOK, Publish
  PROVE  /\ rows' \in Seq(Row) /\ Len(rows') = Len(rows) + 1 /\ Len(rows') <= MaxRows
         /\ \A i \in 1..Len(rows) : rows'[i] = rows[i]
         /\ rows'[Len(rows) + 1].age = 0
  <1>1. PICK row \in [age : {0}, group : {1, Len(rows) + 1}, role : {"full", "notice"},
                      search : IF market = "HK" THEN Search ELSE {"report"}] :
          rows' = Append(rows, row)
    BY DEF Publish
  <1>2. row \in Row /\ row.age = 0
    BY <1>1, RowFacts DEF Row, Search
  <1>3. rows \in Seq(Row) /\ Len(rows) \in Nat /\ Len(rows) < MaxRows
    BY DEF TypeOK, Publish
  <1>4. rows' \in Seq(Row) /\ Len(rows') = Len(rows) + 1
    BY <1>1, <1>2, <1>3
  <1>5. \A i \in 1..Len(rows) : rows'[i] = rows[i]
    BY <1>1, <1>2, <1>3
  <1>6. rows'[Len(rows) + 1] = row
    BY <1>1, <1>2, <1>3
  <1> QED
    BY <1>2, <1>3, <1>4, <1>5, <1>6, Sizes

\* EDGAR: the listing is over, impossible, or goes on with the history files.
LEMMA UsStart ==
  ASSUME StartListing, market = "US"
  PROVE  /\ seen' = Recent /\ start' = Cardinality(submissions) /\ used' = 1 /\ sent' = 1
         /\ UNCHANGED <<source, submissions, search, page, truncated, exhausted, warned, cut, opened,
                        sessions, listings>>
         /\ \/ todo' = <<>> /\ pc' = "done" /\ GroupCount(Recent) >= LastN
            \/ todo' = <<>> /\ pc' = "raised"
            \/ todo' = Files /\ pc' = "list"
  <1>1. CASE GroupCount(Recent) >= LastN
    BY <1>1 DEF StartListing
  <1>2. CASE ~(GroupCount(Recent) >= LastN) /\ leapDay
    BY <1>2 DEF StartListing
  <1>3. CASE ~(GroupCount(Recent) >= LastN) /\ ~leapDay
    BY <1>3 DEF StartListing
  <1> QED
    BY <1>1, <1>2, <1>3

LEMMA TypePreserved ==
  ASSUME IInv, [Next]_vars
  PROVE  TypeOK'
  <1> USE DEF source, query, answer, history
  <1>0. TypeOK /\ SourceInv /\ <<>> \in Seq(Window)
    BY DEF IInv
  <1>1. CASE Publish
    <2>1. DOMAIN rows \subseteq DOMAIN rows' /\ Len(rows') = Len(rows) + 1 /\ Len(rows) \in Nat
      BY <1>0, <1>1, PublishRows, RowFacts
    <2>2. rows' \in Seq(Row) /\ Len(rows') <= MaxRows
      BY <1>0, <1>1, PublishRows
    <2> QED
      BY <1>0, <1>1, <2>1, <2>2, RowFacts DEF Publish, TypeOK
  <1>2. CASE BeginSession
    BY <1>0, <1>2, RowFacts DEF BeginSession, TypeOK, NewAdapters
  <1>3. CASE Resolve
    <2>1. submissions' \subseteq DOMAIN rows /\ pc' \in {"resolved", "failed"}
      BY <1>0, <1>3 DEF Resolve, TypeOK
    <2>2. search' \in Search /\ todo' \in Seq(Window) /\ page' \in 1..(Len(rows) + 1)
      BY <1>0, <1>3, RowFacts DEF Resolve, Search
    <2>3. used' \in 0..budget
      BY <1>0, <1>3, RowFacts DEF Resolve
    <2>4. /\ seen' = {} /\ truncated' = FALSE /\ exhausted' = FALSE /\ warned' = {} /\ cut' = FALSE
          /\ sent' = 0 /\ UNCHANGED <<source, start, opened, sessions>>
      BY <1>3 DEF Resolve
    <2> QED
      BY <1>0, <2>1, <2>2, <2>3, <2>4 DEF TypeOK
  <1>4. CASE StartListing
    <2>1. Recent \subseteq DOMAIN rows /\ Cardinality(submissions) \in 0..Len(rows)
      <3>1. submissions \subseteq DOMAIN rows /\ rows \in Seq(Row)
        BY <1>0 DEF TypeOK
      <3>2. Cardinality(submissions) \in Nat /\ Cardinality(submissions) <= Len(rows)
        BY <3>1, RowsFinite
      <3> QED
        BY <1>0, <3>1, <3>2, RowFacts DEF Recent
    <2>2. Files \in Seq(Window) /\ CnWindows \in Seq(Window) /\ <<Whole>> \in Seq(Window)
      BY FilesType, CnWindowsType, Sizes DEF Whole, Window
    <2>3. CASE market = "US"
      <3>1. todo' \in Seq(Window) /\ pc' \in {"done", "raised", "list"} /\ used' \in 0..budget
        <4>1. todo' \in Seq(Window) /\ pc' \in {"done", "raised", "list"}
          BY <1>0, <1>4, <2>2, <2>3, UsStart
        <4>2. used' = 1 /\ budget \in Nat \ {0}
          BY <1>0, <1>4, <2>3, UsStart, RowFacts
        <4> QED
          BY <4>1, <4>2
      <3>2. /\ seen' = Recent /\ start' = Cardinality(submissions) /\ sent' = 1
            /\ UNCHANGED <<source, submissions, search, page, truncated, exhausted, warned, cut,
                           opened>>
        BY <1>4, <2>3 DEF StartListing
      <3> QED
        BY <1>0, <2>1, <3>1, <3>2 DEF TypeOK
    <2>4. CASE market # "US"
      <3>1. todo' \in Seq(Window)
        BY <1>4, <2>2, <2>4 DEF StartListing
      <3>2. /\ start' = Len(rows) /\ pc' = "list"
            /\ UNCHANGED <<source, submissions, search, page, truncated, exhausted, warned, cut,
                           opened, seen, used, sent>>
        BY <1>4, <2>4 DEF StartListing
      <3> QED
        BY <1>0, <3>1, <3>2, RowFacts DEF TypeOK
    <2> QED
      BY <2>3, <2>4
  <1>5. CASE BudgetSpent
    <2>1. todo' \in Seq(Window) /\ pc' \in {"list", "done"}
      BY <1>0, <1>5 DEF BudgetSpent
    <2>2. /\ truncated' = TRUE /\ exhausted' = FALSE /\ warned' = warned \cup {"budget"}
          /\ UNCHANGED <<source, submissions, search, page, used, seen, sent, cut, history>>
      BY <1>5 DEF BudgetSpent, SpentExhausted
    <2> QED
      BY <1>0, <2>1, <2>2 DEF TypeOK
  <1>6. CASE RequestFails
    BY <1>0, <1>6 DEF RequestFails, Request, TypeOK
  <1>7. CASE CnPage
    <2> DEFINE window == In(Head(todo))
    <2>1. window \subseteq DOMAIN rows /\ Block(window, PageSize, page) \subseteq window
      BY DEF In, Block
    <2>2. Tail(todo) \in Seq(Window) /\ <<>> \in Seq(Window)
      BY <1>0, <1>7, TailType DEF CnPage, Request, TypeOK
    <2>3. todo' \in Seq(Window)
      BY <1>0, <1>7, <2>2 DEF CnPage, TypeOK
    <2>4. page' \in 1..(Len(rows) + 1)
      <3>1. CASE Cardinality(window) > page * PageSize
        <4>1. Cardinality(window) \in Nat /\ Cardinality(window) <= Len(rows)
          BY <1>0, <2>1, RowsFinite DEF TypeOK
        <4>2. page * PageSize >= page /\ page * PageSize \in Nat
          BY <1>0, Sizes, RowFacts
        <4>3. page' = page + 1
          BY <1>7, <3>1 DEF CnPage
        <4> QED
          BY <1>0, <3>1, <4>1, <4>2, <4>3, RowFacts
      <3>2. CASE ~(Cardinality(window) > page * PageSize)
        BY <1>0, <1>7, <3>2, RowFacts DEF CnPage
      <3> QED
        BY <3>1, <3>2
    <2>5. /\ used' = used + 1 /\ used < budget /\ sent' = sent + 1
          /\ seen' = seen \cup Block(window, PageSize, page)
          /\ exhausted' \in BOOLEAN /\ pc' \in {"list", "done"}
          /\ UNCHANGED <<source, submissions, search, truncated, warned, cut, history>>
      BY <1>0, <1>7 DEF CnPage, Request, TypeOK
    <2> QED
      BY <1>0, <2>1, <2>3, <2>4, <2>5, RowFacts DEF TypeOK
  <1>8. CASE HkWindow
    <2> DEFINE window == Head(todo)
    <2>1. todo \in Seq(Window) /\ todo # <<>>
      BY <1>0, <1>8 DEF HkWindow, Request, TypeOK
    <2>2. todo' \in Seq(Window)
      <3>1. Tail(todo) \in Seq(Window) /\ window \in Window
        BY <2>1, TailType
      <3>2. ASSUME window.to - window.from > 1
            PROVE  Years(window) \o Tail(todo) \in Seq(Window)
        BY <3>1, <3>2, YearsType, ConcatType
      <3> QED
        BY <1>8, <3>1, <3>2 DEF HkWindow
    <2>3. seen' \subseteq DOMAIN rows /\ cut' \in BOOLEAN
      BY <1>0, <1>8 DEF HkWindow, TypeOK, HkCandidates, Block, In
    <2> QED
      BY <1>0, <1>8, <2>2, <2>3, RowFacts DEF HkWindow, Request, TypeOK
  <1>9. CASE HkNextSearch
    <2>1. <<Whole>> \in Seq(Window)
      BY Sizes DEF Whole, Window
    <2> QED
      BY <1>0, <1>9, <2>1, RowFacts DEF HkNextSearch, UsedSoFar, TypeOK, Search
  <1>10. CASE UsFile
    <2>1. Tail(todo) \in Seq(Window) /\ <<>> \in Seq(Window)
      BY <1>0, <1>10, TailType DEF UsFile, Request, TypeOK
    <2>2. seen' \subseteq DOMAIN rows
      BY <1>0, <1>10 DEF UsFile, TypeOK, InFile
    <2>3. todo' \in Seq(Window) /\ pc' \in {pc, "done"}
      BY <1>10, <2>1 DEF UsFile
    <2> QED
      BY <1>0, <1>10, <2>2, <2>3, RowFacts DEF UsFile, Request, TypeOK
  <1>11. CASE UsFileFails
    <2>1. Tail(todo) \in Seq(Window)
      BY <1>0, <1>11, TailType DEF UsFileFails, Request, TypeOK
    <2> QED
      BY <1>0, <1>11, <2>1, RowFacts DEF UsFileFails, Request, TypeOK
  <1>12. CASE UsFilesEnd
    BY <1>0, <1>12 DEF UsFilesEnd, TypeOK
  <1>13. CASE UNCHANGED vars
    BY <1>0, <1>13 DEF vars, TypeOK
  <1> QED
    BY <1>1, <1>2, <1>3, <1>4, <1>5, <1>6, <1>7, <1>8, <1>9, <1>10, <1>11, <1>12, <1>13 DEF Next

LEMMA SourcePreserved ==
  ASSUME IInv, [Next]_vars
  PROVE  SourceInv'
  <1> USE DEF source, query, answer, history
  <1>0. TypeOK /\ SourceInv
    BY DEF IInv
  <1>1. CASE Publish
    <2>1. /\ Len(rows') = Len(rows) + 1 /\ \A i \in 1..Len(rows) : rows'[i] = rows[i]
          /\ rows'[Len(rows) + 1].age = 0 /\ DOMAIN rows' = 1..(Len(rows) + 1)
      BY <1>0, <1>1, PublishRows
    <2>2. ASSUME NEW i \in DOMAIN rows', NEW j \in DOMAIN rows', i <= j
          PROVE  rows'[j].age <= rows'[i].age
      <3>1. CASE j \in 1..Len(rows)
        BY <1>0, <2>1, <2>2, <3>1, RowFacts DEF SourceInv
      <3>2. CASE j = Len(rows) + 1
        <4>1. rows'[j].age = 0
          BY <2>1, <3>2
        <4>2. i = j \/ (rows'[i] = rows[i] /\ rows[i].age \in Nat)
          BY <1>0, <2>1, <2>2, <3>2, RowFacts
        <4> QED
          BY <4>1, <4>2
      <3> QED
        BY <1>0, <2>1, <3>1, <3>2, RowFacts
    <2>3. UNCHANGED <<submissions, opened>>
      BY <1>1 DEF Publish
    <2>4. \A n \in opened..Len(rows) : n \in opened..Len(rows')
      BY <1>0, <2>1, RowFacts
    <2> QED
      BY <1>0, <2>2, <2>3, <2>4 DEF SourceInv
  <1>2. CASE BeginSession
    <2>1. opened' = Len(rows) /\ submissions' = {} /\ rows' = rows
      BY <1>2 DEF BeginSession, NewAdapters
    <2>2. Archived < Len(rows)
      BY <1>0, RowFacts, Sizes DEF SourceInv
    <2> QED
      BY <1>0, <2>1, <2>2 DEF SourceInv
  <1>3. CASE Resolve
    <2>1. rows' = rows /\ opened' = opened /\ submissions' \in {submissions, 1..Len(rows)}
      BY <1>0, <1>3, RowFacts DEF Resolve
    <2>2. Len(rows) \in opened..Len(rows)
      BY <1>0, RowFacts
    <2> QED
      BY <1>0, <2>1, <2>2 DEF SourceInv
  <1>4. CASE ~(Publish \/ BeginSession \/ Resolve)
    <2>1. UNCHANGED <<rows, opened, submissions>>
      BY <1>4
      DEF Next, StartListing, BudgetSpent, RequestFails, CnPage, HkWindow, HkNextSearch, UsFile,
          UsFileFails, UsFilesEnd, vars
    <2> QED
      BY <1>0, <2>1 DEF SourceInv
  <1> QED
    BY <1>1, <1>2, <1>3, <1>4

\* A listing begins with all that was there when its session did.
LEMMA StartIsNew ==
  ASSUME IInv, StartListing
  PROVE  /\ opened <= start' /\ start' <= Len(rows) /\ start' \in Nat
         /\ market = "US" => submissions = 1..start'
  <1>0. TypeOK /\ SourceInv /\ LocalInv
    BY DEF IInv
  <1>1. CASE market = "US"
    <2>1. PICK n \in opened..Len(rows) : submissions = 1..n
      BY <1>0, <1>1 DEF SourceInv, LocalInv, StartListing
    <2>2. n \in Nat /\ opened <= n /\ n <= Len(rows)
      BY <1>0, RowFacts
    <2>3. Cardinality(1..n) = IF 1 > n THEN 0 ELSE n - 1 + 1
      BY <2>2, FS_Interval
    <2>4. start' = n
      BY <1>1, <2>1, <2>2, <2>3, UsStart
    <2> QED
      BY <2>1, <2>2, <2>4
  <1>2. CASE market # "US"
    <2>1. start' = Len(rows)
      BY <1>2 DEF StartListing
    <2> QED
      BY <1>0, <1>2, <2>1, RowFacts
  <1> QED
    BY <1>1, <1>2

LEMMA LocalPreserved ==
  ASSUME IInv, [Next]_vars
  PROVE  LocalInv'
  <1> USE DEF source, query, answer, history
  <1>0. TypeOK /\ SourceInv /\ LocalInv
    BY DEF IInv
  <1>1. CASE Resolve
    <2>1. 1 \in DOMAIN rows
      BY <1>0, RowFacts, Sizes DEF SourceInv
    <2> QED
      BY <1>0, <1>1, <2>1 DEF Resolve, LocalInv
  <1>2. CASE StartListing
    <2>1. opened <= start'
      BY <1>2, StartIsNew
    <2>2. pc' # "resolved" /\ UNCHANGED <<market, warned, opened>>
      BY <1>2, UsStart DEF StartListing
    <2> QED
      BY <1>0, <2>1, <2>2 DEF LocalInv
  <1>3. CASE BeginSession
    BY <1>0, <1>3 DEF BeginSession, LocalInv
  <1>4. CASE Publish \/ UNCHANGED vars
    BY <1>0, <1>4 DEF Publish, LocalInv, vars
  <1>5. CASE BudgetSpent \/ RequestFails \/ CnPage \/ HkWindow \/ HkNextSearch \/ UsFile
             \/ UsFileFails \/ UsFilesEnd
    <2>1. /\ pc = "list" /\ pc' \in {"list", "done", "failed"} /\ UNCHANGED <<market, opened, start>>
          /\ "history" \in warned' => "history" \in warned \/ market = "US"
      BY <1>5
      DEF BudgetSpent, RequestFails, CnPage, HkWindow, HkNextSearch, UsFile, UsFileFails,
          UsFilesEnd, Request
    <2> QED
      BY <1>0, <2>1 DEF LocalInv
  <1> QED
    BY <1>1, <1>2, <1>3, <1>4, <1>5 DEF Next

LEMMA SpentPreserved ==
  ASSUME IInv, [Next]_vars
  PROVE  SpentInv'
  <1> USE DEF source, query, answer, history
  <1>0. TypeOK /\ LocalInv /\ SpentInv
    BY DEF IInv
  <1>a. /\ budget \in Nat \ {0} /\ used \in Nat /\ used <= budget /\ sent \in Nat /\ FileCount \in Nat
        /\ todo \in Seq(Window) /\ Len(todo) \in Nat
    BY <1>0, RowFacts, Sizes DEF TypeOK
  <1>1. CASE Publish \/ UNCHANGED vars
    BY <1>0, <1>1 DEF Publish, SpentInv, BudgetKept, vars
  <1>2. CASE BeginSession
    BY <1>0, <1>2 DEF BeginSession, SpentInv, BudgetKept
  <1>3. CASE Resolve
    BY <1>0, <1>3, <1>a DEF Resolve, SpentInv, BudgetKept
  <1>4. CASE StartListing
    <2>1. CASE market = "US"
      <3>1. sent' = 1 /\ used' = 1 /\ UNCHANGED <<budget, market, warned>>
        BY <1>4, <2>1, UsStart
      <3>2. pc' = "list" => Len(todo') = FileCount
        BY <1>4, <2>1, UsStart, FilesType
      <3> QED
        BY <1>0, <1>a, <3>1, <3>2 DEF SpentInv, BudgetKept
    <2>2. CASE market # "US"
      <3>1. UNCHANGED <<sent, used, budget, market, warned>> /\ sent = used
        BY <1>0, <1>4, <2>2 DEF StartListing, LocalInv
      <3> QED
        BY <1>0, <2>2, <3>1 DEF SpentInv, BudgetKept
    <2> QED
      BY <2>1, <2>2
  <1>5. CASE BudgetSpent \/ UsFilesEnd
    <2>1. /\ pc = "list" /\ UNCHANGED <<sent, used, market, budget>> /\ todo' = <<>>
          /\ ("history" \in warned') = ("history" \in warned)
      BY <1>5 DEF BudgetSpent, UsFilesEnd
    <2>2. Len(<<>>) = 0
      OBVIOUS
    <2> QED
      BY <1>0, <1>a, <2>1, <2>2 DEF SpentInv, BudgetKept
  <1>6. CASE RequestFails
    <2>1. /\ pc' = "failed" /\ sent' = sent + 1 /\ used < budget /\ pc = "list"
          /\ UNCHANGED <<warned, budget>>
      BY <1>6 DEF RequestFails, Request
    <2>2. "history" \notin warned => sent = used
      BY <1>0, <2>1 DEF SpentInv
    <2>3. "history" \in warned => sent <= used + FileCount
      BY <1>0, <1>a, <2>1 DEF SpentInv, LocalInv
    <2> QED
      BY <1>0, <1>a, <2>1, <2>2, <2>3 DEF SpentInv, BudgetKept
  <1>7. CASE CnPage \/ HkWindow \/ UsFile
    <2>1. /\ pc = "list" /\ sent' = sent + 1 /\ used' = used + 1 /\ used < budget /\ todo # <<>>
          /\ UNCHANGED <<warned, budget, market>>
      BY <1>7 DEF CnPage, HkWindow, UsFile, Request
    <2>2. market = "US" => Len(todo') <= Len(todo) /\ Len(todo') \in Nat
      <3>1. Len(Tail(todo)) \in Nat /\ Len(Tail(todo)) <= Len(todo) /\ Len(<<>>) = 0
        BY <1>a, <2>1, TailType
      <3>2. market = "US" => Len(todo') = 0 \/ Len(todo') = Len(Tail(todo))
        BY <1>7, <3>1 DEF CnPage, HkWindow, UsFile
      <3> QED
        BY <1>a, <3>1, <3>2
    <2>3. "history" \notin warned => sent = used
      BY <1>0, <2>1 DEF SpentInv
    <2>4. market = "US" => sent + Len(todo) <= used + FileCount
      BY <1>0, <2>1 DEF SpentInv
    <2>5. "history" \in warned => market = "US"
      BY <1>0 DEF LocalInv
    <2>6. BudgetKept'
      BY <1>a, <2>1, <2>2, <2>3, <2>4, <2>5 DEF BudgetKept
    <2> QED
      BY <1>a, <2>1, <2>2, <2>3, <2>4, <2>6 DEF SpentInv
  <1>8. CASE HkNextSearch
    <2>1. /\ UNCHANGED <<sent, used, warned, budget, market>> /\ market = "HK" /\ pc = "list"
      BY <1>8 DEF HkNextSearch, UsedSoFar
    <2> QED
      BY <1>0, <2>1 DEF SpentInv, BudgetKept
  <1>9. CASE UsFileFails
    <2>1. /\ pc = "list" /\ sent' = sent + 1 /\ used < budget /\ todo # <<>> /\ todo' = Tail(todo)
          /\ warned' = warned \cup {"history"} /\ market = "US" /\ UNCHANGED <<budget, market, used, pc>>
      BY <1>9 DEF UsFileFails, Request
    <2>2. Len(todo') = Len(todo) - 1 /\ Len(todo') \in Nat
      BY <1>a, <2>1, TailType
    <2>3. sent + Len(todo) <= used + FileCount
      BY <1>0, <2>1 DEF SpentInv
    <2> QED
      BY <1>0, <1>a, <2>1, <2>2, <2>3 DEF SpentInv, BudgetKept
  <1> QED
    BY <1>1, <1>2, <1>3, <1>4, <1>5, <1>6, <1>7, <1>8, <1>9 DEF Next

\* What is said of the coverage.
Cover == Upward /\ ListInv /\ DoneInv

\* What is said of rows that stay and of candidates that stay.
LEMMA SameRows ==
  ASSUME TypeOK, UNCHANGED <<market, forms>>,
         \A i \in 1..Len(rows) : rows'[i] = rows[i]
  PROVE  /\ \A i \in 1..Len(rows) : Asked(i)' <=> Asked(i)
         /\ \A i, j \in 1..Len(rows) : Same(i, j)' <=> Same(i, j)
         /\ \A set \in SUBSET (1..Len(rows)) : GroupCount(set)' = GroupCount(set)
  <1>1. ASSUME NEW i \in 1..Len(rows)
        PROVE  Asked(i)' <=> Asked(i)
    BY DEF Asked
  <1>2. ASSUME NEW i \in 1..Len(rows), NEW j \in 1..Len(rows)
        PROVE  Same(i, j)' <=> Same(i, j)
    BY DEF Same
  <1>3. ASSUME NEW set \in SUBSET (1..Len(rows))
        PROVE  GroupCount(set)' = GroupCount(set)
    <2>1. {j \in set : market' = "CN" => rows'[j].role # "summary"}
            = {j \in set : market = "CN" => rows[j].role # "summary"}
      OBVIOUS
    <2>2. {rows'[i].group : i \in {j \in set : market = "CN" => rows[j].role # "summary"}}
            = {rows[i].group : i \in {j \in set : market = "CN" => rows[j].role # "summary"}}
      OBVIOUS
    <2> QED
      BY <2>1, <2>2 DEF GroupCount
  <1> QED
    BY <1>1, <1>2, <1>3

LEMMA PublishCovers ==
  ASSUME IInv, Publish
  PROVE  Cover'
  <1> USE DEF source, query, answer, history
  <1>0. TypeOK /\ SourceInv /\ Upward /\ ListInv /\ DoneInv
    BY DEF IInv
  <1>1. /\ UNCHANGED <<market, forms, budget, submissions, search, todo, page, used, seen, truncated,
                       exhausted, warned, pc, cut, start, opened>>
        /\ \A i \in 1..Len(rows) : rows'[i] = rows[i]
        /\ Len(rows') = Len(rows) + 1 /\ DOMAIN rows' = 1..(Len(rows) + 1)
        /\ rows' \in Seq(Row)
    BY <1>0, PublishRows DEF Publish
  <1>2. /\ \A i \in 1..Len(rows) : Asked(i)' <=> Asked(i)
        /\ \A i, j \in 1..Len(rows) : Same(i, j)' <=> Same(i, j)
        /\ GroupCount(seen)' = GroupCount(seen)
    <2>1. seen \in SUBSET (1..Len(rows))
      BY <1>0, RowFacts
    <2>2. /\ \A i \in 1..Len(rows) : Asked(i)' <=> Asked(i)
          /\ \A i, j \in 1..Len(rows) : Same(i, j)' <=> Same(i, j)
          /\ \A set \in SUBSET (1..Len(rows)) : GroupCount(set)' = GroupCount(set)
      BY <1>0, <1>1, SameRows
    <2> QED
      BY <1>1, <2>1, <2>2 DEF GroupCount
  <1>3. seen \subseteq 1..Len(rows) /\ 1..start \subseteq 1..Len(rows) /\ Len(rows) \in Nat
    BY <1>0, RowFacts
  <1>4. Upward'
    BY <1>0, <1>1, <1>2, <1>3 DEF Upward
  <1>5. ListInv'
    <2>1. ASSUME pc = "list", market = "CN"
          PROVE  CnInv'
      <3> DEFINE window == Head(todo)
      <3>1. CnInv
        BY <1>0, <2>1 DEF ListInv
      <3>2. /\ IsFiniteSet(In(window)') /\ In(window)' \subseteq 1..(Len(rows) + 1)
            /\ In(window) \subseteq In(window)'
        <4>1. In(window)' \subseteq 1..(Len(rows) + 1)
          BY <1>1 DEF In
        <4>2. In(window) \subseteq In(window)'
          BY <1>1, <1>3 DEF In
        <4>3. IsFiniteSet(1..(Len(rows) + 1))
          BY <1>3, FS_Interval
        <4> QED
          BY <4>1, <4>2, <4>3, FS_Subset
      <3>3. ASSUME NEW i \in In(window)', i <= start,
                   Newer(i, In(window)') < (page - 1) * PageSize
            PROVE  i \in seen
        <4>1. i \in Nat /\ i \in 1..Len(rows)
          BY <1>0, <1>3, <3>2, <3>3, RowFacts
        <4>2. i \in In(window)
          BY <1>1, <3>3, <4>1, RowFacts, <1>0 DEF In
        <4>3. In(window)' \subseteq Nat
          BY <3>2
        <4>4. /\ Newer(i, In(window)) <= Newer(i, In(window)')
              /\ Newer(i, In(window)) \in Nat /\ Newer(i, In(window)') \in Nat
          BY <3>2, <4>1, <4>3, NewerGrows
        <4>5. (page - 1) * PageSize \in Nat
          BY <1>0, RowFacts, Sizes
        <4>6. Newer(i, In(window)) < (page - 1) * PageSize
          BY <3>3, <4>4, <4>5
        <4> QED
          BY <3>1, <3>3, <4>2, <4>6 DEF CnInv
      <3> QED
        BY <1>1, <3>1, <3>3 DEF CnInv, Newer
    <2>2. ASSUME pc = "list", market = "HK"
          PROVE  HkInv'
      <3>1. HkInv
        BY <1>0, <2>2 DEF ListInv
      <3> QED
        BY <1>1, <1>2, <1>3, <3>1 DEF HkInv, Reached, Chained
    <2>3. ASSUME pc = "list", market \notin {"CN", "HK"}
          PROVE  UsInv'
      <3>1. UsInv
        BY <1>0, <2>3 DEF ListInv
      <3> QED
        BY <1>1, <3>1 DEF UsInv, Downward
    <2> QED
      BY <1>1, <2>1, <2>2, <2>3 DEF ListInv
  <1>6. DoneInv'
    <2>1. pc = "done" => ExhaustedIsAll'
      BY <1>0, <1>1, <1>2, <1>3 DEF DoneInv, ExhaustedIsAll, Wanted
    <2> QED
      BY <1>0, <1>1, <1>2, <2>1 DEF DoneInv, TruncatedIsTold
  <1> QED
    BY <1>4, <1>5, <1>6 DEF Cover

\* Outside a listing nothing is said but that what was seen is upward.
LEMMA RestCovers ==
  ASSUME IInv, BeginSession \/ Resolve \/ RequestFails \/ UNCHANGED vars
  PROVE  Cover'
  <1> USE DEF source, query, answer, history
  <1>0. Upward /\ ListInv /\ DoneInv
    BY DEF IInv
  <1>1. CASE Resolve
    BY <1>1 DEF Resolve, Cover, Upward, ListInv, DoneInv
  <1>2. CASE BeginSession \/ RequestFails
    <2>1. pc' \in {"idle", "failed"} /\ UNCHANGED <<market, forms, rows, seen, cut, warned, start>>
      BY <1>2 DEF BeginSession, RequestFails
    <2> QED
      BY <1>0, <2>1 DEF Cover, Upward, Asked, Same, ListInv, DoneInv
  <1>3. CASE UNCHANGED vars
    BY <1>0, <1>3
    DEF vars, Cover, Upward, Asked, Same, ListInv, DoneInv, CnInv, HkInv, UsInv, Newer, In, Reached,
        Chained, Downward, ExhaustedIsAll, TruncatedIsTold, Wanted, GroupCount
  <1> QED
    BY <1>1, <1>2, <1>3

LEMMA StartCovers ==
  ASSUME IInv, StartListing
  PROVE  Cover'
  <1> USE DEF source, query, answer, history
  <1>0. TypeOK /\ SourceInv /\ LocalInv /\ pc = "resolved"
    BY DEF IInv, StartListing
  <1>1. opened <= start' /\ start' <= Len(rows) /\ start' \in Nat
    BY StartIsNew
  <1>2. /\ seen = {} /\ ~truncated /\ ~exhausted /\ warned = {} /\ ~cut /\ page = 1
        /\ search = "results"
    BY <1>0 DEF LocalInv
  <1>3. UNCHANGED <<market, forms, rows, truncated, exhausted, warned, cut, page, search>>
    BY UsStart DEF StartListing
  <1>4. CASE market = "US"
    <2>1. submissions = 1..start' /\ Archived < start' /\ Archived \in Nat
      BY <1>0, <1>1, <1>4, StartIsNew, RowFacts, Sizes DEF SourceInv
    <2>2. seen' = {i \in 1..start' : i > Archived}
      BY <1>4, <2>1, UsStart DEF Recent
    <2>3. Upward'
      BY <1>1, <2>1, <2>2 DEF Upward
    <2>4. start' \in seen'
      BY <1>1, <2>1, <2>2
    <2>5. ASSUME pc' = "list"
          PROVE  UsInv'
      <3>1. todo' = Files
        BY <1>4, <2>5, UsStart
      <3>2. Downward(todo)'
        BY <3>1, FilesType DEF Downward
      <3>3. \A i \in 1..start' : i > (IF todo' = <<>> THEN 0 ELSE Head(todo').to) => i \in seen'
        BY <2>1, <2>2, <3>1, FilesType
      <3> QED
        BY <1>2, <1>3, <2>4, <3>2, <3>3 DEF UsInv
    <2>6. ListInv'
      BY <1>3, <1>4, <2>5 DEF ListInv
    <2>7. ASSUME pc' = "done"
          PROVE  GroupCount(seen)' >= LastN
      <3>1. seen' = Recent /\ GroupCount(Recent) >= LastN
        <4>1. Files = <<>> \/ Files # <<>>
          OBVIOUS
        <4> QED
          BY <1>4, <2>7, UsStart
      <3> QED
        BY <1>3, <3>1 DEF GroupCount
    <2>8. DoneInv'
      BY <1>2, <1>3, <1>4, <2>4, <2>7 DEF DoneInv, ExhaustedIsAll, TruncatedIsTold
    <2> QED
      BY <2>3, <2>6, <2>8 DEF Cover
  <1>5. CASE market # "US"
    <2>1. /\ seen' = {} /\ pc' = "list"
          /\ todo' = IF market = "CN" THEN CnWindows ELSE <<Whole>>
      BY <1>2, <1>5 DEF StartListing
    <2>2. Upward' /\ DoneInv'
      BY <2>1 DEF Upward, DoneInv
    <2>3. ASSUME market = "CN"
          PROVE  CnInv'
      <3>1. todo' = CnWindows
        BY <2>1, <2>3
      <3>2. In(Head(todo))' \subseteq Nat /\ IsFiniteSet(In(Head(todo))')
        <4>1. In(Head(todo))' \subseteq DOMAIN rows
          BY <1>3 DEF In
        <4> QED
          BY <1>0, <4>1, RowsFinite, RowFacts DEF TypeOK
      <3>3. \A i \in In(Head(todo))' : ~(Newer(i, In(Head(todo))') < 0)
        BY <3>2, NewerCounts
      <3>4. (page' - 1) * PageSize = 0
        BY <1>2, <1>3, Sizes
      <3>5. \A i \in In(Head(todo))' :
              i <= start' /\ Newer(i, In(Head(todo))') < (page' - 1) * PageSize => i \in seen'
        BY <3>3, <3>4
      <3> QED
        BY <1>2, <1>3, <3>1, <3>5, CnWindowsType DEF CnInv, Newer
    <2>4. ASSUME market # "CN"
          PROVE  HkInv'
      <3>1. todo' = <<Whole>> /\ <<Whole>> # <<>> /\ Len(<<Whole>>) = 1 /\ Head(<<Whole>>) = Whole
            /\ <<Whole>>[1] = Whole
        BY <2>1, <2>4
      <3>2. Chained(todo)' /\ Reached' = 0
        BY <3>1 DEF Chained, Reached, Whole
      <3>3. \A i \in 1..start' : ~(rows'[i].age < 0)
        BY <1>0, <1>1, <1>3, RowFacts
      <3> QED
        BY <1>2, <1>3, <2>1, <3>2, <3>3 DEF HkInv
    <2>5. ListInv'
      <3>1. market \in {"CN", "HK"}
        BY <1>0, <1>5, MarketAssumption DEF MarketAssumption, TypeOK
      <3> QED
        BY <1>3, <2>3, <2>4, <3>1 DEF ListInv
    <2> QED
      BY <2>2, <2>5 DEF Cover
  <1> QED
    BY <1>4, <1>5

LEMMA BudgetSpentCovers ==
  ASSUME IInv, BudgetSpent
  PROVE  Cover'
  <1> USE DEF source, query, answer, history
  <1>0. TypeOK /\ Upward /\ ListInv /\ pc = "list" /\ todo # <<>> /\ used >= budget
    BY DEF IInv, BudgetSpent
  <1>1. /\ truncated' = TRUE /\ exhausted' = FALSE /\ warned' = warned \cup {"budget"} /\ todo' = <<>>
        /\ UNCHANGED <<market, forms, budget, rows, submissions, search, page, used, seen, sent, cut,
                       start, opened>>
    BY DEF BudgetSpent, SpentExhausted
  <1>2. Upward'
    BY <1>0, <1>1 DEF Upward, Asked, Same
  <1>3. CASE market = "HK"
    <2>1. pc' = "list" /\ HkInv
      BY <1>0, <1>3 DEF BudgetSpent, ListInv
    <2>2. Chained(todo)'
      <3>1. ~\E k \in 1..(0 - 1) : TRUE
        OBVIOUS
      <3>2. Len(<<>>) = 0
        OBVIOUS
      <3> QED
        BY <1>1, <3>1, <3>2 DEF Chained
    <2>3. HkInv'
      BY <1>0, <1>1, <2>1, <2>2 DEF HkInv, Asked
    <2> QED
      BY <1>1, <1>2, <1>3, <2>1, <2>3 DEF Cover, ListInv, DoneInv
  <1>4. CASE market # "HK"
    <2>1. pc' = "done"
      BY <1>4 DEF BudgetSpent
    <2>2. market = "US" => start \in seen
      BY <1>0 DEF ListInv, UsInv
    <2> QED
      BY <1>1, <1>2, <2>1, <2>2 DEF Cover, ListInv, DoneInv, ExhaustedIsAll, TruncatedIsTold
  <1> QED
    BY <1>3, <1>4

\* EDGAR: a file that is read holds the rows that come next.
LEMMA UsFileCovers ==
  ASSUME IInv, UsFile
  PROVE  Cover'
  <1> USE DEF source, query, answer, history
  <1> DEFINE file == Head(todo)
  <1>0. /\ TypeOK /\ Upward /\ UsInv /\ pc = "list" /\ todo # <<>> /\ market = "US"
        /\ todo \in Seq(Window)
    BY DEF IInv, UsFile, Request, ListInv, TypeOK
  <1>1. /\ UNCHANGED <<market, forms, rows, truncated, exhausted, warned, cut, start>>
        /\ seen' = seen \cup InFile(file)
    BY DEF UsFile
  <1>2. /\ Downward(Tail(todo))
        /\ Tail(todo) # <<>> => Head(Tail(todo)).to = file.from
        /\ Tail(todo) = <<>> => file.from = 0
    BY <1>0, DownwardTail DEF UsInv
  <1>3. file.from \in Nat /\ file.to \in Nat
    <2>1. file \in Window
      BY <1>0, TailType
    <2> QED
      BY <2>1 DEF Window
  <1>4. start \in Nat /\ 1..start \subseteq DOMAIN rows /\ seen \subseteq Nat /\ InFile(file) \subseteq Nat
    BY <1>0, RowFacts DEF InFile
  <1>5. ASSUME "history" \notin warned, NEW i \in 1..start, i > file.from
        PROVE  i \in seen'
    <2>1. CASE i > file.to
      BY <1>0, <1>1, <1>5, <2>1 DEF UsInv
    <2>2. CASE ~(i > file.to)
      BY <1>1, <1>3, <1>4, <1>5, <2>2 DEF InFile
    <2> QED
      BY <2>1, <2>2
  <1>6. Upward'
    <2> SUFFICES ASSUME ~cut, "history" \notin warned, NEW j \in seen', NEW i \in 1..start,
                        Asked(i), i > j
                 PROVE  i \in seen'
      BY <1>1 DEF Upward, Asked, Same
    <2>1. CASE j \in seen
      BY <1>0, <1>1, <2>1 DEF Upward, Same
    <2>2. CASE j \in InFile(file)
      <3>1. j > file.from /\ j \in Nat
        BY <1>4, <2>2 DEF InFile
      <3>2. i > file.from
        BY <1>3, <3>1
      <3> QED
        BY <1>5, <3>2
    <2> QED
      BY <1>1, <2>1, <2>2
  <1>7. CASE GroupCount(seen') >= LastN
    <2>1. todo' = <<>> /\ pc' = "done"
      BY <1>7 DEF UsFile
    <2>2. GroupCount(seen)' >= LastN
      BY <1>1, <1>7 DEF GroupCount
    <2>3. DoneInv'
      BY <1>0, <1>1, <2>2 DEF UsInv, DoneInv, ExhaustedIsAll, TruncatedIsTold
    <2> QED
      BY <1>6, <2>1, <2>3 DEF Cover, ListInv
  <1>8. CASE ~(GroupCount(seen') >= LastN)
    <2>1. todo' = Tail(todo) /\ pc' = "list"
      BY <1>0, <1>8 DEF UsFile
    <2>2. UsInv'
      <3>1. Downward(todo)'
        BY <1>2, <2>1 DEF Downward
      <3>2. "history" \notin warned =>
              \A i \in 1..start : i > (IF todo' = <<>> THEN 0 ELSE Head(todo').to) => i \in seen'
        BY <1>2, <1>5, <2>1
      <3> QED
        BY <1>0, <1>1, <3>1, <3>2 DEF UsInv
    <2> QED
      BY <1>0, <1>1, <1>6, <2>1, <2>2 DEF Cover, ListInv, DoneInv
  <1> QED
    BY <1>7, <1>8

\* EDGAR: of a listing that has left out a file little is said.
LEMMA UsFileFailsCovers ==
  ASSUME IInv, UsFileFails
  PROVE  Cover'
  <1> USE DEF source, query, answer, history
  <1>0. /\ UsInv /\ pc = "list" /\ todo # <<>> /\ market = "US" /\ todo \in Seq(Window)
    BY DEF IInv, UsFileFails, Request, ListInv, TypeOK
  <1>1. /\ UNCHANGED <<market, forms, rows, seen, truncated, exhausted, cut, start, pc>>
        /\ warned' = warned \cup {"history"} /\ todo' = Tail(todo)
    BY DEF UsFileFails
  <1>2. Downward(Tail(todo))
    BY <1>0, DownwardTail DEF UsInv
  <1>3. UsInv'
    BY <1>0, <1>1, <1>2 DEF UsInv, Downward
  <1> QED
    BY <1>0, <1>1, <1>3 DEF Cover, Upward, ListInv, DoneInv

\* EDGAR: when no file is left within the look-back, all was read.
LEMMA UsFilesEndCovers ==
  ASSUME IInv, UsFilesEnd
  PROVE  Cover'
  <1> USE DEF source, query, answer, history
  <1>0. /\ TypeOK /\ SourceInv /\ LocalInv /\ Upward /\ UsInv /\ pc = "list" /\ market = "US"
        /\ todo \in Seq(Window) /\ opened <= start
    BY DEF IInv, UsFilesEnd, ListInv, TypeOK, LocalInv
  <1>1. /\ UNCHANGED <<market, forms, rows, seen, truncated, warned, cut, start>>
        /\ exhausted' = TRUE /\ pc' = "done"
    BY DEF UsFilesEnd
  <1>2. Upward'
    BY <1>0, <1>1 DEF Upward, Asked, Same
  <1>3. ASSUME "history" \notin warned, NEW i \in 1..start, Asked(i)
        PROVE  i \in seen
    <2>1. CASE todo = <<>>
      BY <1>0, <1>3, <2>1 DEF UsInv
    <2>2. CASE todo # <<>>
      <3> DEFINE last == Head(todo).to
      <3>1. last \in 1..Archived /\ Archived \in Nat
        BY <1>0, <2>2, DownwardTail, Sizes DEF UsInv
      <3>2. rows[last].age >= Lookback
        BY <2>2 DEF UsFilesEnd, TooOld
      <3>3. /\ Archived < opened /\ start \in Nat /\ opened \in Nat /\ DOMAIN rows = 1..Len(rows)
            /\ start <= Len(rows) /\ Len(rows) \in Nat
        BY <1>0, RowFacts DEF SourceInv
      <3>4. last \in DOMAIN rows /\ i \in DOMAIN rows /\ last \in Nat
        BY <1>0, <3>1, <3>3
      <3>5. rows[i].age \in Nat /\ rows[last].age \in Nat /\ Lookback \in Nat
        BY <1>0, <3>3, <3>4, RowFacts, Sizes
      <3>6. rows[i].age < Lookback
        BY <1>3 DEF Asked
      <3>7. i <= last => rows[last].age <= rows[i].age
        BY <1>0, <3>4 DEF SourceInv
      <3>8. i > last
        BY <3>2, <3>4, <3>5, <3>6, <3>7
      <3> QED
        BY <1>0, <1>3, <2>2, <3>8 DEF UsInv
    <2> QED
      BY <2>1, <2>2
  <1>4. ExhaustedIsAll'
    BY <1>1, <1>3 DEF ExhaustedIsAll, Wanted, Asked
  <1> QED
    BY <1>0, <1>1, <1>2, <1>4 DEF Cover, ListInv, DoneInv, UsInv, TruncatedIsTold

\* HKEXnews: a window is split, or its rows are all taken, or cut is told.
LEMMA HkWindowCovers ==
  ASSUME IInv, HkWindow
  PROVE  Cover'
  <1> USE DEF source, query, answer, history
  <1> DEFINE window == Head(todo)
             large == Cardinality(In(window)) > RowLimit
  <1>0. /\ TypeOK /\ SourceInv /\ Upward /\ HkInv /\ pc = "list" /\ todo # <<>> /\ market = "HK"
        /\ todo \in Seq(Window) /\ used < budget
    BY DEF IInv, HkWindow, Request, ListInv, TypeOK
  <1>1. /\ UNCHANGED <<market, forms, budget, rows, search, truncated, warned, start, pc>>
        /\ "budget" \notin warned /\ ~truncated /\ Chained(todo)
    <2>1. ~(used >= budget)
      BY <1>0, RowFacts
    <2> QED
      BY <1>0, <2>1 DEF HkWindow, HkInv
  <1>2. CASE large /\ window.to - window.from > 1
    <2> DEFINE split == Years(window) \o Tail(todo)
    <2>1. todo' = split /\ UNCHANGED <<seen, cut>>
      BY <1>2 DEF HkWindow
    <2>2. split # <<>> /\ Chained(split) /\ Head(split).from = window.from
      BY <1>0, <1>1, <1>2, ChainedYears
    <2> HIDE DEF split
    <2>3. Chained(todo)' /\ Reached' = Reached
      BY <1>0, <2>1, <2>2 DEF Reached, Chained
    <2>4. HkInv'
      BY <1>0, <1>1, <2>1, <2>3 DEF HkInv, Asked
    <2>5. Upward'
      BY <1>0, <1>1, <2>1 DEF Upward, Asked, Same
    <2> QED
      BY <1>0, <1>1, <2>4, <2>5 DEF Cover, ListInv, DoneInv
  <1>3. CASE ~(large /\ window.to - window.from > 1)
    <2> DEFINE found == Block(In(window), RowLimit, 1)
    <2>1. /\ todo' = Tail(todo) /\ seen' = seen \cup HkCandidates(found)
          /\ cut' = (cut \/ large)
      BY <1>3 DEF HkWindow
    <2>2. /\ Chained(Tail(todo))
          /\ Tail(todo) # <<>> => Head(Tail(todo)).from = window.to
          /\ Tail(todo) = <<>> => window.to = Lookback
      BY <1>0, <1>1, ChainedTail
    <2>3. window.from \in Nat /\ window.to \in Nat
      <3>1. window \in Window
        BY <1>0, TailType
      <3> QED
        BY <3>1 DEF Window
    <2>4. Chained(todo)' /\ Reached' = window.to /\ Reached = window.from
      BY <1>0, <2>1, <2>2 DEF Reached, Chained
    <2>5. /\ In(window) \subseteq 1..Len(rows) /\ IsFiniteSet(In(window))
          /\ In(window) \subseteq Nat /\ Cardinality(In(window)) \in Nat
      <3>1. In(window) \subseteq DOMAIN rows /\ rows \in Seq(Row)
        BY <1>0 DEF In, TypeOK
      <3> QED
        BY <1>0, <3>1, RowsFinite, RowFacts
    <2>6. ASSUME NEW j \in HkCandidates(found)
          PROVE  /\ j \in In(window) /\ rows[j].search = search /\ search \in forms
                 /\ rows[j].age < window.to
      BY <1>0 DEF HkCandidates, Block, In
    <2>7. ASSUME ~cut', NEW i \in 1..start, rows[i].search = search, search \in forms,
                 rows[i].age < window.to
          PROVE  i \in seen'
      <3>1. i \in DOMAIN rows /\ rows[i].age \in Nat /\ ~cut /\ ~large
        <4>1. i \in DOMAIN rows /\ rows[i].age \in Nat
          BY <1>0, RowFacts
        <4>2. ~cut /\ ~large
          BY <2>1, <2>7
        <4> QED
          BY <4>1, <4>2
      <3>2. CASE rows[i].age < window.from
        BY <1>0, <1>1, <2>1, <2>4, <2>7, <3>1, <3>2 DEF HkInv
      <3>3. CASE ~(rows[i].age < window.from)
        <4>1. i \in In(window)
          BY <2>3, <2>7, <3>1, <3>3 DEF In
        <4>2. Newer(i, In(window)) < Cardinality(In(window)) /\ Newer(i, In(window)) \in Nat
          BY <2>5, <4>1, NewerCounts
        <4>3. (1 - 1) * RowLimit = 0 /\ 1 * RowLimit = RowLimit /\ RowLimit \in Nat
          BY Sizes
        <4>4. (1 - 1) * RowLimit <= Newer(i, In(window)) /\ Newer(i, In(window)) < 1 * RowLimit
          BY <2>5, <3>1, <4>2, <4>3
        <4>5. i \in found
          BY <2>5, <4>1, <4>4, BlockHolds
        <4> QED
          BY <2>1, <2>7, <4>5 DEF HkCandidates
      <3> QED
        BY <3>2, <3>3
    <2>8. Upward'
      <3> SUFFICES ASSUME ~cut', NEW j \in seen', NEW i \in 1..start,
                          Asked(i), i > j, rows[i].search = rows[j].search
                   PROVE  i \in seen'
        BY <1>0, <1>1 DEF Upward, Asked, Same
      <3>1. CASE j \in seen
        BY <1>0, <2>1, <3>1 DEF Upward, Same, HkInv
      <3>2. CASE j \in HkCandidates(found)
        <4>1. /\ i \in DOMAIN rows /\ j \in DOMAIN rows /\ i \in Nat /\ j \in Nat
              /\ rows[i].age \in Nat /\ rows[j].age \in Nat
          BY <1>0, <2>5, <2>6, <3>2, RowFacts
        <4>2. rows[i].age <= rows[j].age
          BY <1>0, <4>1 DEF SourceInv
        <4>3. rows[i].age < window.to
          BY <2>3, <2>6, <3>2, <4>1, <4>2
        <4> QED
          BY <2>6, <2>7, <3>2, <4>3
      <3> QED
        BY <2>1, <3>1, <3>2
    <2>9. HkInv'
      <3>1. ~cut' => \A i \in 1..start : rows[i].search = search /\ search \in forms
                                           /\ rows[i].age < Reached' => i \in seen'
        BY <2>4, <2>7
      <3>2. search = "results" => \A j \in seen' : rows[j].search = "results"
        BY <1>0, <2>1, <2>6 DEF HkInv
      <3>3. search = "report" /\ "budget" \notin warned /\ ~cut' =>
              \A i \in 1..start : Asked(i) /\ rows[i].search = "results" => i \in seen'
        BY <1>0, <2>1 DEF HkInv
      <3>4. "history" \notin warned
        BY <1>0 DEF HkInv
      <3> QED
        BY <1>1, <2>4, <3>1, <3>2, <3>3, <3>4 DEF HkInv, Asked
    <2> QED
      BY <1>0, <1>1, <2>8, <2>9 DEF Cover, ListInv, DoneInv
  <1> QED
    BY <1>2, <1>3

\* HKEXnews: the second search keeps what the first one found, and the last one
\* ends the listing.
LEMMA HkNextSearchCovers ==
  ASSUME IInv, HkNextSearch
  PROVE  Cover'
  <1> USE DEF source, query, answer, history
  <1>0. /\ TypeOK /\ Upward /\ HkInv /\ pc = "list" /\ todo = <<>> /\ market = "HK"
    BY DEF IInv, HkNextSearch, ListInv
  <1>1. UNCHANGED <<market, forms, budget, rows, seen, warned, cut, start>>
    BY DEF HkNextSearch
  <1>2. Upward'
    BY <1>0, <1>1 DEF Upward, Asked, Same
  <1>3. ASSUME NEW i \in 1..start, Asked(i), rows[i].search = search, ~truncated, ~cut
        PROVE  i \in seen
    <2>1. rows[i].age < Reached /\ search \in forms
      BY <1>0, <1>3 DEF Reached, Asked
    <2> QED
      BY <1>0, <1>3, <2>1 DEF HkInv
  <1>4. "budget" \in warned <=> truncated
    BY <1>0 DEF HkInv, TypeOK
  <1>5. CASE search = "results" /\ "report" \in forms
    <2>1. /\ search' = "report" /\ todo' = <<Whole>> /\ used' = used /\ truncated' = FALSE
          /\ UNCHANGED <<exhausted, pc>>
      BY <1>5 DEF HkNextSearch, UsedSoFar
    <2>2. /\ <<Whole>> # <<>> /\ Len(<<Whole>>) = 1 /\ Head(<<Whole>>) = Whole
          /\ <<Whole>>[1] = Whole
      OBVIOUS
    <2>3. Chained(todo)' /\ Reached' = 0
      BY <2>1, <2>2 DEF Chained, Reached, Whole
    <2>4. \A i \in 1..start : ~(rows[i].age < 0)
      BY <1>0, RowFacts
    <2>5. "budget" \notin warned /\ ~cut =>
            \A i \in 1..start : Asked(i) /\ rows[i].search = "results" => i \in seen
      BY <1>3, <1>4, <1>5
    <2>6. "history" \notin warned /\ ("budget" \in warned => used >= budget)
      BY <1>0 DEF HkInv
    <2>7. HkInv'
      BY <1>1, <2>1, <2>2, <2>3, <2>4, <2>5, <2>6 DEF HkInv, Asked
    <2> QED
      BY <1>0, <1>1, <1>2, <2>1, <2>7 DEF Cover, ListInv, DoneInv
  <1>6. CASE ~(search = "results" /\ "report" \in forms)
    <2>1. exhausted' = ~truncated /\ pc' = "done" /\ UNCHANGED <<search, todo, used, truncated>>
      BY <1>6 DEF HkNextSearch
    <2>2. ASSUME NEW i \in 1..start, Asked(i), ~truncated, ~cut
          PROVE  i \in seen
      <3>1. rows[i].search \in {"results", "report"} /\ rows[i].search \in forms
        <4>1. i \in 1..Len(rows)
          BY <1>0, RowFacts
        <4>2. \A r \in Row : r.search \in Search
          BY DEF Row
        <4>3. rows[i].search \in Search
          BY <1>0, <4>1, <4>2, RowFacts
        <4> QED
          BY <1>0, <2>2, <4>3 DEF Search, Asked
      <3>2. CASE rows[i].search = search
        BY <1>3, <2>2, <3>2
      <3>3. CASE rows[i].search # search
        <4>1. search = "report" /\ rows[i].search = "results"
          BY <1>0, <1>6, <3>1, <3>3 DEF TypeOK, Search
        <4> QED
          BY <1>0, <1>4, <2>2, <4>1 DEF HkInv
      <3> QED
        BY <3>2, <3>3
    <2>3. ExhaustedIsAll'
      BY <1>1, <2>1, <2>2 DEF ExhaustedIsAll, Wanted, Asked
    <2>4. TruncatedIsTold'
      BY <1>1, <1>4, <2>1 DEF TruncatedIsTold
    <2> QED
      BY <1>0, <1>1, <1>2, <2>1, <2>3, <2>4 DEF Cover, ListInv, DoneInv
  <1> QED
    BY <1>5, <1>6

\* CNINFO: a page holds the next rows of its window even if rows were added
\* since the last one, and the last page of the last window ends the look-back.
LEMMA CnPageCovers ==
  ASSUME IInv, CnPage
  PROVE  Cover'
  <1> USE DEF source, query, answer, history
  <1> DEFINE window == In(Head(todo))
             found == Block(window, PageSize, page)
             more == Cardinality(window) > page * PageSize
             enough == GroupCount(seen') >= LastN
  <1>0. /\ TypeOK /\ SourceInv /\ Upward /\ CnInv /\ pc = "list" /\ todo # <<>> /\ market = "CN"
        /\ todo \in Seq(Window)
    BY DEF IInv, CnPage, Request, ListInv, TypeOK
  <1>1. /\ UNCHANGED <<market, forms, rows, search, truncated, warned, cut, start>>
        /\ seen' = seen \cup found
    BY DEF CnPage
  <1>2. /\ window \subseteq 1..Len(rows) /\ IsFiniteSet(window) /\ window \subseteq Nat
        /\ Cardinality(window) \in Nat
    <2>1. window \subseteq DOMAIN rows /\ rows \in Seq(Row)
      BY <1>0 DEF In, TypeOK
    <2> QED
      BY <1>0, <2>1, RowsFinite, RowFacts
  <1>3. page \in Nat \ {0} /\ PageSize \in Nat \ {0} /\ page * PageSize \in Nat
    <2>1. page \in Nat \ {0} /\ PageSize \in Nat \ {0}
      BY <1>0, RowFacts, Sizes
    <2> QED
      BY <2>1
  <1>4. ASSUME NEW i \in window
        PROVE  Newer(i, window) \in Nat /\ Newer(i, window) < Cardinality(window)
    BY <1>2, NewerCounts
  <1>5. ASSUME NEW i \in window, i <= start, Newer(i, window) < page * PageSize
        PROVE  i \in seen'
    <2>1. CASE Newer(i, window) < (page - 1) * PageSize
      BY <1>0, <1>1, <1>5, <2>1 DEF CnInv
    <2>2. CASE ~(Newer(i, window) < (page - 1) * PageSize)
      <3>1. (page - 1) * PageSize \in Nat
        BY <1>3
      <3>2. (page - 1) * PageSize <= Newer(i, window)
        BY <1>4, <2>2, <3>1
      <3>3. i \in found
        BY <1>2, <1>5, <3>2, BlockHolds
      <3> QED
        BY <1>1, <3>3
    <2> QED
      BY <2>1, <2>2
  <1>6. Head(todo).from = 0 /\ Head(todo).to \in Nat
    <2>1. Head(todo) = todo[1] /\ Head(todo) \in Window /\ 1 \in DOMAIN todo
      BY <1>0, TailType
    <2> QED
      BY <1>0, <2>1 DEF CnInv, Window
  <1>7. Upward'
    <2> SUFFICES ASSUME NEW j \in seen', NEW i \in 1..start, Asked(i), i > j
                 PROVE  i \in seen'
      BY <1>1 DEF Upward, Asked, Same
    <2>1. CASE j \in seen
      BY <1>0, <1>1, <2>1 DEF Upward, Same, CnInv
    <2>2. CASE j \in found
      <3>1. j \in window /\ Newer(j, window) < page * PageSize
        BY <1>2, <2>2, BlockHolds DEF Block
      <3>2. /\ i \in DOMAIN rows /\ j \in DOMAIN rows /\ i \in Nat /\ j \in Nat
            /\ rows[i].age \in Nat /\ rows[j].age \in Nat
        BY <1>0, <1>2, <3>1, RowFacts
      <3>3. rows[i].age <= rows[j].age /\ rows[j].age < Head(todo).to
        BY <1>0, <3>1, <3>2 DEF SourceInv, In
      <3>4. i \in window
        BY <1>0, <1>6, <3>2, <3>3 DEF In
      <3>5. Newer(i, window) < Newer(j, window)
        BY <1>2, <3>2, <3>4, NewerCounts
      <3>6. Newer(i, window) < page * PageSize
        BY <1>3, <1>4, <3>1, <3>4, <3>5
      <3>7. i <= start
        BY <1>0, RowFacts
      <3> QED
        BY <1>5, <3>4, <3>6, <3>7
    <2> QED
      BY <1>1, <2>1, <2>2
  <1>8. CASE more
    <2>1. page' = page + 1 /\ UNCHANGED <<todo, exhausted, pc>>
      BY <1>8 DEF CnPage
    <2>2. (page' - 1) * PageSize = page * PageSize
      BY <1>3, <2>1
    <2>3. In(Head(todo))' = window
      BY <1>1, <2>1 DEF In
    <2>4. \A i \in window : i <= start /\ Newer(i, window) < (page' - 1) * PageSize => i \in seen'
      BY <1>5, <2>2
    <2>5. CnInv'
      <3>1. \A i : Newer(i, In(Head(todo)))' = Newer(i, window)
        BY <2>3 DEF Newer
      <3> QED
        BY <1>0, <1>1, <2>1, <2>3, <2>4, <3>1 DEF CnInv
    <2> QED
      BY <1>0, <1>1, <1>7, <2>1, <2>5 DEF Cover, ListInv, DoneInv
  <1>9. CASE ~more
    <2>1. /\ page' = 1 /\ todo' = (IF enough THEN <<>> ELSE Tail(todo))
          /\ exhausted' = (Len(todo) = 1 \/ ~enough)
          /\ pc' = IF todo' = <<>> THEN "done" ELSE "list"
      BY <1>9 DEF CnPage
    <2>2. ASSUME NEW i \in window, i <= start
          PROVE  i \in seen'
      <3>1. Newer(i, window) < page * PageSize
        BY <1>2, <1>3, <1>4, <1>9
      <3> QED
        BY <1>5, <2>2, <3>1
    <2>3. /\ Len(todo) \in Nat \ {0} /\ Tail(todo) \in Seq(Window) /\ Len(Tail(todo)) = Len(todo) - 1
          /\ \A k \in 1..(Len(todo) - 1) : Tail(todo)[k] = todo[k + 1]
          /\ Tail(todo) = <<>> <=> Len(todo) = 1
          /\ Head(todo) = todo[1]
      BY <1>0, TailType
    <2>4. CASE todo' # <<>>
      <3>1. todo' = Tail(todo) /\ pc' = "list"
        BY <2>1, <2>4
      <3>2. Len(todo) > 1 /\ Len(todo) - 1 \in 1..(Len(todo) - 1) /\ (Len(todo) - 1) + 1 = Len(todo)
        BY <2>3, <2>4, <3>1
      <3>3. todo'[Len(todo')] = Whole
        BY <1>0, <2>3, <3>1, <3>2 DEF CnInv
      <3>4. \A k \in DOMAIN todo' : todo'[k].from = 0
        <4>1. DOMAIN todo' = 1..(Len(todo) - 1)
          BY <2>3, <3>1
        <4>2. \A k \in 1..(Len(todo) - 1) : k + 1 \in DOMAIN todo
          BY <2>3
        <4> QED
          BY <1>0, <2>3, <3>1, <4>1, <4>2 DEF CnInv
      <3>5. \A i \in In(Head(todo))' : ~(Newer(i, In(Head(todo)))' < (page' - 1) * PageSize)
        <4>1. (page' - 1) * PageSize = 0
          BY <1>3, <2>1
        <4>2. In(Head(todo))' \subseteq DOMAIN rows
          BY <1>1 DEF In
        <4>3. IsFiniteSet(In(Head(todo))') /\ In(Head(todo))' \subseteq Nat
          BY <1>0, <4>2, RowsFinite, RowFacts DEF TypeOK
        <4>4. \A i \in In(Head(todo))' : Newer(i, In(Head(todo))') \in Nat
          BY <4>3, NewerCounts
        <4> QED
          BY <4>1, <4>4 DEF Newer
      <3>6. CnInv'
        BY <1>0, <1>1, <2>4, <3>3, <3>4, <3>5 DEF CnInv
      <3> QED
        BY <1>0, <1>1, <1>7, <3>1, <3>6 DEF Cover, ListInv, DoneInv
    <2>5. CASE todo' = <<>>
      <3>1. pc' = "done"
        BY <2>1, <2>5
      <3>2. exhausted' => Len(todo) = 1
        BY <2>1, <2>3, <2>5
      <3>3. ~exhausted' => enough
        BY <2>1
      <3>4. ASSUME exhausted', NEW i \in 1..start, Asked(i)
            PROVE  i \in seen'
        <4>1. Head(todo) = Whole
          BY <1>0, <2>3, <3>2, <3>4 DEF CnInv
        <4>2. i \in DOMAIN rows /\ rows[i].age \in Nat /\ i <= start
          BY <1>0, RowFacts
        <4>3. i \in window
          BY <1>0, <3>4, <4>1, <4>2 DEF In, Whole, Asked
        <4> QED
          BY <2>2, <4>2, <4>3
      <3>5. ExhaustedIsAll'
        BY <1>1, <3>4 DEF ExhaustedIsAll, Wanted, Asked
      <3>6. ~exhausted' => GroupCount(seen)' >= LastN
        BY <1>1, <3>3 DEF GroupCount
      <3>7. TruncatedIsTold'
        BY <1>0, <1>1 DEF TruncatedIsTold, CnInv
      <3> QED
        BY <1>0, <1>1, <1>7, <3>1, <3>5, <3>6, <3>7 DEF Cover, ListInv, DoneInv
    <2> QED
      BY <2>4, <2>5
  <1> QED
    BY <1>8, <1>9

LEMMA StepKeepsIInv == IInv /\ [Next]_vars => IInv'
  <1> SUFFICES ASSUME IInv, [Next]_vars
               PROVE  IInv'
    OBVIOUS
  <1>1. TypeOK' /\ SourceInv' /\ LocalInv' /\ SpentInv'
    BY TypePreserved, SourcePreserved, LocalPreserved, SpentPreserved
  <1>2. Cover'
    <2>1. CASE BeginSession \/ Resolve \/ RequestFails \/ UNCHANGED vars
      BY <2>1, RestCovers
    <2> QED
      BY <2>1, PublishCovers, StartCovers, BudgetSpentCovers, CnPageCovers, HkWindowCovers,
         HkNextSearchCovers, UsFileCovers, UsFileFailsCovers, UsFilesEndCovers
      DEF Next
  <1> QED
    BY <1>1, <1>2 DEF IInv, Cover

-----------------------------------------------------------------------------
(* Theorems.                                                               *)

LEMMA Invariance == Spec => []IInv
  BY InitIInv, StepKeepsIInv, PTL DEF Spec

\* list_reports of the three adapters: windows, pages, files and counters stay
\* within their types, for any histories, budgets and publications.
THEOREM TypeCorrect == Spec => []TypeOK
  BY Invariance, PTL DEF IInv

\* max_discovery_requests bounds what a listing sends, whatever searches and
\* windows share it; EDGAR's failed files come on top, one request each.
THEOREM BudgetIsKept == Spec => []BudgetKept
  BY Invariance, PTL DEF IInv, SpentInv

\* exhausted, truncated and the warnings tell what a listing has read, although
\* the source publishes between its requests.
THEOREM CoverageIsHonest == Spec => []CoverageHonest
  <1>1. IInv => StoppedIsEnough
    <2> DEFINE groupsOf(role) == {rows[i].group : i \in {j \in seen : rows[j].role = role}}
    <2> SUFFICES ASSUME IInv, pc = "done", ~truncated, ~exhausted,
                        groupsOf("notice") \cup groupsOf("summary") = {}
                 PROVE  Cardinality(groupsOf("full")) >= LastN
      BY DEF StoppedIsEnough
    <2>1. TypeOK /\ GroupCount(seen) >= LastN
      BY DEF IInv, DoneInv
    <2>2. ASSUME NEW j \in seen
          PROVE  rows[j].role = "full"
      <3>1. rows[j].role \in {"full", "notice", "summary"}
        <4>1. \A r \in Row : r.role \in {"full", "notice", "summary"}
          BY DEF Row
        <4> QED
          BY <2>1, <4>1, RowFacts
      <3>2. rows[j].role # "notice" /\ rows[j].role # "summary"
        OBVIOUS
      <3> QED
        BY <3>1, <3>2
    <2>3. /\ {j \in seen : market = "CN" => rows[j].role # "summary"} = seen
          /\ {j \in seen : rows[j].role = "full"} = seen
      BY <2>2
    <2> QED
      BY <2>1, <2>3 DEF GroupCount
  <1>2. IInv => ExhaustedIsAll /\ TruncatedIsTold
    BY DEF IInv, DoneInv, ExhaustedIsAll, TruncatedIsTold
  <1>3. IInv => CoverageHonest
    BY <1>1, <1>2 DEF CoverageHonest
  <1> QED
    BY Invariance, <1>3, PTL

\* A listing that stops early has left out older reports than it returns, in
\* any order of pages, windows and files and whatever is published meanwhile.
THEOREM NewestAreKept == Spec => []KeepsNewest
  <1>1. IInv => KeepsNewest
    <2> SUFFICES ASSUME IInv, "history" \notin warned, ~cut,
                        NEW i \in Wanted \ seen, NEW j \in seen, ~(i < j)
                 PROVE  market = "HK" /\ rows[i].search # rows[j].search
      BY DEF KeepsNewest
    <2>1. TypeOK /\ Upward
      BY DEF IInv
    <2>2. i \in 1..start /\ Asked(i) /\ i \notin seen /\ i # j
      BY DEF Wanted
    <2>3. i \in Nat /\ j \in Nat
      BY <2>1, <2>2, RowFacts
    <2>4. ~Same(i, j)
      BY <2>1, <2>2, <2>3 DEF Upward
    <2> QED
      BY <2>4 DEF Same
  <1> QED
    BY Invariance, <1>1, PTL

\* begin_discovery_session: no listing answers from what a source had before
\* the session began, EDGAR's _submissions_cache included.
THEOREM SessionsSeeNew == Spec => []SessionSeesNew
  <1>1. IInv => SessionSeesNew
    <2> SUFFICES ASSUME IInv, pc = "done", ~truncated, ~cut, NEW i \in 1..opened, Asked(i)
                 PROVE  \E j \in seen : j >= i /\ (market = "HK" => rows[j].search = rows[i].search)
      BY DEF SessionSeesNew
    <2>1. TypeOK /\ LocalInv /\ Upward /\ DoneInv /\ opened <= start
      BY DEF IInv, LocalInv
    <2>2. i \in 1..start /\ i \in Nat /\ start \in Nat /\ opened \in Nat /\ seen \subseteq Nat
      BY <2>1, RowFacts
    <2>3. CASE market = "US"
      <3>1. start \in seen /\ start >= i
        BY <2>1, <2>2, <2>3 DEF DoneInv
      <3> QED
        BY <2>3, <3>1
    <2>4. CASE market # "US"
      <3>1. "history" \notin warned
        BY <2>1, <2>4 DEF LocalInv
      <3>2. CASE i \in seen
        BY <2>2, <3>2
      <3>3. CASE i \notin seen
        <4>1. ~exhausted
          BY <2>1, <2>2, <3>1, <3>3 DEF DoneInv, ExhaustedIsAll, Wanted
        <4>2. GroupCount(seen) >= LastN /\ market # "HK"
          BY <2>1, <4>1 DEF DoneInv
        <4>3. seen # {}
          <5>1. ASSUME seen = {}
                PROVE  GroupCount(seen) = 0
            <6>1. {rows[k].group : k \in {j \in seen : market = "CN" => rows[j].role # "summary"}} = {}
              BY <5>1
            <6> QED
              BY <6>1, FS_EmptySet DEF GroupCount
          <5> QED
            BY <4>2, <5>1, Sizes
        <4>4. PICK j \in seen : TRUE
          BY <4>3
        <4>5. ~(i > j)
          BY <2>1, <2>2, <3>1, <3>3, <4>2 DEF Upward, Same
        <4> QED
          BY <2>2, <4>2, <4>5
      <3> QED
        BY <3>2, <3>3
    <2> QED
      BY <2>3, <2>4
  <1> QED
    BY Invariance, <1>1, PTL
=============================================================================
