--------------------------- MODULE SessionsProofs ---------------------------
(***************************************************************************)
(* What Sessions promises of prompts, summaries and answers, proved for    *)
(* any number of sessions, tasks, nodes and turns, any sizes of turns and  *)
(* any windows.                                                            *)
(***************************************************************************)
EXTENDS Sessions, SequenceFacts, TLAPS, FiniteSetTheorems, SequenceTheorems

(***************************************************************************)
(* Sums of sizes                                                           *)
(***************************************************************************)
\* What the fold of the library counts: one element, and then the rest.
One(T) == CHOOSE x \in T : TRUE
Sums(l, S, f) == f = [T \in SUBSET S |-> IF T = {} THEN 0 ELSE l[One(T)].size + f[T \ {One(T)}]]
Sized(l, S) == IsFiniteSet(S) /\ \A v \in S : l[v].size \in Nat

LEMMA TokensIsSum ==
    ASSUME NEW l, NEW S
    PROVE  Tokens(l, S) = (CHOOSE f : Sums(l, S, f))[S]
BY DEF Tokens, Sums, One, MapThenSumSet, MapThenFoldSet

LEMMA OneIs ==
    ASSUME NEW T, T # {}
    PROVE  One(T) \in T
BY DEF One

LEMMA OneLess ==
    ASSUME NEW S, IsFiniteSet(S), NEW n \in Nat, NEW T \in SUBSET S, T # {}, Cardinality(T) <= n + 1
    PROVE  T \ {One(T)} \in SUBSET S /\ Cardinality(T \ {One(T)}) <= n
<1>1. One(T) \in T /\ IsFiniteSet(T)
  BY OneIs, FS_Subset
<1>2. Cardinality(T \ {One(T)}) = Cardinality(T) - 1 /\ Cardinality(T) \in Nat
  BY <1>1, FS_RemoveElement, FS_CardinalityType
<1> QED
  BY <1>2

\* There is such a count, of sets of n elements and hence of all.
LEMMA SumsExist ==
    ASSUME NEW l, NEW S, Sized(l, S)
    PROVE  \E f : Sums(l, S, f)
<1> DEFINE Small(n) == {T \in SUBSET S : Cardinality(T) <= n}
           Good(n, f) == \A T \in Small(n) :
               f[T] = IF T = {} THEN 0 ELSE l[One(T)].size + f[T \ {One(T)}]
           P == {n \in Nat : \E f : Good(n, f)}
<1>1. 0 \in P
  <2>1. ASSUME NEW T \in Small(0) PROVE T = {}
    <3>1. IsFiniteSet(T) /\ Cardinality(T) \in Nat
      BY FS_Subset, FS_CardinalityType DEF Sized
    <3> QED
      BY <3>1, FS_EmptySet
  <2>2. Good(0, [T \in SUBSET S |-> 0])
    BY <2>1
  <2> QED
    BY <2>2
<1>2. ASSUME NEW n \in P PROVE n + 1 \in P
  <2>1. PICK f : Good(n, f)
    BY <1>2
  <2> DEFINE g == [T \in SUBSET S |-> IF T = {} THEN 0 ELSE l[One(T)].size + f[T \ {One(T)}]]
  <2>2. \A T \in Small(n) : g[T] = f[T]
    BY <2>1
  <2>3. ASSUME NEW T \in Small(n + 1), T # {} PROVE T \ {One(T)} \in Small(n)
    BY <2>3, OneLess DEF Sized
  <2>4. ASSUME NEW T \in Small(n + 1)
        PROVE  g[T] = IF T = {} THEN 0 ELSE l[One(T)].size + g[T \ {One(T)}]
    BY <2>2, <2>3
  <2>5. Good(n + 1, g)
    BY <2>4
  <2> HIDE DEF g, Good
  <2> QED
    BY <2>5
<1>3. P = Nat
  <2> HIDE DEF P
  <2>1. P \in SUBSET Nat
    BY DEF P
  <2> QED
    BY <1>1, <1>2, <2>1, Inductive
<1>4. Cardinality(S) \in Nat
  BY FS_CardinalityType DEF Sized
<1>5. PICK f : Good(Cardinality(S), f)
  BY <1>3, <1>4
<1>6. \A T \in SUBSET S : T \in Small(Cardinality(S))
  BY FS_Subset DEF Sized
<1> DEFINE g == [T \in SUBSET S |-> f[T]]
<1>7. ASSUME NEW T \in SUBSET S
      PROVE  g[T] = IF T = {} THEN 0 ELSE l[One(T)].size + g[T \ {One(T)}]
  BY <1>5, <1>6
<1>8. Sums(l, S, g)
  BY <1>7 DEF Sums
<1> QED
  BY <1>8

\* Sums of sizes are natural numbers, and that of no turns is zero.
LEMMA TokensType ==
    ASSUME NEW l, NEW S, Sized(l, S)
    PROVE  /\ Tokens(l, S) \in Nat
           /\ S = {} => Tokens(l, S) = 0
<1> DEFINE f == CHOOSE g : Sums(l, S, g)
<1>1. Sums(l, S, f)
  BY SumsExist
<1>2. Tokens(l, S) = f[S]
  BY TokensIsSum
<1> HIDE DEF f
<1>3. \A T \in SUBSET S : f[T] = IF T = {} THEN 0 ELSE l[One(T)].size + f[T \ {One(T)}]
  BY <1>1 DEF Sums
<1>9. f[{}] = 0
  <2>1. {} \in SUBSET S
    OBVIOUS
  <2> QED
    BY <1>3, <2>1
<1> DEFINE P == {n \in Nat : \A T \in SUBSET S : Cardinality(T) <= n => f[T] \in Nat}
<1>4. 0 \in P
  <2>1. ASSUME NEW T \in SUBSET S, Cardinality(T) <= 0 PROVE T = {}
    <3>1. IsFiniteSet(T) /\ Cardinality(T) \in Nat
      BY FS_Subset, FS_CardinalityType DEF Sized
    <3> QED
      BY <2>1, <3>1, FS_EmptySet
  <2> QED
    BY <1>9, <2>1
<1>5. ASSUME NEW n \in P PROVE n + 1 \in P
  <2>1. ASSUME NEW T \in SUBSET S, Cardinality(T) <= n + 1 PROVE f[T] \in Nat
    <3>1. CASE T = {}
      BY <1>9, <3>1
    <3>2. CASE T # {}
      <4>1. T \ {One(T)} \in SUBSET S /\ Cardinality(T \ {One(T)}) <= n
        BY <2>1, <3>2, OneLess DEF Sized
      <4>2. f[T \ {One(T)}] \in Nat
        BY <1>5, <4>1
      <4>3. l[One(T)].size \in Nat
        BY <3>2, OneIs DEF Sized
      <4>4. f[T] = l[One(T)].size + f[T \ {One(T)}]
        BY <1>3, <3>2
      <4> QED
        BY <4>2, <4>3, <4>4
    <3> QED
      BY <3>1, <3>2
  <2> QED
    BY <2>1
<1>6. P = Nat
  <2>1. P \in SUBSET Nat
    OBVIOUS
  <2> HIDE DEF P
  <2> QED
    BY <1>4, <1>5, <2>1, Inductive
<1>7. Cardinality(S) \in Nat
  BY FS_CardinalityType DEF Sized
<1>8. f[S] \in Nat
  BY <1>6, <1>7
<1> QED
  BY <1>2, <1>8, <1>9

(***************************************************************************)
(* Logs                                                                    *)
(***************************************************************************)
Plans == [lo : Nat \ {0}, hi : Nat, folds : SUBSET Nat, at : Nat, cost : Nat]
Rows  == [kind : {"user"}, size : Nat, task : Jobs \cup {NoJob}]
             \cup [kind : {"assistant"}, size : Nat, task : Jobs]
             \cup [kind : {"summary"}, size : Nat, task : Jobs, plan : Plans]
Logs  == Seq(Rows)

LEMMA LogIs ==
    ASSUME NEW l \in Logs
    PROVE  /\ Len(l) \in Nat /\ DOMAIN l = 1..Len(l)
           /\ \A v \in 1..Len(l) :
                 /\ l[v] \in Rows /\ l[v].kind \in Kinds /\ l[v].size \in Nat
                 /\ l[v].kind = "summary" => l[v].plan \in Plans /\ l[v].plan.hi \in Nat
<1>1. /\ Len(l) \in Nat /\ DOMAIN l = 1..Len(l)
      /\ \A v \in 1..Len(l) : l[v] \in Rows
  BY LenProperties, ElementOfSeq DEF Logs
<1>2. ASSUME NEW r \in Rows
      PROVE  /\ r.kind \in Kinds /\ r.size \in Nat
             /\ r.kind = "summary" => r.plan \in Plans /\ r.plan.hi \in Nat
  BY DEF Rows, Kinds, Plans
<1> QED
  BY <1>1, <1>2

LEMMA SummaryIs ==
    ASSUME NEW l \in Logs
    PROVE  /\ Summaries(l) \subseteq 1..Len(l) /\ CoveredThrough(l) \in Nat
           /\ Summaries(l) # {} =>
                 /\ LatestSummary(l) \in Summaries(l) /\ LatestSummary(l) \in 1..Len(l)
                 /\ l[LatestSummary(l)] \in Rows /\ l[LatestSummary(l)].kind = "summary"
                 /\ l[LatestSummary(l)].plan \in Plans
                 /\ CoveredThrough(l) = l[LatestSummary(l)].plan.hi
                 /\ \A k \in Summaries(l) : LatestSummary(l) >= k
           /\ Summaries(l) = {} => CoveredThrough(l) = 0
<1>1. Len(l) \in Nat /\ Summaries(l) \subseteq 1..Len(l)
  BY LogIs DEF Summaries
<1>2. CASE Summaries(l) = {}
  BY <1>1, <1>2 DEF CoveredThrough
<1>3. CASE Summaries(l) # {}
  <2>1. LatestSummary(l) \in Summaries(l) /\ \A k \in Summaries(l) : LatestSummary(l) >= k
    BY <1>1, <1>3, MaxIs DEF LatestSummary
  <2>2. l[LatestSummary(l)].kind = "summary"
    BY <2>1 DEF Summaries
  <2>3. CoveredThrough(l) = l[LatestSummary(l)].plan.hi
    BY <1>3 DEF CoveredThrough
  <2> QED
    BY <1>1, <1>3, <2>1, <2>2, <2>3, LogIs
<1> QED
  BY <1>2, <1>3

LEMMA FloorIs ==
    ASSUME NEW l \in Logs
    PROVE  /\ Live(l) \subseteq 1..Len(l) /\ FloorTurns(l) \subseteq Live(l)
           /\ \A kind : \A v \in Newest(l, kind) :
                 /\ v \in Live(l) /\ l[v].kind = kind
                 /\ \A w \in Live(l) : l[w].kind = kind => v >= w
           /\ \A kind : \A w \in Live(l) : l[w].kind = kind => Newest(l, kind) # {}
<1>1. Len(l) \in Nat /\ Live(l) \subseteq 1..Len(l)
  BY LogIs DEF Live
<1>2. ASSUME NEW kind, NEW v \in Newest(l, kind)
      PROVE  v \in Live(l) /\ l[v].kind = kind /\ \A w \in Live(l) : l[w].kind = kind => v >= w
  <2> DEFINE S == {w \in Live(l) : l[w].kind = kind}
  <2>1. S # {} /\ v = Max(S)
    BY <1>2 DEF Newest
  <2>2. S \subseteq 1..Len(l)
    BY <1>1
  <2>3. Max(S) \in S /\ \A y \in S : Max(S) >= y
    <3> HIDE DEF S
    <3> QED
      BY <1>1, <2>1, <2>2, MaxIs
  <2> QED
    BY <2>1, <2>3
<1>3. ASSUME NEW kind, NEW w \in Live(l), l[w].kind = kind PROVE Newest(l, kind) # {}
  BY <1>3 DEF Newest
<1>4. FloorTurns(l) \subseteq Live(l)
  BY <1>2 DEF FloorTurns
<1> QED
  BY <1>1, <1>2, <1>3, <1>4

LEMMA SomeSized ==
    ASSUME NEW l \in Logs, NEW S, S \subseteq 1..Len(l)
    PROVE  Sized(l, S)
<1>1. Len(l) \in Nat /\ \A v \in 1..Len(l) : l[v].size \in Nat
  BY LogIs
<1>2. IsFiniteSet(S)
  <2>1. IsFiniteSet(1..Len(l))
    BY <1>1, FS_Interval
  <2> QED
    BY <2>1, FS_Subset
<1> QED
  BY <1>1, <1>2 DEF Sized

(***************************************************************************)
(* Prompts                                                                 *)
(***************************************************************************)
LEMMA CappedIs ==
    ASSUME NEW x \in Nat, NEW room \in Nat
    PROVE  Capped(x, room) \in Nat /\ Capped(x, room) <= room
BY MinIs DEF Capped

LEMMA AtLeastOneIs ==
    ASSUME NEW x \in Int
    PROVE  /\ AtLeastOne(x) \in Nat \ {0} /\ x <= AtLeastOne(x)
           /\ AtLeastOne(x) = 1 \/ AtLeastOne(x) = x
           /\ x > 0 => AtLeastOne(x) = x
<1> DEFINE m == IF x > 1 THEN x ELSE 1
<1>1. m \in {1, x} /\ \A y \in {1, x} : m >= y
  OBVIOUS
<1>2. \A z \in {1, x} : (\A y \in {1, x} : z >= y) => z = m
  BY <1>1
<1>3. AtLeastOne(x) = m
  <2> HIDE DEF m
  <2> QED
    BY <1>1, <1>2 DEF AtLeastOne, Max
<1> QED
  BY <1>3

\* What the summary leaves of a budget is at least two tokens.
LEMMA SummaryLeaves ==
    ASSUME NEW l \in Logs, NEW b \in Nat, b > 2
    PROVE  /\ SummaryTokens(l, b) \in Nat /\ VerbatimBudget(l, b) \in Nat
           /\ VerbatimBudget(l, b) >= 2
           /\ SummaryTokens(l, b) + VerbatimBudget(l, b) <= b
<1>1. CASE Summaries(l) = {}
  BY <1>1 DEF SummaryTokens, VerbatimBudget
<1>2. CASE Summaries(l) # {}
  <2>1. PICK q : q = (b * 15) \div 100
    OBVIOUS
  <2>2. q \in Nat /\ q <= b - 2
    BY <2>1
  <2>3. SummaryBudget(b) \in Nat /\ SummaryBudget(b) <= b - 2
    BY <2>1, <2>2, AtLeastOneIs DEF SummaryBudget
  <2>4. l[LatestSummary(l)].size \in Nat
    BY <1>2, SummaryIs, LogIs
  <2>5. SummaryTokens(l, b) \in Nat /\ SummaryTokens(l, b) <= b - 2
    <3>1. SummaryTokens(l, b) = Capped(l[LatestSummary(l)].size, SummaryBudget(b))
      BY <1>2 DEF SummaryTokens
    <3>2. SummaryTokens(l, b) \in Nat /\ SummaryTokens(l, b) <= SummaryBudget(b)
      BY <2>3, <2>4, <3>1, CappedIs
    <3> QED
      BY <2>3, <3>2
  <2>6. VerbatimBudget(l, b) = b - SummaryTokens(l, b)
    BY <1>2, <2>5, AtLeastOneIs DEF VerbatimBudget
  <2> QED
    BY <2>5, <2>6
<1> QED
  BY <1>1, <1>2

\* The floor turns share what is left, half each if the older needs as much.
LEMMA FloorFits ==
    ASSUME NEW l \in Logs, NEW room \in Nat, room >= 2
    PROVE  FloorTokens(l, room) \in Nat /\ FloorTokens(l, room) <= room
<1>1. CASE FloorTurns(l) = {}
  BY <1>1 DEF FloorTokens
<1>2. CASE FloorTurns(l) # {}
  <2>1. PICK old : old = Min(FloorTurns(l))
    OBVIOUS
  <2>2. PICK new : new = Max(FloorTurns(l))
    OBVIOUS
  <2>3. FloorTurns(l) \subseteq 1..Len(l) /\ Len(l) \in Nat
    BY FloorIs, LogIs
  <2>4. old \in 1..Len(l) /\ new \in 1..Len(l)
    BY <1>2, <2>1, <2>2, <2>3, MinIs, MaxIs
  <2>5. PICK x \in Nat : x = l[old].size
    BY <2>4, LogIs
  <2>6. PICK y \in Nat : y = l[new].size
    BY <2>4, LogIs
  <2>7. CASE old = new
    <3>1. FloorTokens(l, room) = Capped(y, room)
      BY <1>2, <2>1, <2>2, <2>6, <2>7 DEF FloorTokens
    <3> QED
      BY <3>1, CappedIs
  <2>8. CASE old # new /\ x < room
    <3>1. FloorTokens(l, room) = x + Capped(y, room - x)
      BY <1>2, <2>1, <2>2, <2>5, <2>6, <2>8 DEF FloorTokens
    <3>2. Capped(y, room - x) \in Nat /\ Capped(y, room - x) <= room - x
      BY <2>8, CappedIs
    <3> QED
      BY <2>8, <3>1, <3>2
  <2>9. CASE old # new /\ ~(x < room)
    <3>1. PICK h : h = room \div 2
      OBVIOUS
    <3>2. h \in Nat /\ h > 0 /\ room - h > 0
      BY <3>1
    <3>3. AtLeastOne(h) = h /\ AtLeastOne(room - h) = room - h
      BY <3>2, AtLeastOneIs
    <3>4. FloorTokens(l, room) = Capped(x, h) + Capped(y, room - h)
      BY <1>2, <2>1, <2>2, <2>5, <2>6, <2>9, <3>1, <3>3 DEF FloorTokens
    <3>5. Capped(x, h) \in Nat /\ Capped(x, h) <= h
      BY <3>2, CappedIs
    <3>6. Capped(y, room - h) \in Nat /\ Capped(y, room - h) <= room - h
      BY <3>2, CappedIs
    <3> QED
      BY <3>2, <3>4, <3>5, <3>6
  <2> QED
    BY <2>7, <2>8, <2>9
<1> QED
  BY <1>1, <1>2

\* The older turns kept fit what the floor leaves, and are the newest of them.
LEMMA KeptIs ==
    ASSUME NEW l \in Logs, NEW b,
           VerbatimBudget(l, b) \in Nat, FloorTokens(l, VerbatimBudget(l, b)) \in Nat,
           FloorTokens(l, VerbatimBudget(l, b)) <= VerbatimBudget(l, b)
    PROVE  /\ Kept(l, b) \subseteq Live(l) \ FloorTurns(l)
           /\ Tokens(l, Kept(l, b)) \in Nat
           /\ Tokens(l, Kept(l, b)) <= VerbatimBudget(l, b) - FloorTokens(l, VerbatimBudget(l, b))
<1> DEFINE older == Live(l) \ FloorTurns(l)
           left == VerbatimBudget(l, b) - FloorTokens(l, VerbatimBudget(l, b))
<1>1. Kept(l, b) = {v \in older : \A x \in older : x >= v => Tokens(l, {w \in older : w >= x}) <= left}
  BY DEF Kept
<1>2. older \subseteq 1..Len(l) /\ Len(l) \in Nat
  BY FloorIs, LogIs
<1>3. left \in Nat
  OBVIOUS
<1> HIDE DEF older, left
<1>4. Kept(l, b) \subseteq older
  BY <1>1
<1>5. Sized(l, Kept(l, b))
  BY <1>2, <1>4, SomeSized
<1>6. CASE Kept(l, b) = {}
  BY <1>3, <1>4, <1>5, <1>6, TokensType DEF older, left
<1>7. CASE Kept(l, b) # {}
  <2>0. older \subseteq Nat /\ Kept(l, b) \subseteq Nat
    <3>1. PICK n \in Nat : n = Len(l)
      BY <1>2
    <3>2. 1..n \subseteq Nat
      OBVIOUS
    <3> QED
      BY <1>2, <1>4, <3>1, <3>2
  <2>1. PICK v \in Kept(l, b) : \A w \in Kept(l, b) : v <= w
    BY <2>0, <1>7, Least
  <2>2. ASSUME NEW w \in older, w >= v PROVE w \in Kept(l, b)
    <3>1. ASSUME NEW x \in older, x >= w PROVE x >= v
      BY <2>0, <2>1, <2>2, <3>1
    <3>2. \A x \in older : x >= v => Tokens(l, {u \in older : u >= x}) <= left
      BY <1>1, <2>1
    <3> QED
      BY <1>1, <3>1, <3>2
  <2>3. {w \in older : w >= v} = Kept(l, b)
    BY <1>4, <2>1, <2>2
  <2>4. Tokens(l, {w \in older : w >= v}) <= left
    BY <1>1, <1>4, <2>0, <2>1
  <2>5. Tokens(l, Kept(l, b)) \in Nat
    BY <1>5, TokensType
  <2> QED
    BY <1>4, <2>3, <2>4, <2>5 DEF older, left
<1> QED
  BY <1>6, <1>7

LEMMA PromptIs ==
    ASSUME NEW l \in Logs, NEW b \in Nat, b > 2
    PROVE  PromptTokens(l, b) <= b
<1>1. PICK r \in Nat : r = VerbatimBudget(l, b)
  BY SummaryLeaves
<1>2. PICK t \in Nat : t = SummaryTokens(l, b)
  BY SummaryLeaves
<1>3. r >= 2 /\ t + r <= b
  BY <1>1, <1>2, SummaryLeaves
<1>4. PICK f \in Nat : f = FloorTokens(l, r)
  BY <1>3, FloorFits
<1>5. f <= r
  BY <1>3, <1>4, FloorFits
<1>6. PICK k \in Nat : k = Tokens(l, Kept(l, b))
  BY <1>1, <1>4, <1>5, KeptIs
<1>7. k <= r - f
  BY <1>1, <1>4, <1>5, <1>6, KeptIs
<1>8. PromptTokens(l, b) = t + f + k
  BY <1>1, <1>2, <1>4, <1>6 DEF PromptTokens
<1> QED
  BY <1>3, <1>5, <1>7, <1>8

(***************************************************************************)
(* The invariant                                                           *)
(***************************************************************************)
TaskRows == [status : {"new", "queued", "assigned", "succeeded", "failed"}, kind : {"chat", "summary"},
             of : Ids \cup {NoJob}, node : Hosts \cup {NoHost}, plan : Plans]

Types ==
    /\ session \in [Ids -> [status : {"new", "active", "closed", "gone"}, pin : Hosts \cup {NoHost}]]
    /\ log \in [Ids -> Logs]
    /\ task \in [Jobs -> TaskRows]
    /\ sends \subseteq Jobs \X Hosts /\ compacting \subseteq Ids /\ forgot \in BOOLEAN

\* A task in the table belongs to a session that was created.
TaskOf ==
    /\ \A t \in Jobs :
          /\ task[t].status = "new" => task[t].kind = "chat"
          /\ task[t].status # "new" => task[t].of \in Ids /\ session[task[t].of].status # "new"
          /\ InFlight(t) => task[t].node \in Hosts
    /\ \A e \in sends : task[e[1]].status # "new"

\* The request of a task that runs is in the log of its session.
Asked ==
    \A t \in Jobs : Runs(t) /\ task[t].kind = "chat" /\ There(task[t].of) =>
        \E u \in 1..Len(log[task[t].of]) :
            log[task[t].of][u].kind = "user" /\ log[task[t].of][u].task = t

\* Summaries on their way, to a session that is still there: marked, one at a
\* time, and covering at least what the log's latest does.
Due(t) == Runs(t) /\ task[t].kind = "summary" /\ There(task[t].of)

Marked ==
    ~forgot =>
        /\ \A t \in Jobs : Due(t) =>
              /\ task[t].of \in compacting
              /\ task[t].plan.hi >= CoveredThrough(log[task[t].of])
        /\ \A t, u \in Jobs : Due(t) /\ Due(u) /\ task[t].of = task[u].of => t = u

\* What a plan for l claims lies before the turn that ordered it, and is folded,
\* a summary, or was the newest request of that plan or of a summary in l.
Told(l, p) ==
    /\ p.hi < p.at /\ p.at <= Len(l)
    /\ \A v \in p.lo..p.hi :
          \/ v \in p.folds \cup Summaries(l)
          \/ v \in NewestRequest(l, p.at)
          \/ \E k \in Summaries(l) : v \in NewestRequest(l, l[k].plan.at)

AllTold ==
    /\ \A s \in Ids : \A m \in Summaries(log[s]) : Told(log[s], log[s][m].plan)
    /\ \A t \in Jobs : Due(t) => Told(log[task[t].of], task[t].plan)

SessionsInv == Types /\ TaskOf /\ Asked /\ AnsweredOnce /\ Marked /\ AllTold

-----------------------------------------------------------------------------
(***************************************************************************)
(* Logs that grow                                                          *)
(***************************************************************************)
LEMMA AppendIs ==
    ASSUME NEW l \in Logs, NEW r \in Rows
    PROVE  /\ Append(l, r) \in Logs /\ Len(Append(l, r)) = Len(l) + 1
           /\ Append(l, r)[Len(l) + 1] = r
           /\ \A v \in 1..Len(l) : Append(l, r)[v] = l[v]
BY AppendProperties DEF Logs

LEMMA AppendSummary ==
    ASSUME NEW l \in Logs, NEW r \in Rows
    PROVE  /\ r.kind = "summary" => /\ Summaries(Append(l, r)) = Summaries(l) \cup {Len(l) + 1}
                                    /\ CoveredThrough(Append(l, r)) = r.plan.hi
           /\ r.kind # "summary" => /\ Summaries(Append(l, r)) = Summaries(l)
                                    /\ CoveredThrough(Append(l, r)) = CoveredThrough(l)
<1>1. PICK m : m = Append(l, r)
  OBVIOUS
<1>2. PICK n \in Nat : n = Len(l)
  BY LogIs
<1>3. /\ m \in Logs /\ Len(m) = n + 1 /\ m[n + 1] = r /\ DOMAIN m = 1..n + 1 /\ DOMAIN l = 1..n
      /\ \A v \in 1..n : m[v] = l[v]
  BY <1>1, <1>2, AppendIs, LogIs
<1>4. \A v \in 1..n + 1 : v \in 1..n \/ v = n + 1
  BY <1>2
<1>5. ~(n + 1 \in 1..n) /\ n + 1 \in 1..n + 1 /\ 1..n \subseteq 1..n + 1
  BY <1>2
<1>6. CASE r.kind = "summary"
  <2>1. Summaries(m) = Summaries(l) \cup {n + 1}
    BY <1>3, <1>4, <1>5, <1>6 DEF Summaries
  <2>2. LatestSummary(m) \in 1..n + 1 /\ LatestSummary(m) >= n + 1 /\ CoveredThrough(m) = m[LatestSummary(m)].plan.hi
    BY <1>3, <2>1, SummaryIs
  <2>3. LatestSummary(m) = n + 1
    BY <1>2, <2>2
  <2> QED
    BY <1>1, <1>2, <1>3, <1>6, <2>1, <2>2, <2>3
<1>7. CASE r.kind # "summary"
  <2>1. Summaries(m) = Summaries(l)
    BY <1>3, <1>4, <1>5, <1>7 DEF Summaries
  <2>2. CASE Summaries(l) = {}
    BY <1>1, <1>7, <2>1, <2>2 DEF CoveredThrough
  <2>3. CASE Summaries(l) # {}
    <3>1. LatestSummary(m) = LatestSummary(l)
      BY <2>1 DEF LatestSummary
    <3>2. LatestSummary(l) \in 1..n
      BY <1>2, <2>3, SummaryIs
    <3> QED
      BY <1>1, <1>3, <1>7, <2>1, <2>3, <3>1, <3>2 DEF CoveredThrough
  <2> QED
    BY <2>2, <2>3
<1> QED
  BY <1>6, <1>7

LEMMA NewestStays ==
    ASSUME NEW l \in Logs, NEW r \in Rows, NEW at \in Nat, at <= Len(l)
    PROVE  NewestRequest(Append(l, r), at) = NewestRequest(l, at)
<1>1. PICK m : m = Append(l, r)
  OBVIOUS
<1>2. PICK n \in Nat : n = Len(l)
  BY LogIs
<1>3. /\ DOMAIN m = 1..n + 1 /\ DOMAIN l = 1..n
      /\ \A v \in 1..n : m[v] = l[v]
  BY <1>1, <1>2, AppendIs, LogIs
<1>4. {v \in DOMAIN m : v <= at /\ m[v].kind = "user"} = {v \in DOMAIN l : v <= at /\ l[v].kind = "user"}
  <2>1. \A v \in 1..n + 1 : v <= at => v \in 1..n
    BY <1>2
  <2>2. 1..n \subseteq 1..n + 1
    BY <1>2
  <2> QED
    BY <1>3, <2>1, <2>2
<1> QED
  BY <1>1, <1>4 DEF NewestRequest

\* What is told of a plan stays told when the log grows.
LEMMA ToldGrows ==
    ASSUME NEW l \in Logs, NEW r \in Rows, NEW p \in Plans, Told(l, p),
           \A k \in Summaries(l) : Told(l, l[k].plan)
    PROVE  Told(Append(l, r), p)
<1>1. PICK m : m = Append(l, r)
  OBVIOUS
<1>2. PICK n \in Nat : n = Len(l)
  BY LogIs
<1>3. m \in Logs /\ Len(m) = n + 1 /\ \A v \in 1..n : m[v] = l[v]
  BY <1>1, <1>2, AppendIs
<1>4. p.at \in Nat /\ p.hi < p.at /\ p.at <= n /\ p.at <= n + 1
  BY <1>2 DEF Told, Plans
<1>5. Summaries(l) \subseteq Summaries(m)
  BY <1>1, AppendSummary
<1>6. NewestRequest(m, p.at) = NewestRequest(l, p.at)
  BY <1>1, <1>2, <1>4, NewestStays
<1>7. ASSUME NEW k \in Summaries(l)
      PROVE  k \in Summaries(m) /\ NewestRequest(m, m[k].plan.at) = NewestRequest(l, l[k].plan.at)
  <2>1. k \in 1..n /\ l[k].kind = "summary"
    BY <1>2, SummaryIs DEF Summaries
  <2>2. l[k].plan \in Plans
    BY <1>2, <2>1, LogIs
  <2>3. l[k].plan.at \in Nat /\ l[k].plan.at <= n
    BY <1>2, <2>2 DEF Told, Plans
  <2>4. m[k] = l[k]
    BY <1>3, <2>1
  <2> QED
    BY <1>1, <1>2, <1>5, <2>3, <2>4, NewestStays
<1>8. ASSUME NEW v \in p.lo..p.hi
      PROVE  \/ v \in p.folds \cup Summaries(m)
             \/ v \in NewestRequest(m, p.at)
             \/ \E k \in Summaries(m) : v \in NewestRequest(m, m[k].plan.at)
  BY <1>5, <1>6, <1>7 DEF Told
<1> QED
  BY <1>1, <1>3, <1>4, <1>8 DEF Told

(***************************************************************************)
(* A summary planned when an answer has just been appended                 *)
(***************************************************************************)
LEMMA OverflowIs ==
    ASSUME NEW l \in Logs, NEW b, Overflow(l, b) # {}
    PROVE  /\ Overflow(l, b) \subseteq Live(l) \ FloorTurns(l)
           /\ Max(Overflow(l, b)) \in Overflow(l, b)
           /\ Max(Overflow(l, b)) \in 1..Len(l)
           /\ Max(Overflow(l, b)) > CoveredThrough(l)
           /\ \A v \in (Live(l) \ FloorTurns(l)) : v <= Max(Overflow(l, b)) => v \in Overflow(l, b)
<1>1. Overflow(l, b) = (Live(l) \ FloorTurns(l)) \ Kept(l, b)
  BY DEF Overflow
<1>2. Live(l) \subseteq 1..Len(l) /\ Len(l) \in Nat
  BY FloorIs, LogIs
<1>3. PICK h : h = Max(Overflow(l, b))
  OBVIOUS
<1>4. Overflow(l, b) \subseteq 1..Len(l)
  BY <1>1, <1>2
<1>5. h \in Overflow(l, b)
  BY <1>2, <1>3, <1>4, MaxIs
<1>6. h > CoveredThrough(l)
  BY <1>1, <1>5 DEF Live
<1>7. ASSUME NEW v \in (Live(l) \ FloorTurns(l)), v <= h PROVE v \in Overflow(l, b)
  <2>1. SUFFICES ASSUME v \in Kept(l, b) PROVE FALSE
    BY <1>1
  <2> DEFINE older == Live(l) \ FloorTurns(l)
             Fit(x) == Tokens(l, {w \in older : w >= x}) <= VerbatimBudget(l, b) - FloorTokens(l, VerbatimBudget(l, b))
  <2>2. Kept(l, b) = {y \in older : \A x \in older : x >= y => Fit(x)}
    BY DEF Kept
  <2> HIDE DEF Fit
  <2>3. h \in older
    BY <1>1, <1>5
  <2>4. \A x \in older : x >= v => Fit(x)
    BY <2>1, <2>2
  <2>5. \A x \in older : x \in Nat
    BY <1>2
  <2>6. ASSUME NEW x \in older, x >= h PROVE Fit(x)
    <3>1. x >= v
      BY <1>7, <2>3, <2>5, <2>6
    <3> QED
      BY <2>4, <3>1
  <2>7. h \in Kept(l, b)
    BY <2>2, <2>3, <2>6
  <2> QED
    BY <1>1, <1>5, <2>7
<1> QED
  BY <1>1, <1>3, <1>4, <1>5, <1>6, <1>7

LEMMA PlanIs ==
    ASSUME NEW l \in Logs, NEW b, Overflow(l, b) # {}
    PROVE  Plan(l, b) \in Plans
<1>1. PICK n \in Nat : n = Len(l)
  BY LogIs
<1>2. Overflow(l, b) \subseteq 1..n /\ 1..n \subseteq Nat /\ Max(Overflow(l, b)) \in 1..n
  BY <1>1, OverflowIs, FloorIs
<1>3. Tokens(l, Overflow(l, b)) \in Nat
  BY <1>1, <1>2, SomeSized, TokensType
<1>4. CASE LatestSummary(l) = 0
  BY <1>1, <1>2, <1>3, <1>4 DEF Plan, Plans
<1>5. CASE LatestSummary(l) # 0
  <2>1. Summaries(l) # {}
    BY <1>5 DEF LatestSummary
  <2>2. l[LatestSummary(l)].plan \in Plans /\ l[LatestSummary(l)].size \in Nat
    BY <2>1, SummaryIs, LogIs
  <2>3. PICK p \in Plans : p = l[LatestSummary(l)].plan
    BY <2>2
  <2>4. PICK k \in Nat : k = l[LatestSummary(l)].size
    BY <2>2
  <2>5. p.lo \in Nat \ {0} /\ p.folds \in SUBSET Nat
    BY DEF Plans
  <2>6. Tokens(l, Overflow(l, b)) + k \in Nat
    BY <1>3
  <2>7. Plan(l, b) = [lo |-> p.lo, hi |-> Max(Overflow(l, b)), folds |-> Overflow(l, b) \cup p.folds,
                      at |-> n, cost |-> Tokens(l, Overflow(l, b)) + k]
    BY <1>1, <1>5, <2>3, <2>4 DEF Plan
  <2> QED
    BY <1>1, <1>2, <2>5, <2>6, <2>7 DEF Plans
<1> QED
  BY <1>4, <1>5

LEMMA PlanTold ==
    ASSUME NEW l \in Logs, NEW b, Overflow(l, b) # {}, \A k \in Summaries(l) : Told(l, l[k].plan),
           Len(l) # 0, l[Len(l)].kind = "assistant"
    PROVE  Told(l, Plan(l, b)) /\ Plan(l, b).hi > CoveredThrough(l)
<1>1. PICK n \in Nat \ {0} : n = Len(l)
  BY LogIs
<1>2. PICK h \in 1..n : h = Max(Overflow(l, b))
  BY <1>1, OverflowIs
<1>3. PICK c \in Nat : c = CoveredThrough(l)
  BY SummaryIs
<1>4. h \in Overflow(l, b) /\ h > c /\ h \in Live(l) /\ h \notin FloorTurns(l)
  BY <1>2, <1>3, OverflowIs
<1>5. PICK p : p = Plan(l, b)
  OBVIOUS
<1>6. p.hi = h /\ p.at = n /\ Overflow(l, b) \subseteq p.folds
  BY <1>1, <1>2, <1>5 DEF Plan
<1>7. Live(l) = {v \in 1..n : v > c} \ Summaries(l)
  BY <1>1, <1>3, LogIs DEF Live
<1>8. l[n].kind = "assistant" /\ n \in 1..n /\ n \notin Summaries(l)
  BY <1>1 DEF Summaries
\* The answer just appended is the newest of the live ones.
<1>9. n > c
  BY <1>2, <1>4
<1>10. n \in Live(l)
  BY <1>7, <1>8, <1>9
<1>11. Newest(l, "assistant") \subseteq {n}
  <2>1. ASSUME NEW v \in Newest(l, "assistant") PROVE v = n
    <3>1. v \in 1..n /\ v >= n
      BY <1>1, <1>8, <1>10, FloorIs
    <3> QED
      BY <3>1
  <2> QED
    BY <2>1
<1>12. h < n
  <2>1. Newest(l, "assistant") # {}
    BY <1>8, <1>10, FloorIs
  <2>2. n \in FloorTurns(l)
    BY <1>11, <2>1 DEF FloorTurns
  <2>3. h # n
    BY <1>4, <2>2
  <2> QED
    BY <2>3
<1>13. ASSUME NEW v \in Newest(l, "user") PROVE v \in NewestRequest(l, n)
  <2> DEFINE S == {w \in DOMAIN l : w <= n /\ l[w].kind = "user"}
  <2>1. /\ v \in Live(l) /\ v \in 1..n /\ v > c /\ l[v].kind = "user"
        /\ \A w \in Live(l) : l[w].kind = "user" => v >= w
    BY <1>7, FloorIs
  <2>2. DOMAIN l = 1..n
    BY <1>1, LogIs
  <2>3. ASSUME NEW w \in S PROVE v >= w
    <3>1. w \in 1..n /\ l[w].kind = "user" /\ w \notin Summaries(l)
      BY <2>2 DEF Summaries
    <3>2. CASE w > c
      BY <1>7, <2>1, <3>1, <3>2
    <3>3. CASE ~(w > c)
      BY <2>1, <3>1, <3>3
    <3> QED
      BY <3>2, <3>3
  <2>4. v \in S /\ S \subseteq 1..n
    BY <2>1, <2>2
  <2>5. NewestRequest(l, n) = IF S = {} THEN {} ELSE {Max(S)}
    BY DEF NewestRequest
  <2> HIDE DEF S
  <2>6. Max(S) \in S /\ \A w \in S : Max(S) >= w
    BY <2>4, MaxIs
  <2>7. Max(S) = v
    <3>1. PICK m \in S : m = Max(S) /\ m >= v
      BY <2>4, <2>6
    <3>2. m \in 1..n /\ v \in 1..n /\ v >= m
      BY <2>1, <2>3, <2>4
    <3>3. m = v
      BY <3>1, <3>2
    <3> QED
      BY <3>1, <3>3
  <2> QED
    BY <2>4, <2>5, <2>7
<1>14. ASSUME NEW v \in p.lo..p.hi
       PROVE  \/ v \in p.folds \cup Summaries(l)
              \/ v \in NewestRequest(l, p.at)
              \/ \E k \in Summaries(l) : v \in NewestRequest(l, l[k].plan.at)
  <2>0. p \in Plans /\ p.lo \in Nat \ {0}
    BY <1>5, PlanIs DEF Plans
  <2>1. v \in 1..n /\ v <= h /\ v >= p.lo
    BY <1>6, <2>0
  <2>2. CASE v <= c
    <3>1. Summaries(l) # {}
      BY <1>3, <2>1, <2>2, SummaryIs
    <3>2. PICK k \in Summaries(l) : k = LatestSummary(l)
      BY <3>1, SummaryIs
    <3>3. k \in 1..n /\ l[k].plan.hi = c /\ k # 0 /\ l[k].plan \in Plans
      BY <1>1, <1>3, <3>1, <3>2, SummaryIs
    <3>4. p.lo = l[k].plan.lo /\ l[k].plan.folds \subseteq p.folds
      BY <1>5, <3>2, <3>3 DEF Plan
    <3>5. l[k].plan.lo \in Nat
      BY <3>3 DEF Plans
    <3>6. v \in l[k].plan.lo..l[k].plan.hi
      BY <2>1, <2>2, <3>3, <3>4, <3>5
    <3>7. Told(l, l[k].plan)
      OBVIOUS
    <3> QED
      BY <3>4, <3>6, <3>7 DEF Told
  <2>3. CASE ~(v <= c) /\ v \notin Summaries(l)
    <3>1. v \in Live(l)
      BY <1>7, <2>1, <2>3
    <3>2. CASE v \in FloorTurns(l)
      <4>1. v # n
        BY <1>12, <2>1
      <4>2. v \in Newest(l, "user")
        BY <1>11, <3>2, <4>1 DEF FloorTurns
      <4> QED
        BY <1>6, <1>13, <4>2
    <3>3. CASE v \notin FloorTurns(l)
      BY <1>2, <1>6, <2>1, <3>1, <3>3, OverflowIs
    <3> QED
      BY <3>2, <3>3
  <2> QED
    BY <2>2, <2>3
<1>15. p.hi < p.at /\ p.at <= Len(l)
  BY <1>1, <1>6, <1>12
<1> QED
  BY <1>3, <1>4, <1>5, <1>6, <1>14, <1>15 DEF Told

-----------------------------------------------------------------------------
(***************************************************************************)
(* Steps that append nothing                                               *)
(***************************************************************************)
SessionRows == [status : {"new", "active", "closed", "gone"}, pin : Hosts \cup {NoHost}]

\* A task's row b after a step that neither submits nor orders it, from row a.
Keeps(a, b) ==
    /\ b \in TaskRows /\ b.kind = a.kind /\ b.of = a.of
    /\ b.status = "new" <=> a.status = "new"
    /\ a.status = "succeeded" => b.status = "succeeded"
    /\ b.status \in {"queued", "assigned"} =>
          /\ a.status \in {"queued", "assigned"}
          /\ b.plan = a.plan
    /\ b.status = "assigned" => b.node \in Hosts

KeepsSession(a, b) ==
    /\ b \in SessionRows
    /\ b.status \in {"active", "closed"} => a.status \in {"new", "active", "closed"}
    /\ a.status # "new" => b.status # "new"

KeepsSends ==
    /\ sends' \subseteq Jobs \X Hosts
    /\ \A e \in sends' : e \in sends \/ task'[e[1]].status # "new"

LEMMA RowsKept ==
    ASSUME NEW a \in TaskRows, a.status = "assigned" => a.node \in Hosts
    PROVE  /\ Keeps(a, a)
           /\ a.status \in {"queued", "assigned"} =>
                 /\ \A how \in {"succeeded", "failed"} :
                       Keeps(a, [a EXCEPT !.status = how, !.node = NoHost, !.plan = NoPlan])
                 /\ Keeps(a, [a EXCEPT !.status = "queued", !.node = NoHost])
                 /\ \A n \in Hosts : Keeps(a, [a EXCEPT !.status = "assigned", !.node = n])
<1>1. NoPlan \in Plans
  BY DEF NoPlan, Plans
<1>2. Keeps(a, a)
  BY DEF Keeps, TaskRows
<1>3. ASSUME a.status \in {"queued", "assigned"}, NEW how \in {"succeeded", "failed"}
      PROVE  Keeps(a, [a EXCEPT !.status = how, !.node = NoHost, !.plan = NoPlan])
  <2>1. PICK b : b = [a EXCEPT !.status = how, !.node = NoHost, !.plan = NoPlan]
    OBVIOUS
  <2>2. /\ b \in TaskRows /\ b.status = how /\ b.kind = a.kind /\ b.of = a.of
    BY <1>1, <2>1 DEF TaskRows
  <2> QED
    BY <1>3, <2>1, <2>2 DEF Keeps
<1>4. ASSUME a.status \in {"queued", "assigned"}
      PROVE  Keeps(a, [a EXCEPT !.status = "queued", !.node = NoHost])
  BY <1>4 DEF Keeps, TaskRows
<1>5. ASSUME a.status \in {"queued", "assigned"}, NEW n \in Hosts
      PROVE  Keeps(a, [a EXCEPT !.status = "assigned", !.node = n])
  BY <1>5 DEF Keeps, TaskRows
<1> QED
  BY <1>2, <1>3, <1>4, <1>5

\* Whatever is due after such a step was due before it.
LEMMA DueKept ==
    ASSUME Types, TaskOf, NEW t \in Jobs, Keeps(task[t], task'[t]),
           \A s \in Ids : KeepsSession(session[s], session'[s])
    PROVE  /\ Runs(t)' => /\ Runs(t) /\ task'[t].of = task[t].of /\ task'[t].plan = task[t].plan
                          /\ task'[t].kind = task[t].kind /\ task[t].of \in Ids
                          /\ There(task[t].of)' => There(task[t].of)
           /\ Due(t)' => Due(t) /\ task'[t].of = task[t].of /\ task'[t].plan = task[t].plan
<1>1. ASSUME Runs(t)'
      PROVE  /\ Runs(t) /\ task'[t].of = task[t].of /\ task'[t].plan = task[t].plan
             /\ task'[t].kind = task[t].kind /\ task[t].of \in Ids
             /\ There(task[t].of)' => There(task[t].of)
  <2>1. /\ Runs(t) /\ task'[t].of = task[t].of /\ task'[t].plan = task[t].plan
        /\ task'[t].kind = task[t].kind
    BY <1>1 DEF Runs, Keeps
  <2>2. task[t].of \in Ids /\ session[task[t].of].status # "new"
    BY <2>1 DEF Runs, TaskOf
  <2>3. There(task[t].of)' => There(task[t].of)
    BY <2>1, <2>2 DEF There, KeepsSession
  <2> QED
    BY <2>1, <2>2, <2>3
<1>2. ASSUME Due(t)' PROVE Due(t) /\ task'[t].of = task[t].of /\ task'[t].plan = task[t].plan
  <2>1. Runs(t)' /\ task'[t].kind = "summary" /\ There(task[t].of)'
    BY <1>2 DEF Due, Keeps
  <2> QED
    BY <1>1, <2>1 DEF Due
<1> QED
  BY <1>1, <1>2

Quiet ==
    /\ task' \in [Jobs -> TaskRows] /\ \A t \in Jobs : Keeps(task[t], task'[t])
    /\ session' \in [Ids -> SessionRows] /\ \A s \in Ids : KeepsSession(session[s], session'[s])
    /\ log' \in [Ids -> Logs]
    /\ \A s \in Ids : log'[s] = log[s] \/ (log'[s] = <<>> /\ ~There(s)')
    /\ KeepsSends
    /\ compacting' \subseteq Ids /\ forgot' \in BOOLEAN /\ (forgot => forgot')
    /\ ~forgot' => \A t \in Jobs : Due(t)' => task'[t].of \in compacting'

Covers == ~forgot => \A s \in Ids : There(s)' => CoveredThrough(log'[s]) >= CoveredThrough(log[s])

LEMMA QuietStep ==
    ASSUME SessionsInv, Quiet
    PROVE  SessionsInv' /\ Covers
<1>1. Types'
  BY DEF Quiet, KeepsSends, Types, SessionRows
<1>2. TaskOf'
  <2>1. ASSUME NEW t \in Jobs
        PROVE  /\ task'[t].status = "new" => task'[t].kind = "chat"
               /\ task'[t].status # "new" => /\ task'[t].of \in Ids
                                             /\ session'[task'[t].of].status # "new"
               /\ task'[t].status = "assigned" => task'[t].node \in Hosts
    <3>1. Keeps(task[t], task'[t])
      BY DEF Quiet
    <3>2. /\ task[t].status = "new" => task[t].kind = "chat"
          /\ task[t].status # "new" => task[t].of \in Ids /\ session[task[t].of].status # "new"
      BY DEF SessionsInv, TaskOf
    <3>3. task[t].status # "new" => session'[task[t].of].status # "new"
      BY <3>2 DEF Quiet, KeepsSession
    <3> QED
      BY <3>1, <3>2, <3>3 DEF Keeps
  <2>2. ASSUME NEW e \in sends' PROVE task'[e[1]].status # "new"
    <3>1. e[1] \in Jobs
      BY DEF Quiet, KeepsSends
    <3>2. Keeps(task[e[1]], task'[e[1]])
      BY <3>1 DEF Quiet
    <3> QED
      BY <3>2 DEF Quiet, KeepsSends, Keeps, SessionsInv, TaskOf
  <2> QED
    BY <2>1, <2>2 DEF TaskOf, InFlight
<1>3. ASSUME NEW t \in Jobs, Runs(t)', There(task[t].of)'
      PROVE  /\ Runs(t) /\ task'[t].of = task[t].of /\ task'[t].plan = task[t].plan
             /\ task'[t].kind = task[t].kind /\ task[t].of \in Ids /\ There(task[t].of)
             /\ log'[task[t].of] = log[task[t].of]
  <2>1. /\ Runs(t) /\ task'[t].of = task[t].of /\ task'[t].plan = task[t].plan
        /\ task'[t].kind = task[t].kind /\ task[t].of \in Ids
        /\ There(task[t].of)' => There(task[t].of)
    BY <1>3, DueKept DEF SessionsInv, Quiet
  <2>2. There(task[t].of)'
    BY <1>3, <2>1
  <2> QED
    BY <2>1, <2>2 DEF Quiet
<1>4. Asked'
  <2>1. ASSUME NEW t \in Jobs, Runs(t)', task'[t].kind = "chat", There(task[t].of)'
        PROVE  \E u \in 1..Len(log'[task'[t].of]) :
                  log'[task'[t].of][u].kind = "user" /\ log'[task'[t].of][u].task = t
    BY <1>3, <2>1 DEF SessionsInv, Asked
  <2> QED
    BY <2>1 DEF Asked
<1>5. ASSUME NEW s \in Ids PROVE log'[s] = log[s] \/ (DOMAIN log'[s] = {} /\ Summaries(log'[s]) = {})
  BY DEF Quiet, Summaries
<1>6. AnsweredOnce'
  <2>1. ASSUME NEW s \in Ids, NEW v \in DOMAIN log'[s], log'[s][v].kind = "assistant"
        PROVE  /\ task'[log'[s][v].task].status = "succeeded"
               /\ \E u \in 1..(v - 1) : log'[s][u].kind = "user" /\ log'[s][u].task = log'[s][v].task
               /\ \A w \in DOMAIN log'[s] :
                     log'[s][w].kind = "assistant" /\ log'[s][w].task = log'[s][v].task => w = v
    <3>1. log'[s] = log[s]
      BY <1>5, <2>1
    <3>2. log[s] \in Logs
      BY DEF SessionsInv, Types
    <3>3. log[s][v] \in Rows
      BY <2>1, <3>1, <3>2, LogIs
    <3>4. log[s][v].task \in Jobs
      BY <2>1, <3>1, <3>3 DEF Rows
    <3>5. task[log[s][v].task].status = "succeeded"
      BY <2>1, <3>1 DEF SessionsInv, AnsweredOnce
    <3>6. task'[log[s][v].task].status = "succeeded"
      BY <3>4, <3>5 DEF Quiet, Keeps
    <3> QED
      BY <2>1, <3>1, <3>6 DEF SessionsInv, AnsweredOnce
  <2> QED
    BY <2>1 DEF AnsweredOnce
<1>7. ASSUME NEW t \in Jobs, Due(t)'
      PROVE  /\ Due(t) /\ task'[t].of = task[t].of /\ task'[t].plan = task[t].plan
             /\ task[t].of \in Ids /\ log'[task[t].of] = log[task[t].of]
  BY <1>3, <1>7 DEF Due
<1>8. Marked'
  <2>1. ASSUME ~forgot', NEW t \in Jobs, Due(t)'
        PROVE  /\ task'[t].of \in compacting'
               /\ task'[t].plan.hi >= CoveredThrough(log'[task'[t].of])
    <3>1. ~forgot
      BY <2>1 DEF Quiet
    <3>2. task[t].plan.hi >= CoveredThrough(log[task[t].of])
      BY <1>7, <2>1, <3>1 DEF SessionsInv, Marked
    <3> QED
      BY <1>7, <2>1, <3>2 DEF Quiet
  <2>2. ASSUME ~forgot', NEW t \in Jobs, NEW u \in Jobs, Due(t)', Due(u)', task'[t].of = task'[u].of
        PROVE  t = u
    <3>1. ~forgot
      BY <2>2 DEF Quiet
    <3>2. Due(t) /\ Due(u) /\ task[t].of = task[u].of
      BY <1>7, <2>2
    <3> QED
      BY <3>1, <3>2 DEF SessionsInv, Marked
  <2> QED
    BY <2>1, <2>2 DEF Marked
<1>9. AllTold'
  <2>1. ASSUME NEW s \in Ids, NEW m \in Summaries(log'[s]) PROVE Told(log'[s], log'[s][m].plan)
    BY <1>5, <2>1 DEF SessionsInv, AllTold
  <2>2. ASSUME NEW t \in Jobs, Due(t)' PROVE Told(log'[task'[t].of], task'[t].plan)
    BY <1>7, <2>2 DEF SessionsInv, AllTold
  <2> QED
    BY <2>1, <2>2 DEF AllTold, Told, NewestRequest, Summaries
<1>10. Covers
  <2>1. ASSUME NEW s \in Ids, There(s)' PROVE CoveredThrough(log'[s]) >= CoveredThrough(log[s])
    <3>1. log'[s] = log[s] /\ log[s] \in Logs
      BY <2>1 DEF Quiet, SessionsInv, Types
    <3>2. PICK c \in Nat : c = CoveredThrough(log[s])
      BY <3>1, SummaryIs
    <3> QED
      BY <3>1, <3>2
  <2> QED
    BY <2>1 DEF Covers
<1> QED
  BY <1>1, <1>2, <1>4, <1>6, <1>8, <1>9, <1>10 DEF SessionsInv

(***************************************************************************)
(* Steps that append a turn r to the log of s                              *)
(***************************************************************************)
\* A task such a step puts in the table: of the request r, or of a summary.
Fresh(s, r, t) ==
    /\ task[t].status = "new" /\ task'[t] \in TaskRows
    /\ task'[t].status = "queued" /\ task'[t].of = s
    /\ task'[t].kind = "chat" => r.kind = "user" /\ r.task = t
    /\ task'[t].kind = "summary" =>
          /\ Told(Append(log[s], r), task'[t].plan)
          /\ ~forgot => /\ task'[t].plan.hi >= CoveredThrough(Append(log[s], r))
                        /\ \A u \in Jobs : Due(u) => task[u].of # s
                        /\ \A u \in Jobs \ {t} : Keeps(task[u], task'[u])

Grow(s, r) ==
    /\ There(s) /\ r \in Rows /\ log' = [log EXCEPT ![s] = Append(log[s], r)]
    /\ session' \in [Ids -> SessionRows] /\ \A x \in Ids : KeepsSession(session[x], session'[x])
    /\ task' \in [Jobs -> TaskRows]
    /\ \A t \in Jobs : Keeps(task[t], task'[t]) \/ Fresh(s, r, t)
    /\ UNCHANGED <<sends, forgot>>
    /\ compacting' \subseteq Ids
    /\ ~forgot => \A t \in Jobs : Due(t)' => task'[t].of \in compacting'
    /\ r.kind = "assistant" =>
          /\ task[r.task].status # "succeeded" /\ task'[r.task].status = "succeeded"
          /\ \E u \in 1..Len(log[s]) : log[s][u].kind = "user" /\ log[s][u].task = r.task
    /\ r.kind = "summary" =>
          /\ Told(log[s], r.plan)
          /\ ~forgot => /\ r.plan.hi >= CoveredThrough(log[s])
                        /\ \A t \in Jobs : Due(t)' => task'[t].of # s

LEMMA GrownLog ==
    ASSUME Types, NEW s \in Ids, NEW r, Grow(s, r)
    PROVE  /\ log' \in [Ids -> Logs] /\ log[s] \in Logs /\ Len(log[s]) \in Nat
           /\ log'[s] = Append(log[s], r)
           /\ \A x \in Ids \ {s} : log'[x] = log[x]
<1>1. log \in [Ids -> Logs] /\ log' = [log EXCEPT ![s] = Append(log[s], r)] /\ r \in Rows
  BY DEF Types, Grow
<1>2. log[s] \in Logs /\ Append(log[s], r) \in Logs /\ Len(log[s]) \in Nat
  BY <1>1, AppendIs, LogIs
<1> QED
  BY <1>1, <1>2

LEMMA GrowAnswers ==
    ASSUME Types, AnsweredOnce, NEW s \in Ids, NEW r, Grow(s, r)
    PROVE  AnsweredOnce'
<1>1. PICK n \in Nat : n = Len(log[s])
  BY GrownLog
<1>2. /\ r \in Rows /\ log[s] \in Logs /\ log'[s] \in Logs /\ DOMAIN log'[s] = 1..n + 1 /\ DOMAIN log[s] = 1..n
      /\ log'[s][n + 1] = r /\ \A v \in 1..n : log'[s][v] = log[s][v]
  <2>1. PICK l \in Logs : l = log[s]
    BY GrownLog
  <2>2. PICK m : m = log'[s]
    OBVIOUS
  <2>3. r \in Rows /\ m = Append(l, r) /\ n = Len(l)
    BY <1>1, <2>1, <2>2, GrownLog DEF Grow
  <2>4. m \in Logs /\ Len(m) = n + 1 /\ m[n + 1] = r /\ \A v \in 1..n : m[v] = l[v]
    BY <2>3, AppendIs
  <2>5. DOMAIN l = 1..n /\ DOMAIN m = 1..n + 1
    BY <2>3, <2>4, LogIs
  <2> QED
    BY <2>1, <2>2, <2>3, <2>4, <2>5
<1>3. ASSUME NEW t \in Jobs, task[t].status = "succeeded" PROVE task'[t].status = "succeeded"
  BY <1>3 DEF Grow, Keeps, Fresh
<1>4. ASSUME NEW x \in Ids, NEW v \in DOMAIN log[x], log[x][v].kind = "assistant"
      PROVE  /\ log[x][v].task \in Jobs
             /\ task[log[x][v].task].status = "succeeded" /\ task'[log[x][v].task].status = "succeeded"
             /\ \E u \in 1..(v - 1) : log[x][u].kind = "user" /\ log[x][u].task = log[x][v].task
             /\ \A w \in DOMAIN log[x] :
                   log[x][w].kind = "assistant" /\ log[x][w].task = log[x][v].task => w = v
  <2>1. log[x] \in Logs
    BY DEF Types
  <2>2. log[x][v] \in Rows
    BY <2>1, LogIs
  <2>3. log[x][v].task \in Jobs
    BY <1>4, <2>2 DEF Rows
  <2>4. /\ task[log[x][v].task].status = "succeeded"
        /\ \E u \in 1..(v - 1) : log[x][u].kind = "user" /\ log[x][u].task = log[x][v].task
        /\ \A w \in DOMAIN log[x] :
              log[x][w].kind = "assistant" /\ log[x][w].task = log[x][v].task => w = v
    BY <1>4 DEF AnsweredOnce
  <2> QED
    BY <1>3, <2>3, <2>4
<1>5. r.kind = "assistant" =>
         /\ task[r.task].status # "succeeded" /\ task'[r.task].status = "succeeded"
         /\ \E u \in 1..n : log[s][u].kind = "user" /\ log[s][u].task = r.task
  BY <1>1 DEF Grow
<1>6. \A v \in 1..n + 1 : v \in 1..n \/ v = n + 1
  OBVIOUS
<1>7. 1..n \subseteq 1..n + 1 /\ (n + 1) - 1 = n /\ ~(n + 1 \in 1..n)
  OBVIOUS
<1>8. ASSUME NEW v \in DOMAIN log'[s], log'[s][v].kind = "assistant"
      PROVE  /\ task'[log'[s][v].task].status = "succeeded"
             /\ \E u \in 1..(v - 1) : log'[s][u].kind = "user" /\ log'[s][u].task = log'[s][v].task
             /\ \A w \in DOMAIN log'[s] :
                   log'[s][w].kind = "assistant" /\ log'[s][w].task = log'[s][v].task => w = v
  <2>1. CASE v \in 1..n
    <3>1. log'[s][v] = log[s][v] /\ log[s][v].kind = "assistant" /\ v \in DOMAIN log[s]
      BY <1>2, <1>8, <2>1
    <3>2. \A u \in 1..(v - 1) : u \in 1..n
      BY <2>1
    <3>3. \E u \in 1..(v - 1) : log'[s][u].kind = "user" /\ log'[s][u].task = log'[s][v].task
      <4>1. PICK u \in 1..(v - 1) : log[s][u].kind = "user" /\ log[s][u].task = log[s][v].task
        BY <1>4, <3>1
      <4>2. log'[s][u] = log[s][u]
        BY <1>2, <3>2
      <4> QED
        BY <3>1, <4>1, <4>2
    <3>4. ASSUME NEW w \in 1..n + 1, log'[s][w].kind = "assistant", log'[s][w].task = log'[s][v].task
          PROVE  w = v
      <4>1. CASE w \in 1..n
        <5>1. log'[s][w] = log[s][w] /\ w \in DOMAIN log[s]
          BY <1>2, <4>1
        <5>2. log[s][w].kind = "assistant" /\ log[s][w].task = log[s][v].task
          BY <3>1, <3>4, <5>1
        <5> QED
          BY <1>4, <3>1, <5>1, <5>2
      <4>2. CASE w = n + 1
        BY <1>2, <1>4, <1>5, <3>1, <3>4, <4>2
      <4> QED
        BY <1>6, <4>1, <4>2
    <3> QED
      BY <1>2, <1>4, <3>1, <3>3, <3>4
  <2>2. CASE v = n + 1
    <3>1. log'[s][v] = r /\ r.kind = "assistant"
      BY <1>2, <1>8, <2>2
    <3>2. \E u \in 1..(v - 1) : log'[s][u].kind = "user" /\ log'[s][u].task = log'[s][v].task
      BY <1>2, <1>5, <1>7, <2>2, <3>1
    <3>3. ASSUME NEW w \in 1..n + 1, log'[s][w].kind = "assistant", log'[s][w].task = r.task PROVE w = v
      <4>1. SUFFICES ASSUME w \in 1..n PROVE FALSE
        BY <1>6, <2>2
      <4> QED
        BY <1>2, <1>4, <1>5, <3>1, <3>3, <4>1
    <3> QED
      BY <1>2, <1>5, <3>1, <3>2, <3>3
  <2> QED
    BY <1>2, <1>6, <2>1, <2>2
<1>9. ASSUME NEW x \in Ids \ {s} PROVE log'[x] = log[x]
  BY GrownLog
<1>10. ASSUME NEW x \in Ids, NEW v \in DOMAIN log'[x], log'[x][v].kind = "assistant"
       PROVE  /\ task'[log'[x][v].task].status = "succeeded"
              /\ \E u \in 1..(v - 1) : log'[x][u].kind = "user" /\ log'[x][u].task = log'[x][v].task
              /\ \A w \in DOMAIN log'[x] :
                    log'[x][w].kind = "assistant" /\ log'[x][w].task = log'[x][v].task => w = v
  <2>1. CASE x = s
    BY <1>8, <1>10, <2>1
  <2>2. CASE x # s
    BY <1>4, <1>9, <1>10, <2>2
  <2> QED
    BY <2>1, <2>2
<1> QED
  BY <1>10 DEF AnsweredOnce

LEMMA GrowAsked ==
    ASSUME Types, TaskOf, Asked, NEW s \in Ids, NEW r, Grow(s, r)
    PROVE  Asked'
<1>1. PICK l \in Logs : l = log[s]
  BY GrownLog
<1>2. PICK n \in Nat : n = Len(l)
  BY LogIs
<1>3. PICK m : m = log'[s]
  OBVIOUS
<1>4. /\ Len(m) = n + 1 /\ m[n + 1] = r /\ \A v \in 1..n : m[v] = l[v]
  <2>1. r \in Rows
    BY DEF Grow
  <2>2. m = Append(l, r)
    BY <1>1, <1>3, GrownLog
  <2> QED
    BY <1>2, <2>1, <2>2, AppendIs
<1>5. 1..n \subseteq 1..n + 1 /\ n + 1 \in 1..n + 1
  OBVIOUS
<1>6. ASSUME NEW t \in Jobs, Runs(t)', task'[t].kind = "chat", There(task[t].of)'
      PROVE  \E u \in 1..Len(log'[task'[t].of]) :
                log'[task'[t].of][u].kind = "user" /\ log'[task'[t].of][u].task = t
  <2>1. CASE Fresh(s, r, t)
    <3>1. task'[t].of = s /\ r.kind = "user" /\ r.task = t
      BY <1>6, <2>1 DEF Fresh
    <3> QED
      BY <1>3, <1>4, <1>5, <3>1
  <2>2. CASE Keeps(task[t], task'[t])
    <3>1. /\ Runs(t) /\ task'[t].of = task[t].of /\ task[t].kind = "chat" /\ There(task[t].of)
          /\ task[t].of \in Ids
      BY <1>6, <2>2, DueKept DEF Grow
    <3>2. PICK u \in 1..Len(log[task[t].of]) :
             log[task[t].of][u].kind = "user" /\ log[task[t].of][u].task = t
      BY <3>1 DEF Asked
    <3>3. CASE task[t].of = s
      <4>1. u \in 1..n /\ m[u] = l[u]
        BY <1>1, <1>2, <1>4, <3>2, <3>3
      <4> QED
        BY <1>1, <1>3, <1>4, <1>5, <3>1, <3>2, <3>3, <4>1
    <3>4. CASE task[t].of # s
      BY <3>1, <3>2, <3>4, GrownLog
    <3> QED
      BY <3>3, <3>4
  <2> QED
    BY <2>1, <2>2 DEF Grow
<1> QED
  BY <1>6 DEF Asked

\* What is due afterwards was due before, or has just been ordered.
LEMMA GrowDue ==
    ASSUME Types, TaskOf, NEW s \in Ids, NEW r, Grow(s, r), NEW t \in Jobs, Due(t)'
    PROVE  \/ Fresh(s, r, t) /\ task'[t].kind = "summary" /\ task'[t].of = s
           \/ Due(t) /\ task'[t].of = task[t].of /\ task'[t].plan = task[t].plan /\ task[t].of \in Ids
<1>1. CASE Fresh(s, r, t)
  BY <1>1 DEF Fresh, Due
<1>2. CASE Keeps(task[t], task'[t])
  <2>1. Due(t) /\ task'[t].of = task[t].of /\ task'[t].plan = task[t].plan
    BY <1>2, DueKept DEF Grow
  <2> QED
    BY <2>1 DEF Due, Runs, TaskOf
<1> QED
  BY <1>1, <1>2 DEF Grow

LEMMA GrowMarked ==
    ASSUME Types, TaskOf, Marked, NEW s \in Ids, NEW r, Grow(s, r)
    PROVE  Marked' /\ Covers
<1>1. /\ r \in Rows /\ log[s] \in Logs /\ log'[s] = Append(log[s], r) /\ forgot' = forgot
      /\ \A x \in Ids \ {s} : log'[x] = log[x]
  BY GrownLog DEF Grow
<1>2. r.kind # "summary" => CoveredThrough(log'[s]) = CoveredThrough(log[s])
  BY <1>1, AppendSummary
<1>3. /\ r.kind = "summary" => /\ CoveredThrough(log'[s]) = r.plan.hi
                               /\ ~forgot => r.plan.hi >= CoveredThrough(log[s])
  BY <1>1, AppendSummary DEF Grow
<1>4. CoveredThrough(log[s]) \in Nat
  BY <1>1, SummaryIs
<1>5. ASSUME ~forgot, NEW t \in Jobs, Due(t)'
      PROVE  task'[t].of \in compacting' /\ task'[t].plan.hi >= CoveredThrough(log'[task'[t].of])
  <2>1. task'[t].of \in compacting'
    BY <1>5 DEF Grow
  <2>2. CASE Fresh(s, r, t) /\ task'[t].kind = "summary" /\ task'[t].of = s
    BY <1>1, <1>5, <2>1, <2>2 DEF Fresh
  <2>3. CASE Due(t) /\ task'[t].of = task[t].of /\ task'[t].plan = task[t].plan /\ task[t].of \in Ids
    <3>1. task[t].plan.hi >= CoveredThrough(log[task[t].of])
      BY <1>5, <2>3 DEF Marked
    <3>2. CASE task[t].of = s
      <4>1. r.kind # "summary"
        BY <1>5, <2>3, <3>2 DEF Grow
      <4> QED
        BY <1>2, <2>1, <2>3, <3>1, <3>2, <4>1
    <3>3. CASE task[t].of # s
      BY <1>1, <2>1, <2>3, <3>1, <3>3
    <3> QED
      BY <3>2, <3>3
  <2> QED
    BY <1>5, <2>2, <2>3, GrowDue
<1>6. ASSUME ~forgot, NEW t \in Jobs, NEW u \in Jobs, Due(t)', Due(u)', task'[t].of = task'[u].of
      PROVE  t = u
  <2>1. ASSUME NEW x \in Jobs, NEW y \in Jobs, x # y, Due(y)', Fresh(s, r, x), task'[x].kind = "summary",
               task'[y].of = s
        PROVE  FALSE
    <3>1. Keeps(task[y], task'[y]) /\ \A z \in Jobs : Due(z) => task[z].of # s
      BY <1>6, <2>1 DEF Fresh
    <3>2. Due(y) /\ task'[y].of = task[y].of
      BY <2>1, <3>1, DueKept DEF Grow
    <3> QED
      BY <2>1, <3>1, <3>2
  <2>2. CASE Fresh(s, r, t) /\ task'[t].kind = "summary" /\ task'[t].of = s
    BY <1>6, <2>1, <2>2
  <2>3. CASE Fresh(s, r, u) /\ task'[u].kind = "summary" /\ task'[u].of = s
    BY <1>6, <2>1, <2>3
  <2>4. CASE Due(t) /\ task'[t].of = task[t].of /\ Due(u) /\ task'[u].of = task[u].of
    BY <1>6, <2>4 DEF Marked
  <2> QED
    BY <1>6, <2>2, <2>3, <2>4, GrowDue
<1>7. ASSUME ~forgot, NEW x \in Ids PROVE CoveredThrough(log'[x]) >= CoveredThrough(log[x])
  <2>1. CASE x = s
    <3>1. PICK c \in Nat : c = CoveredThrough(log[s])
      BY <1>4
    <3> QED
      BY <1>2, <1>3, <1>7, <2>1, <3>1
  <2>2. CASE x # s
    <3>1. log'[x] = log[x] /\ log[x] \in Logs
      BY <1>1, <2>2 DEF Types
    <3>2. PICK c \in Nat : c = CoveredThrough(log[x])
      BY <3>1, SummaryIs
    <3> QED
      BY <3>1, <3>2
  <2> QED
    BY <2>1, <2>2
<1> QED
  BY <1>1, <1>5, <1>6, <1>7 DEF Marked, Covers

LEMMA GrowTold ==
    ASSUME Types, TaskOf, AllTold, NEW s \in Ids, NEW r, Grow(s, r)
    PROVE  AllTold'
<1>1. PICK l \in Logs : l = log[s]
  BY GrownLog
<1>2. PICK m : m = Append(l, r)
  OBVIOUS
<1>3. /\ r \in Rows /\ m = log'[s] /\ \A x \in Ids \ {s} : log'[x] = log[x]
      /\ \A k \in Summaries(l) : Told(l, l[k].plan)
  BY <1>1, <1>2, GrownLog DEF Grow, AllTold
<1>8. r \in Rows
  BY <1>3
<1>9. Append(l, r)[Len(l) + 1] = r /\ \A v \in 1..Len(l) : Append(l, r)[v] = l[v]
  BY <1>8, AppendIs
<1>10. \/ r.kind = "summary" /\ Summaries(m) = Summaries(l) \cup {Len(l) + 1}
       \/ r.kind # "summary" /\ Summaries(m) = Summaries(l)
  BY <1>2, <1>8, AppendSummary
<1>4. ASSUME NEW p \in Plans, Told(l, p) PROVE Told(m, p)
  BY <1>2, <1>3, <1>4, ToldGrows
<1>5. ASSUME NEW k \in Summaries(m) PROVE Told(m, m[k].plan)
  <2>1. CASE k \in Summaries(l)
    <3>1. k \in 1..Len(l) /\ l[k].kind = "summary"
      BY <2>1, SummaryIs DEF Summaries
    <3>2. l[k].plan \in Plans /\ m[k] = l[k]
      BY <1>2, <1>9, <3>1, LogIs
    <3> QED
      BY <1>3, <1>4, <2>1, <3>2
  <2>2. CASE k \notin Summaries(l)
    <3>1. k = Len(l) + 1 /\ r.kind = "summary"
      BY <1>5, <1>10, <2>2
    <3>2. r.plan \in Plans /\ m[k] = r
      BY <1>2, <1>8, <1>9, <3>1 DEF Rows
    <3>3. Told(l, r.plan)
      BY <1>1, <3>1 DEF Grow
    <3> QED
      BY <1>4, <3>2, <3>3
  <2> QED
    BY <2>1, <2>2
<1>6. ASSUME NEW x \in Ids, NEW k \in Summaries(log'[x]) PROVE Told(log'[x], log'[x][k].plan)
  <2>1. CASE x = s
    BY <1>3, <1>5, <1>6, <2>1
  <2>2. CASE x # s
    BY <1>3, <1>6, <2>2 DEF AllTold
  <2> QED
    BY <2>1, <2>2
<1>7. ASSUME NEW t \in Jobs, Due(t)' PROVE Told(log'[task'[t].of], task'[t].plan)
  <2>1. CASE Fresh(s, r, t) /\ task'[t].kind = "summary" /\ task'[t].of = s
    BY <1>1, <1>2, <1>3, <2>1 DEF Fresh
  <2>2. CASE Due(t) /\ task'[t].of = task[t].of /\ task'[t].plan = task[t].plan /\ task[t].of \in Ids
    <3>1. Told(log[task[t].of], task[t].plan) /\ task[t].plan \in Plans
      BY <2>2 DEF AllTold, Types, TaskRows
    <3>2. CASE task[t].of = s
      BY <1>1, <1>3, <1>4, <2>2, <3>1, <3>2
    <3>3. CASE task[t].of # s
      BY <1>3, <2>2, <3>1, <3>3
    <3> QED
      BY <3>2, <3>3
  <2> QED
    BY <1>7, <2>1, <2>2, GrowDue
<1> QED
  BY <1>6, <1>7 DEF AllTold, Told, NewestRequest, Summaries

LEMMA GrowStep ==
    ASSUME SessionsInv, NEW s \in Ids, NEW r, Grow(s, r)
    PROVE  SessionsInv' /\ Covers
<1>1. Types'
  BY GrownLog DEF Grow, SessionsInv, Types, SessionRows
<1>2. TaskOf'
  <2>1. ASSUME NEW t \in Jobs
        PROVE  /\ task'[t].status = "new" => task'[t].kind = "chat"
               /\ task'[t].status # "new" => /\ task'[t].of \in Ids
                                             /\ session'[task'[t].of].status # "new"
               /\ task'[t].status = "assigned" => task'[t].node \in Hosts
               /\ task[t].status # "new" => task'[t].status # "new"
    <3>1. CASE Keeps(task[t], task'[t])
      <4>1. /\ task[t].status = "new" => task[t].kind = "chat"
            /\ task[t].status # "new" => task[t].of \in Ids /\ session[task[t].of].status # "new"
        BY DEF SessionsInv, TaskOf
      <4>2. task[t].status # "new" => session'[task[t].of].status # "new"
        BY <4>1 DEF Grow, KeepsSession
      <4> QED
        BY <3>1, <4>1, <4>2 DEF Keeps
    <3>2. CASE Fresh(s, r, t)
      <4>1. session[s].status # "new" /\ KeepsSession(session[s], session'[s])
        BY DEF Grow, There
      <4> QED
        BY <3>2, <4>1 DEF Fresh, KeepsSession
    <3> QED
      BY <3>1, <3>2 DEF Grow
  <2>2. ASSUME NEW e \in sends' PROVE task'[e[1]].status # "new"
    <3>1. e \in sends /\ e[1] \in Jobs
      BY DEF Grow, SessionsInv, Types
    <3> QED
      BY <2>1, <3>1 DEF SessionsInv, TaskOf
  <2> QED
    BY <2>1, <2>2 DEF TaskOf, InFlight
<1> QED
  BY <1>1, <1>2, GrowAsked, GrowAnswers, GrowMarked, GrowTold DEF SessionsInv

-----------------------------------------------------------------------------
(***************************************************************************)
(* The actions                                                             *)
(***************************************************************************)
LEMMA TaskKept ==
    ASSUME Types, TaskOf, NEW t \in Jobs
    PROVE  /\ Keeps(task[t], task[t])
           /\ Runs(t) =>
                 /\ \A how \in {"succeeded", "failed"} : Keeps(task[t], Ended(t, how))
                 /\ Keeps(task[t], [task[t] EXCEPT !.status = "queued", !.node = NoHost])
                 /\ \A n \in Hosts : Keeps(task[t], [task[t] EXCEPT !.status = "assigned", !.node = n])
<1>1. task[t] \in TaskRows /\ (task[t].status = "assigned" => task[t].node \in Hosts)
  BY DEF Types, TaskOf, InFlight
<1> QED
  BY <1>1, RowsKept DEF Ended, Runs

LEMMA SessionKept ==
    ASSUME Types, NEW s \in Ids
    PROVE  /\ session[s] \in SessionRows /\ KeepsSession(session[s], session[s])
           /\ \A n \in Hosts : There(s) => KeepsSession(session[s], Pinned(session[s], n))
<1>1. session[s] \in SessionRows
  BY DEF Types, SessionRows
<1>2. KeepsSession(session[s], session[s])
  BY <1>1 DEF KeepsSession, SessionRows
<1>3. ASSUME NEW n \in Hosts, There(s) PROVE KeepsSession(session[s], Pinned(session[s], n))
  <2>1. CASE session[s].pin = n
    BY <1>2, <2>1 DEF Pinned
  <2>2. CASE session[s].pin # n
    BY <1>1, <1>3, <2>2 DEF Pinned, KeepsSession, SessionRows, There
  <2> QED
    BY <2>1, <2>2
<1> QED
  BY <1>1, <1>2, <1>3

\* Steps that leave the logs, the marks and a restart's history alone.
LEMMA QuietIs ==
    ASSUME SessionsInv,
           task' \in [Jobs -> TaskRows], \A t \in Jobs : Keeps(task[t], task'[t]),
           session' \in [Ids -> SessionRows], \A s \in Ids : KeepsSession(session[s], session'[s]),
           KeepsSends, UNCHANGED <<log, compacting, forgot>>
    PROVE  Quiet
<1>1. ASSUME ~forgot, NEW t \in Jobs, Due(t)' PROVE task'[t].of \in compacting
  <2>1. Due(t) /\ task'[t].of = task[t].of
    BY <1>1, DueKept DEF SessionsInv
  <2> QED
    BY <1>1, <2>1 DEF SessionsInv, Marked
<1>2. log' \in [Ids -> Logs] /\ compacting' \subseteq Ids /\ forgot' \in BOOLEAN
  BY DEF SessionsInv, Types
<1> QED
  BY <1>1, <1>2 DEF Quiet

LEMMA SettledKept ==
    ASSUME Types, TaskOf, NEW t \in Jobs, Runs(t), NEW how \in {"succeeded", "failed"}
    PROVE  /\ Settled(t, how) \in [Jobs -> TaskRows] /\ Settled(t, how)[t].status = how
           /\ \A u \in Jobs : Keeps(task[u], Settled(t, how)[u])
           /\ \A u \in Jobs \ {t} : Settled(t, how)[u] = task[u]
<1>1. PICK e : e = Ended(t, how)
  OBVIOUS
<1>2. Keeps(task[t], e) /\ e \in TaskRows
  BY <1>1, TaskKept DEF Keeps
<1>3. e.status = how
  BY <1>1 DEF Ended, Types, TaskRows
<1>4. PICK new : new = Settled(t, how)
  OBVIOUS
<1>5. new = [task EXCEPT ![t] = e] /\ task \in [Jobs -> TaskRows]
  BY <1>1, <1>4 DEF Settled, Types
<1>6. new \in [Jobs -> TaskRows] /\ new[t] = e /\ \A u \in Jobs \ {t} : new[u] = task[u]
  BY <1>2, <1>5
<1>7. \A u \in Jobs : Keeps(task[u], new[u])
  BY <1>2, <1>6, TaskKept
<1> QED
  BY <1>3, <1>4, <1>6, <1>7

LEMMA SessionsChange ==
    ASSUME SessionsInv, NEW s \in Ids, NEW n, Create(s) \/ Close(s) \/ (n \in Hosts /\ Migrate(s, n))
    PROVE  Quiet
<1>1. PICK r : session' = [session EXCEPT ![s] = r] /\ KeepsSession(session[s], r) /\ r \in SessionRows
  <2>1. session[s] \in SessionRows
    BY SessionKept DEF SessionsInv
  <2>2. CASE Create(s)
    <3>1. session' = [session EXCEPT ![s] = [session[s] EXCEPT !.status = "active"]]
      BY <2>2 DEF Create, SessionsInv, Types
    <3>2. [session[s] EXCEPT !.status = "active"] \in SessionRows
      BY <2>1 DEF SessionRows
    <3>3. KeepsSession(session[s], [session[s] EXCEPT !.status = "active"])
      BY <2>1, <2>2, <3>2 DEF KeepsSession, SessionRows, Create
    <3> QED
      BY <3>1, <3>2, <3>3
  <2>3. CASE Close(s)
    <3>1. session' = [session EXCEPT ![s] = [session[s] EXCEPT !.status = "closed"]]
      BY <2>3 DEF Close, SessionsInv, Types
    <3>2. [session[s] EXCEPT !.status = "closed"] \in SessionRows
      BY <2>1 DEF SessionRows
    <3>3. KeepsSession(session[s], [session[s] EXCEPT !.status = "closed"])
      BY <2>1, <2>3, <3>2 DEF KeepsSession, SessionRows, Close, There
    <3> QED
      BY <3>1, <3>2, <3>3
  <2>4. CASE n \in Hosts /\ Migrate(s, n)
    <3>1. [status |-> "active", pin |-> n] \in SessionRows
      BY <2>4 DEF SessionRows
    <3>2. KeepsSession(session[s], [status |-> "active", pin |-> n])
      BY <2>1, <2>4, <3>1 DEF KeepsSession, Migrate, There
    <3> QED
      BY <2>4, <3>1, <3>2 DEF Migrate
  <2> QED
    BY <2>2, <2>3, <2>4
<1>2. session' \in [Ids -> SessionRows] /\ \A x \in Ids : KeepsSession(session[x], session'[x])
  BY <1>1, SessionKept DEF SessionsInv, Types, SessionRows
<1>3. UNCHANGED <<log, task, sends, compacting, forgot>>
  BY DEF Create, Close, Migrate
<1>4. /\ task' \in [Jobs -> TaskRows] /\ \A t \in Jobs : Keeps(task[t], task'[t])
      /\ KeepsSends
  BY <1>3, TaskKept DEF SessionsInv, Types, KeepsSends
<1> QED
  BY <1>2, <1>3, <1>4, QuietIs

LEMMA TasksChange ==
    ASSUME SessionsInv, NEW t \in Jobs, NEW n,
           (n \in Hosts /\ Assign(t, n)) \/ Requeue(t) \/ EndUnreported(t) \/ ReportNothing(t)
    PROVE  Quiet
<1>1. Types /\ TaskOf /\ task \in [Jobs -> TaskRows]
  BY DEF SessionsInv, Types
<1>2. Runs(t)
  BY DEF Assign, Requeue, EndUnreported, ReportNothing, InFlight, Runs
<1>3. UNCHANGED <<session, log, compacting, forgot>>
  BY DEF Assign, Requeue, EndUnreported, ReportNothing
<1>4. session' \in [Ids -> SessionRows] /\ \A x \in Ids : KeepsSession(session[x], session'[x])
  BY <1>1, <1>3, SessionKept DEF Types, SessionRows
<1>5. /\ task' \in [Jobs -> TaskRows] /\ \A u \in Jobs : Keeps(task[u], task'[u])
      /\ KeepsSends
  <2>1. CASE n \in Hosts /\ Assign(t, n)
    <3>1. PICK r : r = [task[t] EXCEPT !.status = "assigned", !.node = n]
      OBVIOUS
    <3>2. Keeps(task[t], r) /\ r \in TaskRows
      BY <1>1, <1>2, <2>1, <3>1, TaskKept DEF Keeps
    <3>3. task' = [task EXCEPT ![t] = r]
      BY <1>1, <2>1, <3>1 DEF Assign
    <3>4. task'[t] = r /\ r.status = "assigned"
      BY <1>1, <3>1, <3>3 DEF TaskRows
    <3>5. sends' = sends \cup {<<t, n>>} /\ sends \subseteq Jobs \X Hosts
      BY <1>1, <2>1 DEF Assign, Types
    <3>6. KeepsSends
      BY <2>1, <3>4, <3>5 DEF KeepsSends
    <3>7. \A u \in Jobs : Keeps(task[u], task'[u])
      BY <1>1, <3>2, <3>3, TaskKept
    <3> QED
      BY <1>1, <3>2, <3>3, <3>6, <3>7
  <2>2. CASE Requeue(t)
    <3>1. PICK r : r = [task[t] EXCEPT !.status = "queued", !.node = NoHost]
      OBVIOUS
    <3>2. Keeps(task[t], r) /\ r \in TaskRows
      BY <1>1, <1>2, <3>1, TaskKept DEF Keeps
    <3>3. task' = [task EXCEPT ![t] = r]
      BY <1>1, <2>2, <3>1 DEF Requeue
    <3>4. KeepsSends
      BY <1>1, <2>2 DEF KeepsSends, Requeue, Types
    <3>5. \A u \in Jobs : Keeps(task[u], task'[u])
      BY <1>1, <3>2, <3>3, TaskKept
    <3> QED
      BY <1>1, <3>2, <3>3, <3>4, <3>5
  <2>3. CASE EndUnreported(t) \/ ReportNothing(t)
    <3>1. PICK how \in {"succeeded", "failed"} : task' = Settled(t, how)
      BY <2>3 DEF EndUnreported, ReportNothing
    <3>2. KeepsSends
      BY <1>1, <2>3 DEF KeepsSends, EndUnreported, ReportNothing, Types
    <3> QED
      BY <1>1, <1>2, <3>1, <3>2, SettledKept
  <2> QED
    BY <2>1, <2>2, <2>3
<1> QED
  BY <1>3, <1>4, <1>5, QuietIs

LEMMA SendQuiet ==
    ASSUME SessionsInv, NEW t \in Jobs, NEW n \in Hosts, Send(t, n)
    PROVE  Quiet
<1>1. Types /\ TaskOf /\ task \in [Jobs -> TaskRows] /\ session \in [Ids -> SessionRows]
  BY DEF SessionsInv, Types, SessionRows
<1>2. UNCHANGED <<log, compacting, forgot>> /\ sends' = sends \ {<<t, n>>} /\ <<t, n>> \in sends
  BY DEF Send
<1>3. KeepsSends
  BY <1>1, <1>2 DEF KeepsSends, Types
<1>4. task[t].of \in Ids
  <2>1. task[t].status # "new"
    BY <1>1, <1>2 DEF TaskOf
  <2> QED
    BY <1>1, <2>1 DEF TaskOf
<1>5. CASE /\ session' = [session EXCEPT ![task[t].of] = Pinned(@, n)] /\ There(task[t].of)
           /\ UNCHANGED task
  <2>1. PICK s \in Ids : s = task[t].of
    BY <1>4
  <2>2. PICK r : r = Pinned(session[s], n)
    OBVIOUS
  <2>3. KeepsSession(session[s], r) /\ r \in SessionRows
    BY <1>1, <1>5, <2>1, <2>2, SessionKept DEF KeepsSession
  <2>4. session' = [session EXCEPT ![s] = r]
    BY <1>1, <1>5, <2>1, <2>2
  <2>5. session' \in [Ids -> SessionRows] /\ \A x \in Ids : KeepsSession(session[x], session'[x])
    BY <1>1, <2>3, <2>4, SessionKept
  <2>6. task' \in [Jobs -> TaskRows] /\ \A u \in Jobs : Keeps(task[u], task'[u])
    BY <1>1, <1>5, TaskKept
  <2> QED
    BY <1>2, <1>3, <2>5, <2>6, QuietIs
<1>6. CASE UNCHANGED session /\ UNCHANGED task
  <2>1. session' \in [Ids -> SessionRows] /\ \A x \in Ids : KeepsSession(session[x], session'[x])
    BY <1>1, <1>6, SessionKept
  <2>2. task' \in [Jobs -> TaskRows] /\ \A u \in Jobs : Keeps(task[u], task'[u])
    BY <1>1, <1>6, TaskKept
  <2> QED
    BY <1>2, <1>3, <2>1, <2>2, QuietIs
<1>7. CASE /\ task' = [u \in Jobs |-> IF task[u].status = "assigned" /\ task[u].node = n
                                       THEN [task[u] EXCEPT !.status = "queued", !.node = NoHost]
                                       ELSE task[u]]
           /\ UNCHANGED session
  <2>1. session' \in [Ids -> SessionRows] /\ \A x \in Ids : KeepsSession(session[x], session'[x])
    BY <1>1, <1>7, SessionKept
  <2>2. ASSUME NEW u \in Jobs PROVE Keeps(task[u], task'[u])
    <3>1. CASE task[u].status = "assigned" /\ task[u].node = n
      <4>1. Keeps(task[u], [task[u] EXCEPT !.status = "queued", !.node = NoHost])
        BY <1>1, <3>1, TaskKept DEF Runs
      <4> QED
        BY <1>7, <3>1, <4>1
    <3>2. CASE ~(task[u].status = "assigned" /\ task[u].node = n)
      BY <1>1, <1>7, <3>2, TaskKept
    <3> QED
      BY <3>1, <3>2
  <2>3. \A u \in Jobs : task'[u] \in TaskRows
    BY <2>2 DEF Keeps
  <2>4. task' \in [Jobs -> TaskRows]
    BY <1>7, <2>3
  <2> QED
    BY <1>2, <1>3, <2>1, <2>2, <2>4, QuietIs
<1> QED
  BY <1>5, <1>6, <1>7 DEF Send

\* Logs go with their sessions.
LEMMA EmptyLog == <<>> \in Logs
BY EmptySeq DEF Logs

LEMMA DeleteQuiet ==
    ASSUME SessionsInv, NEW s \in Ids, DeleteSession(s)
    PROVE  Quiet
<1>1. Types /\ TaskOf /\ task \in [Jobs -> TaskRows] /\ session \in [Ids -> SessionRows]
      /\ log \in [Ids -> Logs]
  BY DEF SessionsInv, Types, SessionRows
<1>2. /\ There(s) /\ session' = [session EXCEPT ![s] = [status |-> "gone", pin |-> NoHost]]
      /\ log' = [log EXCEPT ![s] = <<>>] /\ compacting' = compacting \ {s}
      /\ UNCHANGED <<task, sends, forgot>>
  BY DEF DeleteSession
<1>3. [status |-> "gone", pin |-> NoHost] \in SessionRows
  BY DEF SessionRows
<1>4. KeepsSession(session[s], [status |-> "gone", pin |-> NoHost])
  BY <1>3 DEF KeepsSession
<1>5. session' \in [Ids -> SessionRows] /\ \A x \in Ids : KeepsSession(session[x], session'[x])
  BY <1>1, <1>2, <1>3, <1>4, SessionKept
<1>6. task' \in [Jobs -> TaskRows] /\ \A u \in Jobs : Keeps(task[u], task'[u])
  BY <1>1, <1>2, TaskKept
<1>7. session'[s].status = "gone" /\ ~There(s)'
  BY <1>1, <1>2 DEF There
<1>8. /\ log' \in [Ids -> Logs]
      /\ \A x \in Ids : log'[x] = log[x] \/ (log'[x] = <<>> /\ ~There(x)')
  BY <1>1, <1>2, <1>7, EmptyLog
<1>9. ASSUME ~forgot', NEW t \in Jobs, Due(t)' PROVE task'[t].of \in compacting'
  <2>1. Due(t) /\ task'[t].of = task[t].of
    BY <1>1, <1>5, <1>6, <1>9, DueKept
  <2>2. task[t].of \in compacting
    BY <1>2, <1>9, <2>1 DEF SessionsInv, Marked
  <2>3. There(task[t].of)'
    BY <1>9 DEF Due
  <2>4. task'[t].of # s
    BY <1>7, <2>3
  <2> QED
    BY <1>2, <2>1, <2>2, <2>4
<1>10. KeepsSends /\ compacting' \subseteq Ids /\ forgot' = forgot /\ forgot' \in BOOLEAN
  BY <1>1, <1>2 DEF KeepsSends, Types
<1> QED
  BY <1>5, <1>6, <1>8, <1>9, <1>10 DEF Quiet

LEMMA ClearQuiet ==
    ASSUME SessionsInv, NEW everything \in BOOLEAN, ClearSessions(everything)
    PROVE  Quiet
<1>1. Types /\ TaskOf /\ task \in [Jobs -> TaskRows] /\ session \in [Ids -> SessionRows]
  BY DEF SessionsInv, Types, SessionRows
<1>2. /\ session' = [s \in Ids |-> IF There(s) THEN [status |-> "gone", pin |-> NoHost] ELSE session[s]]
      /\ log' = [s \in Ids |-> <<>>] /\ compacting' = {} /\ UNCHANGED <<sends, forgot>>
      /\ task' = IF everything THEN [t \in Jobs |-> IF Runs(t) THEN Ended(t, "failed") ELSE task[t]]
                 ELSE task
  BY DEF ClearSessions
<1>3. ASSUME NEW s \in Ids PROVE KeepsSession(session[s], session'[s]) /\ ~There(s)'
  <2>1. CASE There(s)
    BY <1>2, <2>1 DEF KeepsSession, SessionRows, There
  <2>2. CASE ~There(s)
    BY <1>1, <1>2, <2>2, SessionKept DEF There
  <2> QED
    BY <2>1, <2>2
<1>4. session' \in [Ids -> SessionRows]
  <2>1. \A s \in Ids : session'[s] \in SessionRows
    BY <1>3 DEF KeepsSession
  <2> QED
    BY <1>2, <2>1
<1>5. ASSUME NEW t \in Jobs PROVE Keeps(task[t], task'[t])
  <2>1. CASE everything /\ Runs(t)
    <3>1. task'[t] = Ended(t, "failed")
      BY <1>2, <2>1
    <3> QED
      BY <1>1, <2>1, <3>1, TaskKept
  <2>2. CASE ~(everything /\ Runs(t))
    <3>1. task'[t] = task[t]
      BY <1>2, <2>2
    <3> QED
      BY <1>1, <3>1, TaskKept
  <2> QED
    BY <2>1, <2>2
<1>6. task' \in [Jobs -> TaskRows]
  <2>1. \A t \in Jobs : task'[t] \in TaskRows
    BY <1>5 DEF Keeps
  <2> QED
    BY <1>1, <1>2, <2>1
<1>7. log' \in [Ids -> Logs] /\ \A x \in Ids : log'[x] = <<>>
  BY <1>2, EmptyLog
<1>8. ASSUME NEW t \in Jobs, Due(t)' PROVE FALSE
  <2>1. Due(t) /\ task'[t].of = task[t].of
    BY <1>1, <1>3, <1>5, <1>8, DueKept
  <2>2. task[t].of \in Ids
    BY <1>1, <2>1 DEF Due, Runs, TaskOf
  <2>3. There(task[t].of)'
    BY <1>8 DEF Due
  <2> QED
    BY <1>3, <2>1, <2>2, <2>3
<1>9. KeepsSends /\ compacting' \subseteq Ids /\ forgot' = forgot /\ forgot' \in BOOLEAN
  BY <1>1, <1>2 DEF KeepsSends, Types
<1> QED
  BY <1>3, <1>4, <1>5, <1>6, <1>7, <1>8, <1>9 DEF Quiet

\* The mark a failed summary clears is its own: no other is due there.
LEMMA FailureQuiet ==
    ASSUME SessionsInv, NEW t \in Jobs, ReportFailure(t)
    PROVE  Quiet
<1>1. Types /\ TaskOf /\ session \in [Ids -> SessionRows] /\ log \in [Ids -> Logs]
  BY DEF SessionsInv, Types, SessionRows
<1>2. /\ Runs(t) /\ task' = Settled(t, "failed") /\ UNCHANGED <<session, log, sends, forgot>>
      /\ compacting' = IF task[t].kind = "summary" THEN compacting \ {task[t].of} ELSE compacting
  BY DEF ReportFailure, InFlight, Runs
<1>3. /\ task' \in [Jobs -> TaskRows] /\ task'[t].status = "failed"
      /\ \A u \in Jobs : Keeps(task[u], task'[u])
  BY <1>1, <1>2, SettledKept
<1>4. session' \in [Ids -> SessionRows] /\ \A x \in Ids : KeepsSession(session[x], session'[x])
  BY <1>1, <1>2, SessionKept
<1>5. ASSUME ~forgot', NEW u \in Jobs, Due(u)' PROVE task'[u].of \in compacting'
  <2>1. Due(u) /\ task'[u].of = task[u].of
    BY <1>1, <1>3, <1>4, <1>5, DueKept
  <2>2. task[u].of \in compacting
    BY <1>2, <1>5, <2>1 DEF SessionsInv, Marked
  <2>3. u # t
    BY <1>3, <1>5 DEF Due, Runs
  <2>4. ~(task[t].kind = "summary" /\ task[t].of = task[u].of)
    <3>1. SUFFICES ASSUME task[t].kind = "summary", task[t].of = task[u].of PROVE FALSE
      OBVIOUS
    <3>2. Due(t)
      BY <1>2, <2>1, <3>1 DEF Due
    <3> QED
      BY <1>2, <1>5, <2>1, <2>3, <3>1, <3>2 DEF SessionsInv, Marked
  <2> QED
    BY <1>2, <2>1, <2>2, <2>4
<1>6. /\ KeepsSends /\ compacting' \subseteq Ids /\ forgot' = forgot /\ forgot' \in BOOLEAN
      /\ log' \in [Ids -> Logs] /\ \A x \in Ids : log'[x] = log[x]
  BY <1>1, <1>2 DEF KeepsSends, Types
<1> QED
  BY <1>3, <1>4, <1>5, <1>6 DEF Quiet

LEMMA RestartQuiet ==
    ASSUME SessionsInv, Restart
    PROVE  Quiet
<1>1. Types /\ TaskOf /\ session \in [Ids -> SessionRows] /\ log \in [Ids -> Logs]
      /\ task \in [Jobs -> TaskRows]
  BY DEF SessionsInv, Types, SessionRows
<1>2. /\ sends' = {} /\ compacting' = {} /\ UNCHANGED <<session, log, task>>
      /\ forgot' = (forgot \/ \E t \in Jobs : Runs(t) /\ task[t].kind = "summary")
  BY DEF Restart
<1>3. task' \in [Jobs -> TaskRows] /\ \A u \in Jobs : Keeps(task[u], task'[u])
  BY <1>1, <1>2, TaskKept
<1>4. session' \in [Ids -> SessionRows] /\ \A x \in Ids : KeepsSession(session[x], session'[x])
  BY <1>1, <1>2, SessionKept
<1>5. ASSUME ~forgot', NEW u \in Jobs, Due(u)' PROVE FALSE
  <2>1. Due(u)
    BY <1>1, <1>3, <1>4, <1>5, DueKept
  <2> QED
    BY <1>2, <1>5, <2>1 DEF Due
<1>6. /\ KeepsSends /\ compacting' \subseteq Ids /\ forgot' \in BOOLEAN /\ (forgot => forgot')
      /\ log' \in [Ids -> Logs] /\ \A x \in Ids : log'[x] = log[x]
  BY <1>1, <1>2 DEF KeepsSends, Types
<1> QED
  BY <1>3, <1>4, <1>5, <1>6 DEF Quiet

LEMMA SizesAre ==
    ASSUME NEW kind \in Kinds, NEW size \in Sizes[kind]
    PROVE  size \in Nat
BY SessionsAssumption

LEMMA RequestGrows ==
    ASSUME SessionsInv, NEW s \in Ids, NEW t, NEW size \in Sizes["user"],
           (t \in Jobs /\ Submit(s, t, size)) \/ SubmitTurnOnly(s, size)
    PROVE  \E r : Grow(s, r)
<1>1. Types /\ TaskOf /\ task \in [Jobs -> TaskRows] /\ session \in [Ids -> SessionRows]
  BY DEF SessionsInv, Types, SessionRows
<1>2. size \in Nat
  BY SizesAre DEF Kinds
<1>3. session' \in [Ids -> SessionRows] /\ \A x \in Ids : KeepsSession(session[x], session'[x])
  BY <1>1, SessionKept DEF Submit, SubmitTurnOnly
<1>4. There(s) /\ UNCHANGED <<sends, compacting, forgot>> /\ compacting' \subseteq Ids
  BY <1>1 DEF Submit, SubmitTurnOnly, Types
<1>5. CASE SubmitTurnOnly(s, size)
  <2>1. PICK r : r = Turn("user", size, NoJob)
    OBVIOUS
  <2>2. r \in Rows /\ r.kind = "user"
    BY <1>2, <2>1 DEF Turn, Rows
  <2>3. log' = [log EXCEPT ![s] = Append(log[s], r)] /\ task' = task
    BY <1>1, <1>5, <2>1 DEF SubmitTurnOnly, Types
  <2>4. task' \in [Jobs -> TaskRows] /\ \A u \in Jobs : Keeps(task[u], task'[u])
    BY <1>1, <2>3, TaskKept
  <2>5. ASSUME ~forgot, NEW u \in Jobs, Due(u)' PROVE task'[u].of \in compacting'
    <3>1. Due(u) /\ task'[u].of = task[u].of
      BY <1>1, <1>3, <2>4, <2>5, DueKept
    <3> QED
      BY <1>4, <2>5, <3>1 DEF SessionsInv, Marked
  <2> QED
    BY <1>3, <1>4, <2>2, <2>3, <2>4, <2>5 DEF Grow
<1>6. CASE t \in Jobs /\ Submit(s, t, size)
  <2>1. PICK r : r = Turn("user", size, t)
    OBVIOUS
  <2>2. r \in Rows /\ r.kind = "user" /\ r.task = t
    BY <1>2, <1>6, <2>1 DEF Turn, Rows
  <2>3. PICK row : row = [task[t] EXCEPT !.status = "queued", !.of = s]
    OBVIOUS
  <2>4. task[t].status = "new" /\ task[t].kind = "chat"
    BY <1>1, <1>6 DEF Submit, TaskOf
  <2>5. row \in TaskRows /\ row.status = "queued" /\ row.of = s /\ row.kind = "chat"
    BY <1>1, <1>6, <2>3, <2>4 DEF TaskRows
  <2>6. log' = [log EXCEPT ![s] = Append(log[s], r)] /\ task' = [task EXCEPT ![t] = row]
    BY <1>1, <1>6, <2>1, <2>3 DEF Submit, Types
  <2>7. /\ task' \in [Jobs -> TaskRows] /\ task'[t] = row
        /\ \A u \in Jobs \ {t} : task'[u] = task[u] /\ Keeps(task[u], task'[u])
    BY <1>1, <1>6, <2>5, <2>6, TaskKept
  <2>8. Fresh(s, r, t)
    BY <2>2, <2>4, <2>5, <2>7 DEF Fresh
  <2>9. ASSUME ~forgot, NEW u \in Jobs, Due(u)' PROVE task'[u].of \in compacting'
    <3>1. u # t
      BY <2>5, <2>7, <2>9 DEF Due
    <3>2. Due(u) /\ task'[u].of = task[u].of
      BY <1>1, <1>3, <2>7, <2>9, <3>1, DueKept
    <3> QED
      BY <1>4, <2>9, <3>2 DEF SessionsInv, Marked
  <2> QED
    BY <1>3, <1>4, <2>2, <2>6, <2>7, <2>8, <2>9 DEF Grow
<1> QED
  BY <1>5, <1>6

\* A summary that arrives was the only one due for its session.
LEMMA SummaryGrows ==
    ASSUME SessionsInv, NEW t \in Jobs, NEW size \in Sizes["summary"], ReportSummary(t, size)
    PROVE  task[t].of \in Ids /\ \E r : Grow(task[t].of, r)
<1>1. Types /\ TaskOf /\ task \in [Jobs -> TaskRows] /\ session \in [Ids -> SessionRows]
  BY DEF SessionsInv, Types, SessionRows
<1>2. PICK s : s = task[t].of
  OBVIOUS
<1>3. /\ Runs(t) /\ task[t].kind = "summary" /\ There(s) /\ task' = Settled(t, "succeeded")
      /\ compacting' = compacting \ {s} /\ UNCHANGED <<session, sends, forgot>>
  BY <1>2 DEF ReportSummary, InFlight, Runs
<1>4. s \in Ids /\ Due(t) /\ size \in Nat /\ task[t].plan \in Plans
  BY <1>1, <1>2, <1>3, SizesAre DEF Kinds, TaskOf, Due, Runs, TaskRows
<1>5. PICK r : r = [kind |-> "summary", size |-> size, task |-> t, plan |-> task[t].plan]
  OBVIOUS
<1>6. r \in Rows /\ r.kind = "summary" /\ r.plan = task[t].plan
  BY <1>4, <1>5 DEF Rows
<1>7. log' = [log EXCEPT ![s] = Append(log[s], r)]
  BY <1>1, <1>2, <1>4, <1>5 DEF ReportSummary, Types
<1>8. /\ task' \in [Jobs -> TaskRows] /\ task'[t].status = "succeeded"
      /\ \A u \in Jobs : Keeps(task[u], task'[u])
  BY <1>1, <1>3, SettledKept
<1>9. session' \in [Ids -> SessionRows] /\ \A x \in Ids : KeepsSession(session[x], session'[x])
  BY <1>1, <1>3, SessionKept
<1>10. Told(log[s], r.plan)
  BY <1>2, <1>4, <1>6 DEF SessionsInv, AllTold
<1>11. ASSUME ~forgot, NEW u \in Jobs, Due(u)' PROVE task'[u].of \in compacting' /\ task'[u].of # s
  <2>1. Due(u) /\ task'[u].of = task[u].of
    BY <1>1, <1>8, <1>9, <1>11, DueKept
  <2>2. u # t
    BY <1>8, <1>11 DEF Due, Runs
  <2>3. task[u].of \in compacting /\ task[u].of # s
    BY <1>2, <1>4, <1>11, <2>1, <2>2 DEF SessionsInv, Marked
  <2> QED
    BY <1>3, <2>1, <2>3
<1>12. ~forgot => r.plan.hi >= CoveredThrough(log[s])
  BY <1>2, <1>4, <1>6 DEF SessionsInv, Marked
<1>13. compacting' \subseteq Ids
  BY <1>1, <1>3 DEF Types
<1>14. Grow(s, r)
  BY <1>3, <1>6, <1>7, <1>8, <1>9, <1>10, <1>11, <1>12, <1>13 DEF Grow
<1> QED
  BY <1>2, <1>4, <1>14

LEMMA AnswerGrows ==
    ASSUME SessionsInv, NEW t \in Jobs, NEW size \in Sizes["assistant"], ReportAnswer(t, size)
    PROVE  task[t].of \in Ids /\ \E r : Grow(task[t].of, r)
<1>1. Types /\ TaskOf /\ task \in [Jobs -> TaskRows] /\ session \in [Ids -> SessionRows]
  BY DEF SessionsInv, Types, SessionRows
<1>2. PICK s : s = task[t].of
  OBVIOUS
<1>3. PICK n : n = task[t].node
  OBVIOUS
<1>4. PICK r : r = Turn("assistant", size, t)
  OBVIOUS
<1>5. PICK l : l = Append(log[s], r)
  OBVIOUS
<1>6. /\ InFlight(t) /\ Runs(t) /\ task[t].kind = "chat" /\ There(s)
      /\ log' = [log EXCEPT ![s] = l] /\ session' = [session EXCEPT ![s] = Pinned(@, n)]
      /\ UNCHANGED <<sends, forgot>>
  BY <1>2, <1>3, <1>4, <1>5 DEF ReportAnswer, InFlight, Runs
<1>7. \/ task' = Settled(t, "succeeded") /\ UNCHANGED compacting
      \/ /\ Compactable(s, l, n) /\ compacting' = compacting \cup {s}
         /\ \E u \in Jobs :
               /\ task[u].status = "new"
               /\ task' = [Settled(t, "succeeded") EXCEPT ![u] =
                      [status |-> "queued", kind |-> "summary", of |-> s, node |-> NoHost,
                       plan |-> Plan(l, Budget(n))]]
  BY <1>2, <1>3, <1>4, <1>5 DEF ReportAnswer
<1>8. s \in Ids /\ n \in Hosts /\ size \in Nat
  BY <1>1, <1>2, <1>3, <1>6, SizesAre DEF Kinds, TaskOf, Runs
<1>9. r \in Rows /\ r.kind = "assistant" /\ r.task = t
  BY <1>4, <1>8 DEF Turn, Rows
<1>10. session' \in [Ids -> SessionRows] /\ \A x \in Ids : KeepsSession(session[x], session'[x])
  <2>1. PICK p : p = Pinned(session[s], n)
    OBVIOUS
  <2>2. KeepsSession(session[s], p) /\ p \in SessionRows
    BY <1>1, <1>6, <1>8, <2>1, SessionKept DEF KeepsSession
  <2>3. session' = [session EXCEPT ![s] = p]
    BY <1>1, <1>6, <1>8, <2>1
  <2> QED
    BY <1>1, <2>2, <2>3, SessionKept
<1>11. PICK done : done = Settled(t, "succeeded")
  OBVIOUS
<1>12. /\ done \in [Jobs -> TaskRows] /\ done[t].status = "succeeded"
       /\ \A u \in Jobs : Keeps(task[u], done[u])
       /\ \A u \in Jobs \ {t} : done[u] = task[u]
  BY <1>1, <1>6, <1>11, SettledKept
<1>13. /\ task[t].status # "succeeded" /\ task[t].status # "new"
       /\ \E u \in 1..Len(log[s]) : log[s][u].kind = "user" /\ log[s][u].task = t
  BY <1>2, <1>6 DEF SessionsInv, Asked, InFlight
<1>14. log' = [log EXCEPT ![s] = Append(log[s], r)] /\ compacting \subseteq Ids
  BY <1>1, <1>5, <1>6 DEF Types
<1>15. CASE task' = Settled(t, "succeeded") /\ UNCHANGED compacting
  <2>1. ASSUME ~forgot, NEW u \in Jobs, Due(u)' PROVE task'[u].of \in compacting'
    <3>1. Due(u) /\ task'[u].of = task[u].of
      BY <1>1, <1>10, <1>11, <1>12, <1>15, <2>1, DueKept
    <3> QED
      BY <1>15, <2>1, <3>1 DEF SessionsInv, Marked
  <2>2. Grow(s, r)
    BY <1>6, <1>9, <1>10, <1>11, <1>12, <1>13, <1>14, <1>15, <2>1 DEF Grow
  <2> QED
    BY <1>2, <1>8, <2>2
<1>16. CASE /\ Compactable(s, l, n) /\ compacting' = compacting \cup {s}
            /\ \E u \in Jobs :
                  /\ task[u].status = "new"
                  /\ task' = [Settled(t, "succeeded") EXCEPT ![u] =
                         [status |-> "queued", kind |-> "summary", of |-> s, node |-> NoHost,
                          plan |-> Plan(l, Budget(n))]]
  <2>1. PICK p : p = Plan(l, Budget(n))
    OBVIOUS
  <2>2. PICK row : row = [status |-> "queued", kind |-> "summary", of |-> s, node |-> NoHost, plan |-> p]
    OBVIOUS
  <2>3. PICK u \in Jobs : task[u].status = "new" /\ task' = [done EXCEPT ![u] = row]
    BY <1>11, <1>16, <2>1, <2>2
  <2>4. s \notin compacting /\ Overflow(l, Budget(n)) # {}
    BY <1>16 DEF Compactable
  <2>5. log[s] \in Logs
    BY <1>1, <1>8 DEF Types
  <2>6. l \in Logs /\ Len(l) = Len(log[s]) + 1 /\ l[Len(l)] = r /\ Len(log[s]) \in Nat
        /\ \A v \in 1..Len(log[s]) : l[v] = log[s][v]
    BY <1>5, <1>9, <2>5, AppendIs, LogIs
  <2>7. ASSUME NEW k \in Summaries(l) PROVE Told(l, l[k].plan)
    <3>1. Summaries(l) = Summaries(log[s])
      BY <1>5, <1>9, <2>5, AppendSummary
    <3>2. k \in 1..Len(log[s]) /\ log[s][k].kind = "summary"
      BY <2>5, <3>1, SummaryIs DEF Summaries
    <3>3. log[s][k].plan \in Plans /\ l[k] = log[s][k]
      BY <2>5, <2>6, <3>2, LogIs
    <3>4. \A m \in Summaries(log[s]) : Told(log[s], log[s][m].plan)
      BY <1>8 DEF SessionsInv, AllTold
    <3> QED
      BY <1>5, <1>9, <2>5, <3>1, <3>3, <3>4, ToldGrows
  <2>8. Len(l) # 0
    BY <2>6
  <2>9. p \in Plans /\ Told(l, p) /\ p.hi > CoveredThrough(l)
    BY <1>9, <2>1, <2>4, <2>6, <2>7, <2>8, PlanTold, PlanIs
  <2>10. p.hi >= CoveredThrough(l)
    <3>1. PICK h \in Nat : h = p.hi
      BY <2>9 DEF Plans
    <3>2. PICK c \in Nat : c = CoveredThrough(l)
      BY <2>6, SummaryIs
    <3> QED
      BY <2>9, <3>1, <3>2
  <2>11. row \in TaskRows /\ row.status = "queued" /\ row.of = s /\ row.kind = "summary" /\ row.plan = p
    BY <1>8, <2>2, <2>9 DEF TaskRows
  <2>12. u # t
    BY <1>13, <2>3
  <2>13. /\ task' \in [Jobs -> TaskRows] /\ task'[u] = row /\ task'[t].status = "succeeded"
         /\ \A x \in Jobs \ {u} : Keeps(task[x], task'[x])
    BY <1>12, <2>3, <2>11, <2>12
  <2>14. ASSUME ~forgot, NEW x \in Jobs, Due(x) PROVE task[x].of # s
    BY <2>4, <2>14 DEF SessionsInv, Marked
  <2>15. Fresh(s, r, u)
    BY <1>5, <2>3, <2>9, <2>10, <2>11, <2>13, <2>14 DEF Fresh
  <2>16. ASSUME ~forgot, NEW x \in Jobs, Due(x)' PROVE task'[x].of \in compacting'
    <3>1. CASE x = u
      BY <1>16, <2>11, <2>13, <3>1
    <3>2. CASE x # u
      <4>1. Due(x) /\ task'[x].of = task[x].of
        BY <1>1, <1>10, <2>13, <2>16, <3>2, DueKept
      <4> QED
        BY <1>16, <2>16, <4>1 DEF SessionsInv, Marked
    <3> QED
      BY <3>1, <3>2
  <2>17. compacting' \subseteq Ids
    BY <1>8, <1>14, <1>16
  <2>18. \A x \in Jobs : Keeps(task[x], task'[x]) \/ Fresh(s, r, x)
    BY <2>13, <2>15
  <2>19. Grow(s, r)
    BY <1>6, <1>9, <1>10, <1>13, <1>14, <2>13, <2>16, <2>17, <2>18 DEF Grow
  <2> QED
    BY <1>2, <1>8, <2>19
<1> QED
  BY <1>7, <1>15, <1>16

-----------------------------------------------------------------------------
LEMMA SessionsInit == SessionInit => SessionsInv
<1> SUFFICES ASSUME SessionInit PROVE SessionsInv
  OBVIOUS
<1>1. NoPlan \in Plans
  BY DEF NoPlan, Plans
<1>2. NewTask \in TaskRows
  BY <1>1 DEF NewTask, TaskRows
<1>3. Types
  BY <1>2, EmptyLog DEF SessionInit, Types, NoSession
<1>4. TaskOf /\ Asked /\ Marked
  BY DEF SessionInit, TaskOf, Asked, Marked, Due, Runs, InFlight, NewTask
<1>5. \A s \in Ids : DOMAIN log[s] = {} /\ Summaries(log[s]) = {}
  BY DEF SessionInit, Summaries
<1>6. AnsweredOnce
  BY <1>5 DEF AnsweredOnce
<1>7. AllTold
  BY <1>5 DEF SessionInit, AllTold, Due, Runs, NewTask
<1> QED
  BY <1>3, <1>4, <1>6, <1>7 DEF SessionsInv

LEMMA SessionsStep ==
    ASSUME SessionsInv, [SessionNext]_sessionVars
    PROVE  SessionsInv' /\ Covers
<1>1. CASE UNCHANGED sessionVars
  <2>1. task' \in [Jobs -> TaskRows] /\ \A t \in Jobs : Keeps(task[t], task'[t])
    BY <1>1, TaskKept DEF sessionVars, SessionsInv, Types
  <2>2. session' \in [Ids -> SessionRows] /\ \A s \in Ids : KeepsSession(session[s], session'[s])
    BY <1>1, SessionKept DEF sessionVars, SessionsInv, Types, SessionRows
  <2>3. KeepsSends /\ UNCHANGED <<log, compacting, forgot>>
    BY <1>1 DEF sessionVars, KeepsSends, SessionsInv, Types
  <2> QED
    BY <2>1, <2>2, <2>3, QuietIs, QuietStep
<1>2. ASSUME NEW s \in Ids, Create(s) \/ Close(s) \/ \E n \in Hosts : Migrate(s, n) PROVE Quiet
  <2>1. CASE Create(s) \/ Close(s)
    BY <2>1, SessionsChange
  <2>2. ASSUME NEW n \in Hosts, Migrate(s, n) PROVE Quiet
    BY <2>2, SessionsChange
  <2> QED
    BY <1>2, <2>1, <2>2
<1>3. ASSUME NEW t \in Jobs,
             (\E n \in Hosts : Assign(t, n)) \/ Requeue(t) \/ EndUnreported(t) \/ ReportNothing(t)
      PROVE  Quiet
  <2>1. CASE Requeue(t) \/ EndUnreported(t) \/ ReportNothing(t)
    BY <2>1, TasksChange
  <2>2. ASSUME NEW n \in Hosts, Assign(t, n) PROVE Quiet
    BY <2>2, TasksChange
  <2> QED
    BY <1>3, <2>1, <2>2
<1>4. CASE \E s \in Ids : DeleteSession(s)
  BY <1>4, DeleteQuiet, QuietStep
<1>5. CASE \E t \in Jobs, n \in Hosts : Send(t, n)
  BY <1>5, SendQuiet, QuietStep
<1>6. CASE \E t \in Jobs : ReportFailure(t)
  BY <1>6, FailureQuiet, QuietStep
<1>7. CASE \E everything \in BOOLEAN : ClearSessions(everything)
  BY <1>7, ClearQuiet, QuietStep
<1>8. CASE Restart
  BY <1>8, RestartQuiet, QuietStep
<1>9. CASE \E s \in Ids : \E size \in Sizes["user"] : SubmitTurnOnly(s, size) \/ \E t \in Jobs : Submit(s, t, size)
  <2>1. PICK s \in Ids, size \in Sizes["user"] : SubmitTurnOnly(s, size) \/ \E t \in Jobs : Submit(s, t, size)
    BY <1>9
  <2>2. CASE SubmitTurnOnly(s, size)
    BY <2>2, RequestGrows, GrowStep
  <2>3. CASE \E t \in Jobs : Submit(s, t, size)
    BY <2>3, RequestGrows, GrowStep
  <2> QED
    BY <2>1, <2>2, <2>3
<1>10. CASE \E t \in Jobs : \E size \in Sizes["assistant"] : ReportAnswer(t, size)
  BY <1>10, AnswerGrows, GrowStep
<1>11. CASE \E t \in Jobs : \E size \in Sizes["summary"] : ReportSummary(t, size)
  BY <1>11, SummaryGrows, GrowStep
<1> QED
  BY <1>1, <1>2, <1>3, <1>4, <1>5, <1>6, <1>7, <1>8, <1>9, <1>10, <1>11, QuietStep DEF SessionNext

LEMMA SessionsAlways == SessionSpec => []SessionsInv
<1>1. SessionsInv /\ [SessionNext]_sessionVars => SessionsInv'
  BY SessionsStep
<1> QED
  BY <1>1, SessionsInit, PTL DEF SessionSpec

(***************************************************************************)
(* The theorems                                                            *)
(***************************************************************************)
\* An answer is appended once, by a task the table has settled as succeeded, and
\* after its request (submit_task and on_result of server.py).
THEOREM AnswersAppendedOnce == SessionSpec => []AnsweredOnce
BY SessionsAlways, PTL DEF SessionsInv

\* No summary that arrives covers less than the latest one, unless a restart has
\* forgotten which are on their way (the _compacting marks of server.py).
THEOREM CoverageNeverShrinks == SessionSpec => CoverageGrows
<1>1. SessionsInv /\ [SessionNext]_sessionVars =>
         [~forgot => \A s \in Ids : There(s)' => CoveredThrough(log'[s]) >= CoveredThrough(log[s])]_sessionVars
  BY SessionsStep DEF Covers
<1> QED
  BY <1>1, SessionsAlways, PTL DEF SessionSpec, CoverageGrows

\* What a summary in a log claims was folded into a text, or was the newest
\* request when some summary was planned (compaction_plan of context_store.py).
THEOREM NothingForgotten == SessionSpec => []Remembered
<1>1. SessionsInv => Remembered
  BY DEF SessionsInv, AllTold, Told, Remembered
<1> QED
  BY <1>1, SessionsAlways, PTL

\* The prompt compiled from any log fits the budget it is compiled for (_compile
\* and _fit_floor of context_store.py).
THEOREM PromptsFit == SessionSpec => []PromptFits
<1>1. ASSUME SessionsInv PROVE PromptFits
  <2>1. ASSUME NEW s \in Ids, NEW n \in Hosts, Budget(n) > 2
        PROVE  PromptTokens(log[s], Budget(n)) <= Budget(n)
    <3>1. Window[n] - Reserve \in Int
      BY SessionsAssumption
    <3>2. Budget(n) \in Nat
      BY <3>1, AtLeastOneIs DEF Budget
    <3>3. log[s] \in Logs
      BY <1>1 DEF SessionsInv, Types
    <3> QED
      BY <2>1, <3>2, <3>3, PromptIs
  <2> QED
    BY <2>1 DEF PromptFits
<1> QED
  BY <1>1, SessionsAlways, PTL
=============================================================================
