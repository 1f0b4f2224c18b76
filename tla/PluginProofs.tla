---------------------------- MODULE PluginProofs ----------------------------
(***************************************************************************)
(* The safety of the gateway's plugins, for every number of plugins, calls *)
(* and events: types and the order of the handlers, handlers that follow   *)
(* the statuses, events that reach every handler they found once and miss  *)
(* none, configs that plugins learn of.  The invariant adds to the         *)
(* properties what a call in flight has already done, and what an event    *)
(* has still to walk.                                                      *)
(***************************************************************************)
EXTENDS PluginLifecycle, FiniteSetTheorems, TLAPS

----------------------------------------------------------------------------
(* The inductive invariant.                                                 *)

\* Configs are numbered by the changes there were.
Numbers == 0..used.configs
Plugs == [status : Statuses, loaded : BOOLEAN, config : Numbers, given : Numbers]
Files == [there : BOOLEAN, status : Statuses, config : Numbers]
CallRecords == [job : Jobs \cup {"none"}, at : {"idle", "loading", "enabling", "disabling"},
                of : Plugins]
EventRecords == [at : {"before", "running", "passed", "stopped"}, live : BOOLEAN,
                 list : Seq(Plugins), next : Nat \ {0}, grown : BOOLEAN,
                 first : Seq(Plugins), ran : Seq(Plugins)]
UsedRecords == [calls : Nat, throws : Nat, restarts : Nat, configs : 0..MaxConfigs]

Types ==
    /\ plugin \in [Plugins -> Plugs] /\ entry \in [Plugins -> Files]
    /\ call \in [Calls -> CallRecords] /\ event \in [Events -> EventRecords]
    /\ overlapped \subseteq Plugins /\ threw \subseteq Plugins
    /\ used \in UsedRecords

InRank(list) == \A i, j \in DOMAIN list : i < j => Rank[list[i]] <= Rank[list[j]]

Handlers == hooks \in Seq(Plugins) /\ InRank(hooks)

\* What call c works on, while it is in flight.
Works(c, p) == call[c].at # "idle" /\ call[c].of = p

\* Two calls that work on one plugin, and only they, mark it as overlapped.
OneWorks(p) == \A c, d \in Calls : Works(c, p) /\ Works(d, p) => c = d

Nowhere(p, list) == \A i \in DOMAIN list : list[i] # p
Once(p, list) == \E i \in DOMAIN list : list[i] = p /\ \A j \in DOMAIN list : list[j] = p => j = i

\* A plugin that reads disabled and that nobody works on has no handler.
IsSilent(p) == ~Busy(p) /\ plugin[p].status = "disabled" => Nowhere(p, hooks)

\* What a call has done to the handlers of its plugin at each of its stages.
AtStage(c, p) ==
    /\ call[c].at = "loading" =>
          /\ plugin[p].status # "enabled"
          /\ p \in OnLoad => Once(p, hooks)
          /\ p \notin OnLoad => Nowhere(p, hooks)
    /\ call[c].at = "enabling" => plugin[p].status # "enabled" /\ Once(p, hooks)
    /\ call[c].at = "disabling" => plugin[p].status = "enabled" /\ Once(p, hooks)

AtRest(p) ==
    /\ plugin[p].status = "enabled" => Once(p, hooks)
    /\ plugin[p].status # "enabled" => Nowhere(p, hooks)

Orderly == Plugins \ ({Engine} \cup overlapped \cup threw)

Follows(p) ==
    /\ \A c \in Calls : Works(c, p) => AtStage(c, p)
    /\ ~Busy(p) => AtRest(p)

\* Only an instance that is loaded is enabled.
IsLoaded(p) ==
    /\ plugin[p].status = "enabled" => plugin[p].loaded
    /\ \A c \in Calls : Works(c, p) /\ call[c].at \in {"loading", "enabling"} => plugin[p].loaded

\* While a plugin is enabled it has the config that its loading has given it.
IsGiven(p) ==
    /\ \A c \in Calls : Works(c, p) /\ call[c].at \in {"loading", "enabling"} =>
          plugin[p].given = plugin[p].config
    /\ plugin[p].status = "enabled" /\ ~Busy(p) => plugin[p].given = plugin[p].config

Good(p) ==
    /\ IsSilent(p) /\ IsLoaded(p)
    /\ p \notin overlapped => OneWorks(p)
    /\ p \in Orderly => Follows(p)
    /\ p \in Listens \ overlapped => IsGiven(p)

AllGood == \A p \in Plugins : Good(p)

\* What an event has walked, and what it walks, are those it found.
Walking(x, list) ==
    ~event[x].grown =>
        /\ event[x].next = Len(event[x].ran) + 1 /\ Len(event[x].ran) <= Len(event[x].first)
        /\ \A i \in 1..Len(event[x].ran) : event[x].ran[i] = event[x].first[i]
        /\ event[x].at = "running" => list = event[x].first
        /\ event[x].at = "passed" => Len(event[x].ran) = Len(event[x].first)

\* Where a running event meets each handler it found: in what it has run, or ahead of it in what
\* it walks.
Leads(f, next, ran, first, list) ==
    /\ \A i \in DOMAIN first :
          /\ f[i] < next => f[i] \in DOMAIN ran /\ ran[f[i]] = first[i]
          /\ f[i] >= next => f[i] \in DOMAIN list /\ list[f[i]] = first[i]
    /\ \A i, j \in DOMAIN first : i < j => f[i] < f[j]

\* However the list grows and shrinks, a running event meets all it found, and one that has
\* passed has met them.
Meets(at, next, ran, first, list) ==
    /\ at = "running" => /\ next = Len(ran) + 1
                         /\ \E f \in [DOMAIN first -> Nat] : Leads(f, next, ran, first, list)
    /\ at = "passed" => IsWithin(first, ran)

Walks ==
    \A x \in Events :
        /\ Walking(x, Walked(x))
        /\ Meets(event[x].at, event[x].next, event[x].ran, event[x].first, Walked(x))

IInv == Types /\ Handlers /\ AllGood /\ Walks

----------------------------------------------------------------------------
(* The list of handlers.                                                    *)

\* longer is the list with p put in behind its first k.
PutBehind(longer, list, k, p) ==
    /\ k \in 0..Len(list) /\ Len(longer) = Len(list) + 1
    /\ \A i \in 1..(Len(list) + 1) :
          longer[i] = IF i <= k THEN list[i] ELSE IF i = k + 1 THEN p ELSE list[i - 1]

\* A handler that is put into the list shifts the places from its own on, or from the next to be
\* run on when its own lies behind.
LEMMA LeadsInserted ==
    ASSUME NEW ran \in Seq(Plugins), NEW first \in Seq(Plugins), NEW list \in Seq(Plugins),
           NEW longer \in Seq(Plugins), NEW next, NEW k, NEW p,
           next = Len(ran) + 1, PutBehind(longer, list, k, p),
           \E f \in [DOMAIN first -> Nat] : Leads(f, next, ran, first, list)
    PROVE  \E g \in [DOMAIN first -> Nat] : Leads(g, next, ran, first, longer)
<1> PICK f \in [DOMAIN first -> Nat] : Leads(f, next, ran, first, list)
  OBVIOUS
<1> DEFINE q == IF k + 1 >= next THEN k + 1 ELSE next
           g == [i \in DOMAIN first |-> IF f[i] < q THEN f[i] ELSE f[i] + 1]
<1>1. /\ Len(ran) \in Nat /\ Len(list) \in Nat /\ next \in Nat /\ k \in Nat /\ k <= Len(list)
      /\ DOMAIN list = 1..Len(list) /\ DOMAIN longer = 1..(Len(list) + 1)
  BY DEF PutBehind
<1>2. q \in Nat /\ q >= next /\ q >= k + 1 /\ (q = next \/ q = k + 1)
  BY <1>1
<1> HIDE DEF q
<1>3. \A i \in DOMAIN first : f[i] \in Nat /\ g[i] = IF f[i] < q THEN f[i] ELSE f[i] + 1
  OBVIOUS
<1>4. g \in [DOMAIN first -> Nat]
  BY <1>3
<1> HIDE DEF g
<1>5. ASSUME NEW i \in DOMAIN first
      PROVE  /\ g[i] < next => g[i] \in DOMAIN ran /\ ran[g[i]] = first[i]
             /\ g[i] >= next => g[i] \in DOMAIN longer /\ longer[g[i]] = first[i]
  <2>1. /\ f[i] < next => f[i] \in DOMAIN ran /\ ran[f[i]] = first[i]
        /\ f[i] >= next => f[i] \in 1..Len(list) /\ list[f[i]] = first[i]
    BY <1>1 DEF Leads
  <2>2. CASE f[i] < next
    BY <2>1, <2>2, <1>1, <1>2, <1>3
  <2>3. CASE f[i] >= next /\ f[i] < q
    <3>1. g[i] = f[i] /\ f[i] <= k /\ f[i] \in 1..(Len(list) + 1)
      BY <2>1, <2>3, <1>1, <1>2, <1>3
    <3>2. longer[f[i]] = list[f[i]]
      BY <3>1 DEF PutBehind
    <3> QED BY <3>1, <3>2, <2>1, <2>3, <1>1, <1>3
  <2>4. CASE f[i] >= next /\ f[i] >= q
    <3>1. g[i] = f[i] + 1 /\ f[i] > k /\ f[i] + 1 \in 1..(Len(list) + 1) /\ f[i] \in 1..Len(list)
      BY <2>1, <2>4, <1>1, <1>2, <1>3
    <3>2. ~(f[i] + 1 <= k) /\ f[i] + 1 # k + 1 /\ (f[i] + 1) - 1 = f[i]
      <4>1. \A m, n \in Nat : n > m => ~(n + 1 <= m) /\ n + 1 # m + 1 /\ (n + 1) - 1 = n
        OBVIOUS
      <4> QED BY <4>1, <3>1, <1>1, <1>3
    <3>3. longer[f[i] + 1] = list[(f[i] + 1) - 1]
      BY <3>1, <3>2 DEF PutBehind
    <3> QED BY <3>1, <3>2, <3>3, <2>1, <2>4, <1>1, <1>3
  <2> QED BY <2>2, <2>3, <2>4, <1>1, <1>2, <1>3
<1>6. ASSUME NEW i \in DOMAIN first, NEW j \in DOMAIN first, i < j
      PROVE  g[i] < g[j]
  <2>1. f[i] < f[j]
    BY <1>6 DEF Leads
  <2> QED BY <2>1, <1>2, <1>3
<1> QED BY <1>4, <1>5, <1>6 DEF Leads

\* The next handler of the list has run.
LEMMA LeadsOn ==
    ASSUME NEW ran \in Seq(Plugins), NEW first \in Seq(Plugins), NEW list \in Seq(Plugins),
           NEW more \in Seq(Plugins), NEW next, next = Len(ran) + 1,
           Len(more) = Len(ran) + 1, \A i \in 1..Len(ran) : more[i] = ran[i],
           more[next] = list[next],
           NEW f \in [DOMAIN first -> Nat], Leads(f, next, ran, first, list)
    PROVE  Leads(f, next + 1, more, first, list)
<1>1. Len(ran) \in Nat /\ DOMAIN ran = 1..Len(ran) /\ DOMAIN more = 1..next /\ next \in Nat
  OBVIOUS
<1>2. ASSUME NEW i \in DOMAIN first
      PROVE  /\ f[i] < next + 1 => f[i] \in DOMAIN more /\ more[f[i]] = first[i]
             /\ f[i] >= next + 1 => f[i] \in DOMAIN list /\ list[f[i]] = first[i]
  <2>1. /\ f[i] < next => f[i] \in DOMAIN ran /\ ran[f[i]] = first[i]
        /\ f[i] >= next => f[i] \in DOMAIN list /\ list[f[i]] = first[i]
        /\ f[i] \in Nat
    BY DEF Leads
  <2>2. CASE f[i] < next
    BY <2>1, <2>2, <1>1
  <2>3. CASE f[i] = next
    BY <2>1, <2>3, <1>1
  <2>4. CASE f[i] > next
    BY <2>1, <2>4, <1>1
  <2> QED BY <2>1, <2>2, <2>3, <2>4, <1>1
<1> QED BY <1>2 DEF Leads

\* Nothing is ahead any more.
LEMMA LeadsToEnd ==
    ASSUME NEW ran \in Seq(Plugins), NEW first \in Seq(Plugins), NEW list \in Seq(Plugins),
           NEW next \in Nat, next > Len(list),
           NEW f \in [DOMAIN first -> Nat], Leads(f, next, ran, first, list)
    PROVE  IsWithin(first, ran)
<1>1. ASSUME NEW i \in DOMAIN first PROVE f[i] \in DOMAIN ran /\ ran[f[i]] = first[i]
  <2>1. /\ f[i] < next => f[i] \in DOMAIN ran /\ ran[f[i]] = first[i]
        /\ f[i] >= next => f[i] \in 1..Len(list)
        /\ f[i] \in Nat /\ Len(list) \in Nat
    BY DEF Leads
  <2> QED BY <2>1
<1>2. f \in [DOMAIN first -> DOMAIN ran]
  BY <1>1
<1> QED BY <1>1, <1>2 DEF IsWithin, Leads

\* At the start everything is ahead.
LEMMA LeadsFromStart ==
    ASSUME NEW list \in Seq(Plugins)
    PROVE  \E f \in [DOMAIN list -> Nat] : Leads(f, 1, <<>>, list, list)
<1> DEFINE f == [i \in DOMAIN list |-> i]
<1>1. DOMAIN list = 1..Len(list) /\ Len(list) \in Nat
  OBVIOUS
<1>2. f \in [DOMAIN list -> Nat] /\ \A i \in DOMAIN list : f[i] = i /\ i \in Nat /\ i >= 1
  BY <1>1
<1> HIDE DEF f
<1> QED BY <1>2 DEF Leads

\* The empty list is in every other.
LEMMA EmptyIsWithin == IsWithin(<<>>, <<>>)
<1>1. DOMAIN <<>> = {}
  OBVIOUS
<1>2. [i \in {} |-> i] \in [{} -> {}]
  OBVIOUS
<1> QED BY <1>1, <1>2 DEF IsWithin

\* The places of a list are as many as its length says.
LEMMA PlacesCounted ==
    \A n \in Nat : IsFiniteSet(1..n) /\ Cardinality(1..n) = n
<1> TAKE n \in Nat
<1>1. IsFiniteSet(1..n) /\ Cardinality(1..n) = IF 1 > n THEN 0 ELSE n - 1 + 1
  BY FS_Interval
<1> QED BY <1>1

\* The handlers that run before a new one are those in front of its place.
LEMMA PlaceOfRank ==
    ASSUME Handlers, NEW p \in Plugins
    PROVE  LET k == Cardinality({i \in DOMAIN hooks : Rank[hooks[i]] <= Rank[p]})
           IN /\ k \in 0..Len(hooks)
              /\ \A i \in DOMAIN hooks : Rank[hooks[i]] <= Rank[p] <=> i <= k
<1> DEFINE S == {i \in DOMAIN hooks : Rank[hooks[i]] <= Rank[p]}
           k == Cardinality(S)
<1>1. DOMAIN hooks = 1..Len(hooks) /\ Len(hooks) \in Nat
  BY DEF Handlers
<1>2. \A i \in DOMAIN hooks : Rank[hooks[i]] \in Nat
  BY PluginAssumption DEF Handlers
<1>3. IsFiniteSet(1..Len(hooks)) /\ Cardinality(1..Len(hooks)) = Len(hooks)
  BY PlacesCounted, <1>1
<1>4. S \in SUBSET (1..Len(hooks))
  BY <1>1
<1>5. IsFiniteSet(S) /\ k <= Len(hooks)
  BY <1>3, <1>4, FS_Subset
<1>6. k \in Nat
  BY <1>5, FS_CardinalityType
<1>7. ASSUME NEW i \in DOMAIN hooks, i \in S
      PROVE  i <= k
  <2>1. ASSUME NEW j \in 1..i PROVE j \in S
    <3>1. j \in DOMAIN hooks /\ j \in Nat /\ i \in Nat
      BY <1>1
    <3>2. Rank[hooks[j]] <= Rank[hooks[i]]
      <4>1. CASE j = i
        BY <4>1, <1>2
      <4>2. CASE j < i
        BY <4>2, <3>1 DEF Handlers, InRank
      <4> QED BY <4>1, <4>2, <3>1
    <3>3. Rank[hooks[i]] <= Rank[p]
      BY <1>7
    <3> QED BY <3>1, <3>2, <3>3, <1>2, PluginAssumption
  <2>2. (1..i) \in SUBSET S
    BY <2>1
  <2>3. Cardinality(1..i) <= k
    BY <2>2, <1>5, FS_Subset
  <2>4. i \in Nat /\ i >= 1
    BY <1>1
  <2>5. Cardinality(1..i) = i
    BY <2>4, PlacesCounted
  <2> QED BY <2>3, <2>5
<1>8. ASSUME NEW i \in DOMAIN hooks, i \notin S
      PROVE  i > k
  <2>1. ASSUME NEW j \in S PROVE j \in 1..(i - 1)
    <3>1. j \in 1..Len(hooks) /\ i \in 1..Len(hooks) /\ Rank[hooks[j]] <= Rank[p]
      BY <1>1
    <3>2. ~(Rank[hooks[i]] <= Rank[p])
      BY <1>8
    <3>3. ~(i <= j)
      <4>1. i = j => FALSE
        BY <3>1, <3>2
      <4>2. i < j => FALSE
        <5>1. i < j => Rank[hooks[i]] <= Rank[hooks[j]]
          BY <3>1, <1>1 DEF Handlers, InRank
        <5> QED BY <5>1, <3>1, <3>2, <1>1, <1>2, PluginAssumption
      <4> QED BY <4>1, <4>2, <3>1
    <3> QED BY <3>1, <3>3
  <2>2. S \in SUBSET (1..(i - 1))
    BY <2>1
  <2>3. i \in Nat /\ i >= 1
    BY <1>1
  <2>4. IsFiniteSet(1..(i - 1)) /\ Cardinality(1..(i - 1)) = i - 1
    <3>1. i - 1 \in Nat
      BY <2>3
    <3> QED BY <3>1, PlacesCounted
  <2>5. k <= i - 1
    <3>1. Cardinality(S) <= Cardinality(1..(i - 1))
      BY <2>2, <2>4, FS_Subset
    <3> QED BY <3>1, <2>4
  <2> QED BY <2>3, <2>5, <1>6
<1>9. k \in 0..Len(hooks)
  BY <1>5, <1>6, <1>1
<1>10. \A i \in DOMAIN hooks : i \in S <=> i <= k
  <2> TAKE i \in DOMAIN hooks
  <2>1. i \in Nat
    BY <1>1
  <2>2. i \notin S => i > k
    BY <1>8
  <2>3. i \in S => i <= k
    BY <1>7
  <2> HIDE DEF S, k
  <2> QED BY <2>1, <2>2, <2>3, <1>6
<1> QED BY <1>9, <1>10

\* A handler is put between those that run before it and those that run after it.
LEMMA SortedIsInserted ==
    ASSUME Handlers, NEW p \in Plugins
    PROVE  \E k \in 0..Len(hooks) :
              /\ \A i \in 1..Len(hooks) : Rank[hooks[i]] <= Rank[p] <=> i <= k
              /\ Sorted(p) \in Seq(Plugins) /\ Len(Sorted(p)) = Len(hooks) + 1
              /\ \A i \in 1..(Len(hooks) + 1) : Sorted(p)[i] =
                    IF i <= k THEN hooks[i] ELSE IF i = k + 1 THEN p ELSE hooks[i - 1]
<1> DEFINE k == Cardinality({i \in DOMAIN hooks : Rank[hooks[i]] <= Rank[p]})
<1>1. /\ k \in 0..Len(hooks)
      /\ \A i \in 1..Len(hooks) : Rank[hooks[i]] <= Rank[p] <=> i <= k
  <2>1. DOMAIN hooks = 1..Len(hooks)
    BY DEF Handlers
  <2> QED BY PlaceOfRank, <2>1
<1>2. Sorted(p) = InsertAt(hooks, k + 1, p)
  BY DEF Sorted
<1> HIDE DEF k
<1>3. Sorted(p) = SubSeq(hooks, 1, k) \o <<p>> \o SubSeq(hooks, k + 1, Len(hooks))
  <2>1. (k + 1) - 1 = k
    BY <1>1
  <2>2. InsertAt(hooks, k + 1, p) =
           SubSeq(hooks, 1, (k + 1) - 1) \o <<p>> \o SubSeq(hooks, k + 1, Len(hooks))
    BY DEF InsertAt
  <2> QED BY <1>2, <2>1, <2>2
<1>4. hooks \in Seq(Plugins) /\ Len(hooks) \in Nat
  BY DEF Handlers
<1>5. /\ SubSeq(hooks, 1, k) \in Seq(Plugins) /\ Len(SubSeq(hooks, 1, k)) = k
      /\ \A i \in 1..k : SubSeq(hooks, 1, k)[i] = hooks[i]
  BY <1>1, <1>4
<1>6. /\ SubSeq(hooks, k + 1, Len(hooks)) \in Seq(Plugins)
      /\ Len(SubSeq(hooks, k + 1, Len(hooks))) = Len(hooks) - k
      /\ \A i \in 1..(Len(hooks) - k) : SubSeq(hooks, k + 1, Len(hooks))[i] = hooks[k + i]
  BY <1>1, <1>4
<1> DEFINE a == SubSeq(hooks, 1, k)
           b == SubSeq(hooks, k + 1, Len(hooks))
<1>7. /\ a \in Seq(Plugins) /\ Len(a) = k /\ \A i \in 1..k : a[i] = hooks[i]
      /\ b \in Seq(Plugins) /\ Len(b) = Len(hooks) - k
      /\ \A i \in 1..(Len(hooks) - k) : b[i] = hooks[k + i]
      /\ Sorted(p) = a \o <<p>> \o b
  BY <1>3, <1>5, <1>6
<1> HIDE DEF a, b
<1>8. /\ a \o <<p>> \in Seq(Plugins) /\ Len(a \o <<p>>) = k + 1
      /\ \A i \in 1..(k + 1) : (a \o <<p>>)[i] = IF i <= k THEN hooks[i] ELSE p
  BY <1>7, <1>1
<1> DEFINE c == a \o <<p>>
<1>9. /\ c \in Seq(Plugins) /\ Len(c) = k + 1 /\ Sorted(p) = c \o b
      /\ \A i \in 1..(k + 1) : c[i] = IF i <= k THEN hooks[i] ELSE p
  BY <1>7, <1>8
<1> HIDE DEF c
<1>10. Sorted(p) \in Seq(Plugins) /\ Len(Sorted(p)) = Len(hooks) + 1
  <2>0. c \in Seq(Plugins) /\ b \in Seq(Plugins)
    BY <1>7, <1>9
  <2>1. c \o b \in Seq(Plugins)
    BY <2>0
  <2>2. Len(c \o b) = Len(c) + Len(b)
    BY <2>0
  <2> QED BY <2>1, <2>2, <1>7, <1>9, <1>1, <1>4
<1>11. \A i \in 1..(Len(hooks) + 1) :
          Sorted(p)[i] = IF i <= k + 1 THEN c[i] ELSE b[i - (k + 1)]
  BY <1>7, <1>9, <1>1, <1>4
<1>12. ASSUME NEW i \in 1..(Len(hooks) + 1)
       PROVE  Sorted(p)[i] =
                 IF i <= k THEN hooks[i] ELSE IF i = k + 1 THEN p ELSE hooks[i - 1]
  <2>1. CASE i <= k + 1
    BY <2>1, <1>9, <1>11, <1>1, <1>4
  <2>2. CASE i > k + 1
    <3>1. i - (k + 1) \in 1..(Len(hooks) - k) /\ k + (i - (k + 1)) = i - 1
      BY <2>2, <1>1, <1>4
    <3>2. b[i - (k + 1)] = hooks[i - 1]
      BY <3>1, <1>7
    <3> QED BY <3>2, <2>2, <1>11, <1>1, <1>4
  <2> QED BY <2>1, <2>2, <1>1, <1>4
<1> QED BY <1>1, <1>10, <1>12

\* A handler that is registered keeps the order, keeps those of the others, and is there once
\* when there was none of its plugin's before.
LEMMA SortedKeepsHandlers ==
    ASSUME Handlers, NEW p \in Plugins
    PROVE  /\ Sorted(p) \in Seq(Plugins) /\ InRank(Sorted(p))
           /\ Nowhere(p, hooks) => Once(p, Sorted(p))
           /\ \A q \in Plugins \ {p} : /\ Nowhere(q, hooks) => Nowhere(q, Sorted(p))
                                       /\ Once(q, hooks) => Once(q, Sorted(p))
<1>1. PICK k \in 0..Len(hooks) :
         /\ \A i \in 1..Len(hooks) : Rank[hooks[i]] <= Rank[p] <=> i <= k
         /\ Sorted(p) \in Seq(Plugins) /\ Len(Sorted(p)) = Len(hooks) + 1
         /\ \A i \in 1..(Len(hooks) + 1) : Sorted(p)[i] =
               IF i <= k THEN hooks[i] ELSE IF i = k + 1 THEN p ELSE hooks[i - 1]
  BY SortedIsInserted
<1> DEFINE n == Len(hooks)
           s == Sorted(p)
<1>2. /\ n \in Nat /\ k \in 0..n /\ DOMAIN hooks = 1..n /\ DOMAIN s = 1..(n + 1)
      /\ \A i \in 1..n : hooks[i] \in Plugins
      /\ \A i \in 1..n : Rank[hooks[i]] \in Nat
      /\ Rank[p] \in Nat
  BY <1>1, PluginAssumption DEF Handlers
<1>3. \A i \in 1..n : Rank[hooks[i]] <= Rank[p] <=> i <= k
  BY <1>1
<1>4. /\ \A i \in 1..k : s[i] = hooks[i]
      /\ s[k + 1] = p
      /\ \A i \in (k + 2)..(n + 1) : s[i] = hooks[i - 1] /\ i - 1 \in 1..n
  BY <1>1, <1>2
<1>5. \A i, j \in 1..n : i < j => Rank[hooks[i]] <= Rank[hooks[j]]
  BY <1>2 DEF Handlers, InRank
<1>6. s \in Seq(Plugins)
  BY <1>1
<1> HIDE DEF s, n
<1>7. InRank(s)
  <2> SUFFICES ASSUME NEW i \in 1..(n + 1), NEW j \in 1..(n + 1), i < j
               PROVE  Rank[s[i]] <= Rank[s[j]]
    BY <1>2 DEF InRank
  <2>1. CASE j <= k
    BY <2>1, <1>2, <1>4, <1>5
  <2>2. CASE j = k + 1
    <3>1. i \in 1..k /\ i \in 1..n
      BY <2>2, <1>2
    <3> QED BY <2>2, <3>1, <1>3, <1>4
  <2>3. CASE j > k + 1
    <3>1. j \in (k + 2)..(n + 1) /\ j - 1 \in 1..n /\ s[j] = hooks[j - 1]
      BY <2>3, <1>2, <1>4
    <3>2. CASE i <= k
      <4>1. i \in 1..n /\ s[i] = hooks[i] /\ i < j - 1
        BY <3>2, <2>3, <1>2, <1>4
      <4> QED BY <4>1, <3>1, <1>5
    <3>3. CASE i = k + 1
      <4>1. ~(Rank[hooks[j - 1]] <= Rank[p])
        BY <3>1, <2>3, <1>2, <1>3
      <4>2. Rank[hooks[j - 1]] \in Nat
        BY <3>1, <1>2
      <4>3. Rank[p] <= Rank[hooks[j - 1]]
        BY <4>1, <4>2, <1>2
      <4> QED BY <4>3, <3>1, <3>3, <1>4
    <3>4. CASE i > k + 1
      <4>1. s[i] = hooks[i - 1] /\ i - 1 \in 1..n /\ i - 1 < j - 1
        BY <3>4, <1>2, <1>4
      <4> QED BY <4>1, <3>1, <1>5
    <3> QED BY <3>2, <3>3, <3>4, <1>2
  <2> QED BY <2>1, <2>2, <2>3, <1>2
<1>8. ASSUME NEW i \in 1..(n + 1), i # k + 1
      PROVE  \E h \in 1..n : s[i] = hooks[h] /\ h = IF i <= k THEN i ELSE i - 1
  <2>1. CASE i <= k
    <3>1. i \in 1..n /\ s[i] = hooks[i]
      BY <2>1, <1>2, <1>4
    <3> QED BY <2>1, <3>1
  <2>2. CASE i > k
    <3>1. i \in (k + 2)..(n + 1)
      BY <2>2, <1>8, <1>2
    <3>2. i - 1 \in 1..n /\ s[i] = hooks[i - 1]
      BY <3>1, <1>4
    <3>3. ~(i <= k)
      BY <2>2, <1>2
    <3> QED BY <3>2, <3>3
  <2> QED BY <2>1, <2>2, <1>2
<1>9. k + 1 \in 1..(n + 1)
  BY <1>2
<1>10. ASSUME Nowhere(p, hooks) PROVE Once(p, s)
  <2>1. ASSUME NEW i \in 1..(n + 1), i # k + 1 PROVE s[i] # p
    BY <2>1, <1>8, <1>10, <1>2 DEF Nowhere
  <2> QED BY <2>1, <1>2, <1>4, <1>9 DEF Once
<1>11. ASSUME NEW q \in Plugins \ {p}, Nowhere(q, hooks) PROVE Nowhere(q, s)
  <2> SUFFICES ASSUME NEW i \in 1..(n + 1) PROVE s[i] # q
    BY <1>2 DEF Nowhere
  <2>1. CASE i = k + 1
    BY <2>1, <1>4
  <2>2. CASE i # k + 1
    BY <2>2, <1>8, <1>11, <1>2 DEF Nowhere
  <2> QED BY <2>1, <2>2
<1>12. ASSUME NEW q \in Plugins \ {p}, Once(q, hooks) PROVE Once(q, s)
  <2>1. PICK h \in 1..n : hooks[h] = q /\ \A j \in 1..n : hooks[j] = q => j = h
    BY <1>12, <1>2 DEF Once
  <2> DEFINE at == IF h <= k THEN h ELSE h + 1
  <2>2. at \in 1..(n + 1) /\ s[at] = q
    <3>1. CASE h <= k
      BY <3>1, <2>1, <1>2, <1>4
    <3>2. CASE h > k
      <4>1. at = h + 1 /\ h + 1 \in (k + 2)..(n + 1) /\ (h + 1) - 1 = h
        BY <3>2, <1>2
      <4>2. s[h + 1] = hooks[(h + 1) - 1]
        BY <4>1, <1>4
      <4> QED BY <4>1, <4>2, <2>1, <1>2
    <3> QED BY <3>1, <3>2, <1>2
  <2>3. ASSUME NEW j \in 1..(n + 1), s[j] = q PROVE j = at
    <3>1. j # k + 1
      BY <2>3, <1>4
    <3>2. PICK g \in 1..n : s[j] = hooks[g] /\ g = IF j <= k THEN j ELSE j - 1
      BY <3>1, <1>8
    <3>3. g = h
      BY <3>2, <2>1, <2>3
    <3> QED BY <3>1, <3>2, <3>3, <1>2
  <2> HIDE DEF at
  <2> QED BY <2>2, <2>3, <1>2 DEF Once
<1> QED BY <1>6, <1>7, <1>10, <1>11, <1>12 DEF s

\* The handlers that are kept are told apart by their places.
LEMMA WithoutKeeps ==
    ASSUME Handlers, NEW p \in Plugins
    PROVE  \E m \in Nat : \E place \in [1..m -> DOMAIN hooks] :
              /\ Without(p) = [n \in 1..m |-> hooks[place[n]]]
              /\ \A n \in 1..m : hooks[place[n]] # p
              /\ \A i \in DOMAIN hooks : hooks[i] # p => \E n \in 1..m : place[n] = i
              /\ \A n, l \in 1..m : n < l => place[n] < place[l]
<1> DEFINE kept == {i \in DOMAIN hooks : hooks[i] # p}
           m == Cardinality(kept)
           Upto(i) == {j \in kept : j <= i}
           Place(i) == Cardinality(Upto(i))
<1>1. DOMAIN hooks = 1..Len(hooks) /\ Len(hooks) \in Nat
  BY DEF Handlers
<1>2. IsFiniteSet(1..Len(hooks))
  BY PlacesCounted, <1>1
<1>3. kept \in SUBSET (1..Len(hooks))
  BY <1>1
<1>4. IsFiniteSet(kept)
  BY <1>2, <1>3, FS_Subset
<1>5. m \in Nat
  BY <1>4, FS_CardinalityType
<1>6. \A i \in kept : i \in Nat
  BY <1>1
<1>7. ASSUME NEW i PROVE IsFiniteSet(Upto(i)) /\ Place(i) <= m /\ Place(i) \in Nat
  <2>1. Upto(i) \in SUBSET kept
    OBVIOUS
  <2>2. IsFiniteSet(Upto(i)) /\ Place(i) <= m
    BY <2>1, <1>4, FS_Subset
  <2> QED BY <2>2, FS_CardinalityType
<1>8. ASSUME NEW i \in kept PROVE Place(i) \in 1..m
  <2>1. Upto(i) # {}
    <3>1. i \in Upto(i)
      BY <1>6
    <3> QED BY <3>1
  <2>2. Place(i) # 0
    BY <2>1, <1>7, FS_EmptySet
  <2>3. Place(i) \in Nat /\ Place(i) <= m
    BY <1>7
  <2> HIDE DEF Place, m
  <2> QED BY <2>2, <2>3, <1>5
<1>9. ASSUME NEW i \in kept, NEW j \in kept, i < j PROVE Place(i) < Place(j)
  <2>1. Upto(i) \in SUBSET (Upto(j) \ {j})
    BY <1>6, <1>9
  <2>2. j \in Upto(j)
    BY <1>6
  <2>3. IsFiniteSet(Upto(j) \ {j}) /\ Cardinality(Upto(j) \ {j}) = Place(j) - 1
    <3>1. IsFiniteSet(Upto(j))
      BY <1>7
    <3>2. /\ IsFiniteSet(Upto(j) \ {j})
          /\ Cardinality(Upto(j) \ {j}) =
                IF j \in Upto(j) THEN Cardinality(Upto(j)) - 1 ELSE Cardinality(Upto(j))
      <4> HIDE DEF Upto
      <4> QED BY <3>1, FS_RemoveElement
    <3> HIDE DEF Upto
    <3> QED BY <3>2, <2>2
  <2>4. Place(i) <= Cardinality(Upto(j) \ {j})
    BY <2>1, <2>3, FS_Subset
  <2>5. Place(i) \in Nat /\ Place(j) \in Nat
    BY <1>7
  <2> HIDE DEF Upto
  <2> QED BY <2>3, <2>4, <2>5
<1> DEFINE f == [i \in kept |-> Place(i)]
<1>10. f \in [kept -> 1..m]
  BY <1>8
<1>11. ASSUME NEW i \in kept, NEW j \in kept, f[i] = f[j] PROVE i = j
  <2>1. f[i] = Place(i) /\ f[j] = Place(j) /\ f[i] \in Nat
    BY <1>7
  <2>2. ~(i < j) /\ ~(j < i)
    <3>1. i < j => Place(i) < Place(j)
      BY <1>9
    <3>2. j < i => Place(j) < Place(i)
      BY <1>9
    <3>3. Place(i) = Place(j) /\ Place(i) \in Nat
      BY <2>1, <1>11
    <3> HIDE DEF f, Place, kept
    <3> QED BY <3>1, <3>2, <3>3
  <2> QED BY <2>2, <1>6
<1>12. IsFiniteSet(1..m) /\ Cardinality(1..m) = m
  BY <1>5, PlacesCounted
<1>13. f \in Injection(kept, 1..m)
  <2> HIDE DEF f, kept, m
  <2> QED BY <1>10, <1>11 DEF Injection, IsInjective
<1>14. f \in Surjection(kept, 1..m)
  <2>1. Cardinality(kept) = Cardinality(1..m)
    BY <1>12
  <2> HIDE DEF f, kept
  <2> QED BY <2>1, <1>12, <1>13, FS_Injection
<1>15. \A n \in 1..m : \E i \in kept : f[i] = n
  <2> HIDE DEF f, kept, m
  <2> QED BY <1>14 DEF Surjection
<1> DEFINE Where(n) == CHOOSE i \in kept : Place(i) = n
           place == [n \in 1..m |-> Where(n)]
<1>16. ASSUME NEW n \in 1..m PROVE Where(n) \in kept /\ Place(Where(n)) = n
  <2>1. \E i \in kept : Place(i) = n
    BY <1>15
  <2> HIDE DEF kept, Place, m
  <2> QED BY <2>1
<1>17. Without(p) = [n \in 1..m |-> hooks[place[n]]]
  <2>1. Without(p) = [n \in 1..m |-> hooks[Where(n)]]
    BY DEF Without
  <2> HIDE DEF Where, m
  <2> QED BY <2>1
<1> HIDE DEF Where
<1>18. \A n \in 1..m : place[n] \in kept /\ Place(place[n]) = n
  <2> HIDE DEF kept, Place, m
  <2> QED BY <1>16
<1>19. place \in [1..m -> DOMAIN hooks]
  <2>1. \A n \in 1..m : Where(n) \in DOMAIN hooks
    BY <1>16
  <2> HIDE DEF m
  <2> QED BY <2>1
<1>20. \A n \in 1..m : hooks[place[n]] # p
  <2> HIDE DEF place, m, Place
  <2> QED BY <1>18
<1>21. ASSUME NEW i \in DOMAIN hooks, hooks[i] # p PROVE \E n \in 1..m : place[n] = i
  <2>1. i \in kept
    BY <1>21
  <2>2. f[i] \in 1..m /\ f[i] = Place(i)
    BY <2>1, <1>8
  <2>3. place[f[i]] \in kept /\ Place(place[f[i]]) = f[i]
    <3> HIDE DEF f, place, m, Place, kept
    <3> QED BY <2>2, <1>18
  <2>4. f[place[f[i]]] = f[i]
    <3>1. \A j \in kept : f[j] = Place(j)
      OBVIOUS
    <3> HIDE DEF f, place, m, Place, kept
    <3> QED BY <3>1, <2>3
  <2>5. place[f[i]] = i
    <3> HIDE DEF f, place, m, Place, kept
    <3> QED BY <2>1, <2>3, <2>4, <1>11
  <2> HIDE DEF place, f, m
  <2> QED BY <2>2, <2>5
<1>22. ASSUME NEW n \in 1..m, NEW l \in 1..m, n < l PROVE place[n] < place[l]
  <2>1. place[n] \in kept /\ place[l] \in kept
        /\ Place(place[n]) = n /\ Place(place[l]) = l /\ n \in Nat /\ l \in Nat
    <3> HIDE DEF place, m, Place, kept
    <3> QED BY <1>18, <1>5
  <2>2. place[n] \in Nat /\ place[l] \in Nat
    <3> HIDE DEF place, m, Place, kept
    <3> QED BY <2>1, <1>6
  <2>3. place[n] # place[l]
    <3> HIDE DEF place, m, Place, kept
    <3> QED BY <2>1, <1>22
  <2>4. ~(place[l] < place[n])
    <3>1. place[l] < place[n] => Place(place[l]) < Place(place[n])
      <4> HIDE DEF place, m, Place, kept
      <4> QED BY <2>1, <1>9
    <3> HIDE DEF place, m, Place, kept
    <3> QED BY <3>1, <2>1, <1>22
  <2> HIDE DEF place, m, Place, kept
  <2> QED BY <2>2, <2>3, <2>4
<1> HIDE DEF m, place, kept, Place
<1> QED BY <1>5, <1>17, <1>19, <1>20, <1>21, <1>22

\* When a plugin's handlers are removed, those of the others stay, in their order.
LEMMA WithoutKeepsHandlers ==
    ASSUME Handlers, NEW p \in Plugins
    PROVE  /\ Without(p) \in Seq(Plugins) /\ InRank(Without(p))
           /\ Nowhere(p, Without(p))
           /\ \A q \in Plugins \ {p} : /\ Nowhere(q, hooks) => Nowhere(q, Without(p))
                                       /\ Once(q, hooks) => Once(q, Without(p))
<1>0. PICK m \in Nat : \E place \in [1..m -> DOMAIN hooks] :
         /\ Without(p) = [n \in 1..m |-> hooks[place[n]]]
         /\ \A n \in 1..m : hooks[place[n]] # p
         /\ \A i \in DOMAIN hooks : hooks[i] # p => \E n \in 1..m : place[n] = i
         /\ \A n, l \in 1..m : n < l => place[n] < place[l]
  BY WithoutKeeps
<1>1. PICK place \in [1..m -> DOMAIN hooks] :
         /\ Without(p) = [n \in 1..m |-> hooks[place[n]]]
         /\ \A n \in 1..m : hooks[place[n]] # p
         /\ \A i \in DOMAIN hooks : hooks[i] # p => \E n \in 1..m : place[n] = i
         /\ \A n, l \in 1..m : n < l => place[n] < place[l]
  BY <1>0
<1> DEFINE s == Without(p)
<1>2. DOMAIN s = 1..m /\ \A n \in 1..m : s[n] = hooks[place[n]] /\ place[n] \in DOMAIN hooks
  BY <1>1
<1>3. s \in Seq(Plugins)
  <2>1. \A n \in 1..m : hooks[place[n]] \in Plugins
    BY <1>2 DEF Handlers
  <2> QED BY <2>1, <1>1
<1>4. \A n, l \in 1..m : n < l => place[n] < place[l]
  BY <1>1
<1> HIDE DEF s
<1>5. InRank(s)
  <2> SUFFICES ASSUME NEW i \in 1..m, NEW j \in 1..m, i < j PROVE Rank[s[i]] <= Rank[s[j]]
    BY <1>2 DEF InRank
  <2>1. place[i] < place[j]
    BY <1>4
  <2> QED BY <2>1, <1>2 DEF Handlers, InRank
<1>6. Nowhere(p, s)
  BY <1>1, <1>2 DEF Nowhere
<1>7. ASSUME NEW q \in Plugins \ {p}, Nowhere(q, hooks) PROVE Nowhere(q, s)
  BY <1>7, <1>2 DEF Nowhere
<1>8. ASSUME NEW q \in Plugins \ {p}, Once(q, hooks) PROVE Once(q, s)
  <2>1. PICK h \in DOMAIN hooks : hooks[h] = q /\ \A j \in DOMAIN hooks : hooks[j] = q => j = h
    BY <1>8 DEF Once
  <2>2. PICK n \in 1..m : place[n] = h
    BY <2>1, <1>1
  <2>3. s[n] = q
    BY <2>1, <2>2, <1>2
  <2>4. ASSUME NEW l \in 1..m, s[l] = q PROVE l = n
    <3>1. place[l] = h
      BY <2>1, <2>4, <1>2
    <3>2. ~(l < n) /\ ~(n < l)
      <4>1. h \in Nat
        BY DEF Handlers
      <4> QED BY <3>1, <2>2, <1>4, <4>1
    <3> QED BY <3>2
  <2> QED BY <2>3, <2>4, <1>2 DEF Once
<1> QED BY <1>3, <1>5, <1>6, <1>7, <1>8 DEF s

----------------------------------------------------------------------------
(* The events, through what is done to the list they walk.                  *)

\* An event whose list is another than the one it found has been grown or left behind.
LEMMA RegisterEffect ==
    ASSUME Types, Handlers, Walks, NEW p \in Plugins, Register(p)
    PROVE  /\ Handlers' /\ event' \in [Events -> EventRecords] /\ Walks'
           /\ p # Engine /\ Nowhere(p, hooks) => Once(p, hooks')
           /\ \A q \in Plugins \ {p} : /\ Nowhere(q, hooks) => Nowhere(q, hooks')
                                       /\ Once(q, hooks) => Once(q, hooks')
<1>1. CASE p = Engine
  BY <1>1 DEF Register, Handlers, Types, Walks, Walking, Walked, InRank
<1>2. CASE p # Engine
  <2>1. hooks' = Sorted(p) /\ event' = [x \in Events |-> Grown(x)]
    BY <1>2 DEF Register
  <2>2. Handlers'
    BY <2>1, SortedKeepsHandlers DEF Handlers, InRank
  <2>3. ASSUME NEW x \in Events
        PROVE  /\ event'[x] \in EventRecords
               /\ event'[x].at = event[x].at /\ (event'[x].live <=> event[x].live)
               /\ event'[x].list = event[x].list /\ event'[x].next = event[x].next
               /\ event'[x].first = event[x].first /\ event'[x].ran = event[x].ran
               /\ event[x].grown => event'[x].grown
               /\ event[x].at = "running" /\ event[x].live => event'[x].grown
    <3>1. event[x] \in EventRecords /\ event'[x] = Grown(x)
      BY <2>1 DEF Types
    <3>2. CASE event[x].at = "running" /\ event[x].live
      <4> DEFINE r == event'[x]
                 e == event[x]
                 yes == TRUE
      <4>1. r = [e EXCEPT !.grown = yes] /\ yes \in BOOLEAN /\ yes
        BY <3>1, <3>2 DEF Grown
      <4>2. e \in EventRecords
        BY <3>1
      <4> HIDE DEF r, e, yes
      <4>3. r \in EventRecords
        BY <4>1, <4>2 DEF EventRecords
      <4>4. /\ r.at = e.at /\ r.live = e.live /\ r.list = e.list /\ r.next = e.next
            /\ r.first = e.first /\ r.ran = e.ran /\ r.grown = yes
        BY <4>1, <4>2 DEF EventRecords
      <4>5. r.grown /\ (r.live <=> e.live)
        BY <4>1, <4>4
      <4> QED BY <4>3, <4>4, <4>5 DEF r, e
    <3>3. CASE ~(event[x].at = "running" /\ event[x].live)
      BY <3>1, <3>3 DEF Grown
    <3> QED BY <3>2, <3>3
  <2>4. event' \in [Events -> EventRecords]
    <3>1. event' = [x \in Events |-> event'[x]]
      BY <2>1
    <3> QED BY <3>1, <2>3
  <2>5. ASSUME NEW x \in Events PROVE Walking(x, Walked(x))'
    <3> SUFFICES ASSUME ~event'[x].grown
                 PROVE  Walking(x, Walked(x))'
      BY DEF Walking
    <3>1. ~event[x].grown /\ ~(event[x].at = "running" /\ event[x].live)
      BY <2>3
    <3>2. Walking(x, Walked(x))
      BY DEF Walks
    <3>3. event[x].at = "running" => event[x].list = event[x].first
      BY <3>1, <3>2 DEF Walking, Walked
    <3>4. event'[x].at = "running" => Walked(x)' = event'[x].first
      BY <3>1, <3>3, <2>3 DEF Walked
    <3> QED BY <3>1, <3>2, <3>4, <2>3 DEF Walking
  <2>6. ASSUME NEW x \in Events
        PROVE  Meets(event[x].at, event[x].next, event[x].ran, event[x].first, Walked(x)')
    <3>1. Meets(event[x].at, event[x].next, event[x].ran, event[x].first, Walked(x))
      BY DEF Walks
    <3>2. CASE event[x].at = "running" /\ event[x].live
      <4>1. Walked(x) = hooks /\ Walked(x)' = Sorted(p)
        BY <3>2, <2>1, <2>3 DEF Walked
      <4>2. \E f \in [DOMAIN event[x].first -> Nat] :
               Leads(f, event[x].next, event[x].ran, event[x].first, hooks)
        BY <3>1, <3>2, <4>1 DEF Meets
      <4>3. event[x].next = Len(event[x].ran) + 1
        BY <3>1, <3>2 DEF Meets
      <4>4. event[x].ran \in Seq(Plugins) /\ event[x].first \in Seq(Plugins)
        BY DEF Types, EventRecords
      <4>5. PICK k \in 0..Len(hooks) :
               /\ Sorted(p) \in Seq(Plugins) /\ Len(Sorted(p)) = Len(hooks) + 1
               /\ \A i \in 1..(Len(hooks) + 1) : Sorted(p)[i] =
                     IF i <= k THEN hooks[i] ELSE IF i = k + 1 THEN p ELSE hooks[i - 1]
        BY SortedIsInserted
      <4>6. hooks \in Seq(Plugins)
        BY DEF Handlers
      <4>7. \E g \in [DOMAIN event[x].first -> Nat] :
               Leads(g, event[x].next, event[x].ran, event[x].first, Sorted(p))
        <5> DEFINE longer == Sorted(p)
                   ran == event[x].ran
                   first == event[x].first
                   next == event[x].next
        <5>1. longer \in Seq(Plugins) /\ PutBehind(longer, hooks, k, p)
          BY <4>5 DEF PutBehind
        <5>2. /\ next = Len(ran) + 1 /\ ran \in Seq(Plugins) /\ first \in Seq(Plugins)
              /\ \E f \in [DOMAIN first -> Nat] : Leads(f, next, ran, first, hooks)
          BY <4>2, <4>3, <4>4
        <5> HIDE DEF longer, ran, first, next
        <5>3. \E g \in [DOMAIN first -> Nat] : Leads(g, next, ran, first, longer)
          BY <5>1, <5>2, <4>6, LeadsInserted
        <5> QED BY <5>3 DEF longer, ran, first, next
      <4> QED BY <3>2, <4>1, <4>3, <4>7 DEF Meets
    <3>3. CASE ~(event[x].at = "running" /\ event[x].live)
      <4>1. event[x].at = "running" => Walked(x)' = Walked(x)
        BY <3>3, <2>3 DEF Walked
      <4> QED BY <3>1, <4>1 DEF Meets
    <3> QED BY <3>2, <3>3
  <2>7. Walks'
    BY <2>3, <2>5, <2>6 DEF Walks
  <2> QED BY <2>1, <2>2, <2>4, <2>7, SortedKeepsHandlers
<1> QED BY <1>1, <1>2

\* Those who walk a list from which a plugin is removed keep the list they walk.
LEMMA UnregisterEffect ==
    ASSUME Types, Handlers, Walks, NEW p \in Plugins, UnregisterPlugin(p)
    PROVE  /\ Handlers' /\ event' \in [Events -> EventRecords] /\ Walks'
           /\ Nowhere(p, hooks')
           /\ \A q \in Plugins \ {p} : /\ Nowhere(q, hooks) => Nowhere(q, hooks')
                                       /\ Once(q, hooks) => Once(q, hooks')
<1>1. CASE p \notin Range(hooks)
  <2>1. UNCHANGED <<hooks, event>>
    BY <1>1 DEF UnregisterPlugin
  <2>2. Nowhere(p, hooks)
    BY <1>1 DEF Nowhere, Range
  <2> QED BY <2>1, <2>2 DEF Handlers, Types, Walks, Walking, Walked, InRank
<1>2. CASE p \in Range(hooks)
  <2>1. hooks' = Without(p) /\ event' = [x \in Events |-> Left(x)]
    BY <1>2 DEF UnregisterPlugin
  <2>2. Handlers'
    BY <2>1, WithoutKeepsHandlers DEF Handlers, InRank
  <2>3. ASSUME NEW x \in Events
        PROVE  /\ event'[x] \in EventRecords
               /\ event'[x].at = event[x].at /\ (event'[x].grown <=> event[x].grown)
               /\ event'[x].next = event[x].next
               /\ event'[x].first = event[x].first /\ event'[x].ran = event[x].ran
               /\ event[x].at = "running" => Walked(x)' = Walked(x)
    <3>1. event[x] \in EventRecords /\ event'[x] = Left(x)
      BY <2>1 DEF Types
    <3>2. CASE event[x].at = "running" /\ event[x].live
      <4> DEFINE r == event'[x]
                 e == event[x]
                 no == FALSE
                 mid == [e EXCEPT !.live = no]
      <4>1. r = [mid EXCEPT !.list = hooks] /\ no \in BOOLEAN /\ ~no
        BY <3>1, <3>2 DEF Left
      <4>2. e \in EventRecords /\ hooks \in Seq(Plugins)
        BY <3>1 DEF Handlers
      <4> HIDE DEF r, e, no
      <4>3. /\ mid \in EventRecords /\ mid.live = no
            /\ mid.at = e.at /\ mid.grown = e.grown /\ mid.next = e.next
            /\ mid.first = e.first /\ mid.ran = e.ran
        BY <4>1, <4>2 DEF EventRecords
      <4> HIDE DEF mid
      <4>4. /\ r \in EventRecords /\ r.live = no /\ r.list = hooks
            /\ r.at = e.at /\ r.grown = e.grown /\ r.next = e.next
            /\ r.first = e.first /\ r.ran = e.ran
        BY <4>1, <4>2, <4>3 DEF EventRecords
      <4>5. ~r.live /\ (r.grown <=> e.grown)
        BY <4>1, <4>4
      <4>6. Walked(x)' = r.list
        BY <4>5 DEF Walked, r
      <4>7. Walked(x) = hooks
        BY <3>2 DEF Walked
      <4> QED BY <4>4, <4>5, <4>6, <4>7 DEF r, e
    <3>3. CASE ~(event[x].at = "running" /\ event[x].live)
      <4>1. event'[x] = event[x]
        BY <3>1, <3>3 DEF Left
      <4>2. event[x].at = "running" => Walked(x)' = Walked(x)
        BY <4>1, <3>3 DEF Walked
      <4> QED BY <4>1, <4>2, <3>1
    <3> QED BY <3>2, <3>3
  <2>4. event' \in [Events -> EventRecords]
    <3>1. event' = [x \in Events |-> event'[x]]
      BY <2>1
    <3> QED BY <3>1, <2>3
  <2>5. Walks'
    <3>1. ASSUME NEW x \in Events PROVE Walking(x, Walked(x))'
      <4>1. Walking(x, Walked(x))
        BY DEF Walks
      <4> QED BY <4>1, <2>3 DEF Walking
    <3>2. ASSUME NEW x \in Events
          PROVE  Meets(event[x].at, event[x].next, event[x].ran, event[x].first, Walked(x)')
      <4>1. Meets(event[x].at, event[x].next, event[x].ran, event[x].first, Walked(x))
        BY DEF Walks
      <4> QED BY <4>1, <2>3 DEF Meets
    <3> QED BY <3>1, <3>2, <2>3 DEF Walks
  <2> QED BY <2>1, <2>2, <2>4, <2>5, WithoutKeepsHandlers
<1> QED BY <1>1, <1>2

\* An event finds the handlers there are when it comes.
LEMMA EmitWalks ==
    ASSUME Types, Handlers, Walks, NEW x \in Events, Emit(x)
    PROVE  event' \in [Events -> EventRecords] /\ Walks'
<1> DEFINE place == IF hooks = <<>> THEN "passed" ELSE "running"
           yes == TRUE
           no == FALSE
           r == [at |-> place, live |-> yes, list |-> <<>>, next |-> 1, grown |-> no,
                 first |-> hooks, ran |-> <<>>]
<1>1. event' = [event EXCEPT ![x] = r] /\ UNCHANGED hooks
  <2> DEFINE mid == [NoEvent EXCEPT !.at = place]
  <2>1. event' = [event EXCEPT ![x] = [NoEvent EXCEPT !.at = place, !.first = hooks]]
        /\ UNCHANGED hooks
    BY DEF Emit
  <2>2. NoEvent = [at |-> "before", live |-> yes, list |-> <<>>, next |-> 1, grown |-> no,
                   first |-> <<>>, ran |-> <<>>]
    BY DEF NoEvent
  <2> HIDE DEF place, yes, no
  <2>3. mid = [at |-> place, live |-> yes, list |-> <<>>, next |-> 1, grown |-> no,
               first |-> <<>>, ran |-> <<>>]
    BY <2>2
  <2>4. [NoEvent EXCEPT !.at = place, !.first = hooks] = [mid EXCEPT !.first = hooks]
    OBVIOUS
  <2> HIDE DEF mid
  <2>5. [mid EXCEPT !.first = hooks] = r
    BY <2>3
  <2> HIDE DEF r
  <2> QED BY <2>1, <2>4, <2>5
<1>2. /\ place \in {"passed", "running"} /\ (place = "passed" => hooks = <<>>)
      /\ yes \in BOOLEAN /\ no \in BOOLEAN /\ yes /\ hooks \in Seq(Plugins)
  BY DEF Handlers
<1>3. event \in [Events -> EventRecords]
  BY DEF Types
<1> HIDE DEF place, yes, no
<1>4. r \in EventRecords
  BY <1>2 DEF EventRecords
<1>5. /\ r.at = place /\ r.live = yes /\ r.next = 1 /\ r.first = hooks /\ r.ran = <<>>
  OBVIOUS
<1> HIDE DEF r
<1>6. /\ event' \in [Events -> EventRecords] /\ event'[x] = r
      /\ \A y \in Events \ {x} : event'[y] = event[y]
  BY <1>1, <1>3, <1>4
<1>7. ASSUME NEW y \in Events PROVE Walking(y, Walked(y))'
  <2>1. CASE y # x
    <3>1. Walking(y, Walked(y)) /\ event'[y] = event[y] /\ hooks' = hooks
      BY <2>1, <1>1, <1>6 DEF Walks
    <3>2. Walked(y)' = Walked(y)
      BY <3>1 DEF Walked
    <3> QED BY <3>1, <3>2 DEF Walking
  <2>2. CASE y = x
    <3>1. event'[y] = r /\ event'[y].live
      BY <2>2, <1>2, <1>5, <1>6
    <3>2. Walked(y)' = hooks
      BY <3>1, <1>1 DEF Walked
    <3>3. Len(<<>>) = 0 /\ Len(hooks) \in Nat
      BY <1>2
    <3> QED BY <3>1, <3>2, <3>3, <1>2, <1>5 DEF Walking
  <2> QED BY <2>1, <2>2
<1>8. ASSUME NEW y \in Events
      PROVE  Meets(event'[y].at, event'[y].next, event'[y].ran, event'[y].first, Walked(y)')
  <2>1. CASE y # x
    <3>1. event'[y] = event[y] /\ hooks' = hooks
      BY <2>1, <1>1, <1>6
    <3>2. Walked(y)' = Walked(y)
      BY <3>1 DEF Walked
    <3>3. Meets(event[y].at, event[y].next, event[y].ran, event[y].first, Walked(y))
      BY DEF Walks
    <3> QED BY <3>1, <3>2, <3>3
  <2>2. CASE y = x
    <3>1. event'[y] = r /\ event'[y].live
      BY <2>2, <1>2, <1>5, <1>6
    <3>2. Walked(y)' = hooks
      BY <3>1, <1>1 DEF Walked
    <3>3. Len(<<>>) = 0
      OBVIOUS
    <3>4. \E f \in [DOMAIN hooks -> Nat] : Leads(f, 1, <<>>, hooks, hooks)
      BY <1>2, LeadsFromStart
    <3>5. Meets(place, 1, <<>>, hooks, hooks)
      BY <3>3, <3>4, <1>2, EmptyIsWithin DEF Meets
    <3> QED BY <3>1, <3>2, <3>5, <1>5
  <2> QED BY <2>1, <2>2
<1> QED BY <1>6, <1>7, <1>8 DEF Walks

\* An event goes on by one handler, or ends after the last.
LEMMA ExecuteWalks ==
    ASSUME Types, Handlers, Walks, NEW x \in Events, Execute(x)
    PROVE  event' \in [Events -> EventRecords] /\ Walks'
<1> DEFINE e == event[x]
<1>1. /\ event \in [Events -> EventRecords] /\ e \in EventRecords
      /\ e.at = "running" /\ hooks' = hooks /\ hooks \in Seq(Plugins)
  BY DEF Types, Execute, Handlers
<1>2. Walking(x, Walked(x))
  BY DEF Walks
<1>3. Walked(x) \in Seq(Plugins)
  BY <1>1 DEF Walked, EventRecords
<1>4. e.next \in Nat \ {0} /\ e.ran \in Seq(Plugins) /\ e.first \in Seq(Plugins)
  BY <1>1 DEF EventRecords
<1>5. ASSUME NEW r \in EventRecords, event' = [event EXCEPT ![x] = r],
             r.live <=> e.live, r.list = e.list, r.grown <=> e.grown, r.first = e.first,
             ~e.grown =>
                /\ r.next = Len(r.ran) + 1 /\ Len(r.ran) <= Len(r.first)
                /\ \A i \in 1..Len(r.ran) : r.ran[i] = r.first[i]
                /\ r.at = "passed" => Len(r.ran) = Len(r.first),
             Meets(r.at, r.next, r.ran, r.first, Walked(x))
      PROVE  event' \in [Events -> EventRecords] /\ Walks'
  <2>1. /\ event' \in [Events -> EventRecords] /\ event'[x] = r
        /\ \A y \in Events \ {x} : event'[y] = event[y]
    BY <1>1, <1>5
  <2>2. ASSUME NEW y \in Events PROVE Walking(y, Walked(y))'
    <3>1. CASE y # x
      <4>1. Walking(y, Walked(y)) /\ event'[y] = event[y] /\ hooks' = hooks
        BY <3>1, <2>1, <1>1 DEF Walks
      <4>2. Walked(y)' = Walked(y)
        BY <4>1 DEF Walked
      <4> QED BY <4>1, <4>2 DEF Walking
    <3>2. CASE y = x
      <4>1. event'[y] = r
        BY <3>2, <2>1
      <4>2. Walked(y)' = Walked(x)
        BY <4>1, <3>2, <1>1, <1>5 DEF Walked
      <4>3. ~e.grown => Walked(x) = e.first
        BY <1>1, <1>2 DEF Walking
      <4> QED BY <4>1, <4>2, <4>3, <1>5 DEF Walking
    <3> QED BY <3>1, <3>2
  <2>3. ASSUME NEW y \in Events
        PROVE  Meets(event'[y].at, event'[y].next, event'[y].ran, event'[y].first, Walked(y)')
    <3>1. CASE y # x
      <4>1. event'[y] = event[y] /\ hooks' = hooks
        BY <3>1, <2>1, <1>1
      <4>2. Walked(y)' = Walked(y)
        BY <4>1 DEF Walked
      <4>3. Meets(event[y].at, event[y].next, event[y].ran, event[y].first, Walked(y))
        BY DEF Walks
      <4> QED BY <4>1, <4>2, <4>3
    <3>2. CASE y = x
      <4>1. event'[y] = r
        BY <3>2, <2>1
      <4>2. Walked(y)' = Walked(x)
        BY <4>1, <3>2, <1>1, <1>5 DEF Walked
      <4> QED BY <4>1, <4>2, <1>5
    <3> QED BY <3>1, <3>2
  <2> QED BY <2>1, <2>2, <2>3 DEF Walks
<1>6. /\ e.next = Len(e.ran) + 1
      /\ \E f \in [DOMAIN e.first -> Nat] : Leads(f, e.next, e.ran, e.first, Walked(x))
  <2>1. Meets(e.at, e.next, e.ran, e.first, Walked(x))
    BY DEF Walks
  <2> QED BY <2>1, <1>1 DEF Meets
<1>7. CASE e.next > Len(Walked(x))
  <2> DEFINE r == [e EXCEPT !.at = "passed"]
  <2>1. event' = [event EXCEPT ![x] = r]
    BY <1>7, <1>1 DEF Execute
  <2>2. r \in EventRecords
    BY <1>1 DEF EventRecords
  <2>3. /\ r.live = e.live /\ r.list = e.list /\ r.grown = e.grown /\ r.first = e.first
        /\ r.next = e.next /\ r.ran = e.ran
    BY <1>1 DEF EventRecords
  <2>4. ~e.grown =>
           /\ e.next = Len(e.ran) + 1 /\ Len(e.ran) <= Len(e.first)
           /\ \A i \in 1..Len(e.ran) : e.ran[i] = e.first[i]
           /\ Walked(x) = e.first
    BY <1>1, <1>2 DEF Walking
  <2>5. ~e.grown => Len(e.ran) = Len(e.first)
    <3>1. Len(e.ran) \in Nat /\ Len(e.first) \in Nat
      BY <1>4
    <3> HIDE DEF e
    <3> QED BY <3>1, <2>4, <1>7
  <2>6. (r.live <=> e.live) /\ (r.grown <=> e.grown)
    BY <2>3
  <2>7. r.at = "passed"
    BY <1>1 DEF EventRecords
  <2> HIDE DEF r, e
  <2>8. IsWithin(e.first, e.ran)
    BY <1>3, <1>4, <1>7, <1>6, LeadsToEnd
  <2>9. Meets(r.at, r.next, r.ran, r.first, Walked(x))
    BY <2>3, <2>7, <2>8 DEF Meets
  <2> QED BY <2>1, <2>2, <2>3, <2>4, <2>5, <2>6, <2>9, <1>5
<1>8. CASE ~(e.next > Len(Walked(x)))
  <2>1. PICK result \in {"continue", "stop", "throw"} :
           event' = [event EXCEPT ![x].next = @ + 1,
                                  ![x].ran = Append(@, Walked(x)[event[x].next]),
                                  ![x].at = IF result = "stop" THEN "stopped" ELSE @]
    BY <1>8 DEF Execute
  <2> DEFINE h == Walked(x)[e.next]
             more == e.next + 1
             longer == Append(e.ran, h)
             place == IF result = "stop" THEN "stopped" ELSE e.at
             r1 == [e EXCEPT !.next = more]
             r2 == [r1 EXCEPT !.ran = longer]
             r == [r2 EXCEPT !.at = place]
  <2>2. Len(Walked(x)) \in Nat /\ e.next \in 1..Len(Walked(x)) /\ h \in Plugins
    <3>1. Len(Walked(x)) \in Nat
      BY <1>3
    <3>2. e.next \in 1..Len(Walked(x))
      BY <3>1, <1>4, <1>8
    <3> QED BY <3>1, <3>2, <1>3
  <2>3. /\ more \in Nat \ {0} /\ more = e.next + 1
        /\ place \in {"running", "stopped"}
    BY <1>1, <1>4
  <2>4. /\ longer \in Seq(Plugins) /\ Len(longer) = Len(e.ran) + 1
        /\ \A i \in 1..Len(e.ran) : longer[i] = e.ran[i]
        /\ longer[Len(e.ran) + 1] = h /\ Len(e.ran) \in Nat
    <3> HIDE DEF h
    <3> QED BY <2>2, <1>4
  <2>5. event' = [event EXCEPT ![x] = r]
    <3>1. e = event[x]
      OBVIOUS
    <3>2. r1.ran = e.ran /\ r2.at = e.at
      BY <1>1 DEF EventRecords
    <3>3. event' = [event EXCEPT ![x].next = more, ![x].ran = longer, ![x].at = place]
      BY <2>1
    <3> HIDE DEF more, longer, place
    <3> QED BY <3>3, <1>1
  <2> HIDE DEF h, more, longer, place
  <2>6. /\ r1 \in EventRecords /\ r1.next = more /\ r1.at = e.at /\ r1.live = e.live
        /\ r1.list = e.list /\ r1.grown = e.grown /\ r1.first = e.first
    BY <1>1, <2>3 DEF EventRecords
  <2> HIDE DEF r1
  <2>7. /\ r2 \in EventRecords /\ r2.next = more /\ r2.ran = longer /\ r2.live = e.live
        /\ r2.list = e.list /\ r2.grown = e.grown /\ r2.first = e.first
    BY <2>4, <2>6 DEF EventRecords
  <2> HIDE DEF r2
  <2>8. /\ r \in EventRecords /\ r.at = place /\ r.next = more /\ r.ran = longer
        /\ r.live = e.live /\ r.list = e.list /\ r.grown = e.grown /\ r.first = e.first
    BY <2>3, <2>7 DEF EventRecords
  <2>9. ~e.grown =>
           /\ r.next = Len(r.ran) + 1 /\ Len(r.ran) <= Len(r.first)
           /\ \A i \in 1..Len(r.ran) : r.ran[i] = r.first[i]
    <3> HAVE ~e.grown
    <3>1. /\ e.next = Len(e.ran) + 1 /\ Walked(x) = e.first
          /\ \A i \in 1..Len(e.ran) : e.ran[i] = e.first[i]
      BY <1>1, <1>2 DEF Walking
    <3>2. h = e.first[Len(e.ran) + 1]
      BY <3>1 DEF h
    <3>3. Len(r.ran) = Len(e.ran) + 1 /\ r.next = Len(r.ran) + 1 /\ Len(r.ran) <= Len(r.first)
      BY <3>1, <2>2, <2>3, <2>4, <2>8
    <3>4. ASSUME NEW i \in 1..Len(r.ran) PROVE r.ran[i] = r.first[i]
      <4> HIDE DEF r, e
      <4>1. CASE i = Len(e.ran) + 1
        BY <4>1, <3>2, <2>4, <2>8
      <4>2. CASE i # Len(e.ran) + 1
        <5>1. i \in 1..Len(e.ran)
          BY <4>2, <3>3, <2>4
        <5> QED BY <5>1, <3>1, <2>4, <2>8
      <4> QED BY <4>1, <4>2
    <3> QED BY <3>3, <3>4
  <2>10. r.at # "passed"
    BY <2>3, <2>8
  <2>11. (r.live <=> e.live) /\ (r.grown <=> e.grown)
    BY <2>8
  <2> HIDE DEF r, e
  <2>12. Meets(r.at, r.next, r.ran, r.first, Walked(x))
    <3>1. PICK f \in [DOMAIN e.first -> Nat] : Leads(f, e.next, e.ran, e.first, Walked(x))
      BY <1>6
    <3>2. longer[e.next] = Walked(x)[e.next]
      BY <2>4, <1>6 DEF h
    <3>3. Leads(f, e.next + 1, longer, e.first, Walked(x))
      BY <3>1, <3>2, <2>4, <1>3, <1>4, <1>6, LeadsOn
    <3>4. r.next = Len(r.ran) + 1
      BY <2>3, <2>4, <2>8, <1>6
    <3> QED BY <3>1, <3>3, <3>4, <2>3, <2>8, <2>10 DEF Meets
  <2> QED BY <2>5, <2>8, <2>9, <2>10, <2>11, <2>12, <1>5
<1> QED BY <1>7, <1>8

----------------------------------------------------------------------------
(* The calls.                                                               *)

\* What is used up of the bounds.
LEMMA UseEffect ==
    Types => /\ used.calls < MaxCalls /\ Use("calls") =>
                  used' \in UsedRecords /\ used'.configs = used.configs
             /\ used.throws < MaxThrows /\ Use("throws") =>
                  used' \in UsedRecords /\ used'.configs = used.configs
             /\ used.restarts < MaxRestarts /\ Use("restarts") =>
                  used' \in UsedRecords /\ used'.configs = used.configs
             /\ used.configs < MaxConfigs /\ Use("configs") =>
                  used' \in UsedRecords /\ used'.configs = used.configs + 1
BY PluginAssumption DEF Types, Use, UsedRecords

\* The types of plugins and entries depend on the number of changes only.
LEMMA NumbersKept ==
    ASSUME used'.configs = used.configs
    PROVE  Plugs' = Plugs /\ Files' = Files
BY DEF Plugs, Files, Numbers

\* A status is set: nothing else of the plugin changes, and nothing of the others.
LEMMA StatusSet ==
    ASSUME Types, NEW p \in Plugins, NEW status \in Statuses,
           plugin' = [plugin EXCEPT ![p].status = status]
    PROVE  /\ plugin' \in [Plugins -> Plugs]
           /\ \A q \in Plugins \ {p} : plugin'[q] = plugin[q]
           /\ plugin'[p].status = status /\ (plugin'[p].loaded <=> plugin[p].loaded)
           /\ plugin'[p].config = plugin[p].config /\ plugin'[p].given = plugin[p].given
BY DEF Types, Plugs

\* The registry file keeps its shape, whether or not the plugin has an entry.
LEMMA PersistTypes ==
    ASSUME Types, NEW p \in Plugins, NEW e \in Files, Persist(p, e)
    PROVE  entry' \in [Plugins -> Files]
BY DEF Types, Persist

\* A status is set in memory and in the file.
LEMMA BecomesEffect ==
    ASSUME Types, NEW p \in Plugins, NEW status \in Statuses, Becomes(p, status)
    PROVE  /\ plugin' \in [Plugins -> Plugs] /\ entry' \in [Plugins -> Files]
           /\ \A q \in Plugins \ {p} : plugin'[q] = plugin[q]
           /\ plugin'[p].status = status /\ (plugin'[p].loaded <=> plugin[p].loaded)
           /\ plugin'[p].config = plugin[p].config /\ plugin'[p].given = plugin[p].given
<1>1. plugin' = [plugin EXCEPT ![p].status = status]
      /\ Persist(p, [entry[p] EXCEPT !.status = status])
  BY DEF Becomes
<1>2. [entry[p] EXCEPT !.status = status] \in Files
  BY DEF Types, Files
<1>3. entry' \in [Plugins -> Files]
  BY <1>1, <1>2, PersistTypes
<1> QED BY <1>1, <1>3, StatusSet

\* A call is set, and the others are as they were.
LEMMA CallSet ==
    ASSUME Types, NEW c \in Calls, NEW r \in CallRecords, call' = [call EXCEPT ![c] = r]
    PROVE  /\ call' \in [Calls -> CallRecords] /\ call'[c] = r
           /\ \A d \in Calls \ {c} : call'[d] = call[d]
BY DEF Types

\* A call is answered.
LEMMA DoneEffect ==
    ASSUME Types, NEW c \in Calls, Done(c)
    PROVE  /\ call' \in [Calls -> CallRecords] /\ call'[c].at = "idle"
           /\ \A d \in Calls \ {c} : call'[d] = call[d]
<1>1. NoCall \in CallRecords /\ NoCall.at = "idle"
  BY PluginAssumption DEF NoCall, CallRecords
<1>2. call' = [call EXCEPT ![c] = NoCall]
  BY DEF Done
<1> QED BY <1>1, <1>2, CallSet

\* A plugin is as good as before when nothing that is about it has changed.
LEMMA OthersStay ==
    ASSUME NEW q \in Plugins, Good(q), plugin'[q] = plugin[q],
           \A d \in Calls : Works(d, q)' <=> Works(d, q),
           \A d \in Calls : Works(d, q) => call'[d] = call[d],
           Nowhere(q, hooks) => Nowhere(q, hooks'), Once(q, hooks) => Once(q, hooks'),
           q \in overlapped => q \in overlapped', q \in threw => q \in threw'
    PROVE  Good(q)'
<1>1. Busy(q)' <=> Busy(q)
  BY DEF Busy, Works
<1>2. IsSilent(q)'
  BY <1>1 DEF Good, IsSilent
<1>3. IsLoaded(q)'
  BY DEF Good, IsLoaded
<1>4. q \notin overlapped' => OneWorks(q)'
  BY DEF Good, OneWorks
<1>5. (q \in Orderly)' => Follows(q)'
  <2> SUFFICES ASSUME (q \in Orderly)' PROVE Follows(q)'
    OBVIOUS
  <2>1. Follows(q)
    BY DEF Good, Orderly
  <2>2. ASSUME NEW d \in Calls, Works(d, q)' PROVE AtStage(d, q)'
    <3>1. AtStage(d, q) /\ call'[d] = call[d]
      BY <2>1, <2>2 DEF Follows
    <3> QED BY <3>1 DEF AtStage
  <2>3. ~Busy(q)' => AtRest(q)'
    BY <2>1, <1>1 DEF Follows, AtRest
  <2> QED BY <2>2, <2>3 DEF Follows
<1>6. q \in Listens \ overlapped' => IsGiven(q)'
  BY <1>1 DEF Good, IsGiven
<1> QED BY <1>2, <1>3, <1>4, <1>5, <1>6 DEF Good

\* Handlers and events that do not change.
LEMMA HooksStay ==
    ASSUME Types, Handlers, Walks, UNCHANGED <<hooks, event>>
    PROVE  /\ Handlers' /\ event' \in [Events -> EventRecords] /\ Walks'
           /\ \A q : /\ Nowhere(q, hooks) => Nowhere(q, hooks')
                     /\ Once(q, hooks) => Once(q, hooks')
BY DEF Types, Handlers, Walks, Walking, Walked, InRank

\* Calls that work on one plugin, when call c alone has changed and is, or was, about p.
LEMMA OtherWorkers ==
    ASSUME Types, NEW p \in Plugins, NEW c \in Calls,
           call[c].at # "idle" => call[c].of = p,
           call'[c].at # "idle" => call'[c].of = p,
           \A d \in Calls \ {c} : call'[d] = call[d]
    PROVE  \A q \in Plugins \ {p} : \A d \in Calls :
              (Works(d, q)' <=> Works(d, q)) /\ (Works(d, q) => call'[d] = call[d])
BY DEF Works

----------------------------------------------------------------------------
(* Every step keeps the invariant: the asking.                              *)

\* A call that begins to disable a plugin.
LEMMA AskToDisable ==
    ASSUME IInv, NEW c \in Calls, NEW p \in Plugins, NEW r \in CallRecords,
           call[c].at = "idle", plugin[p].status = "enabled",
           overlapped' = IF Busy(p) THEN overlapped \cup {p} ELSE overlapped,
           call' = [call EXCEPT ![c] = r], r.of = p, r.at = "disabling",
           UNCHANGED <<plugin, hooks, event, entry, threw>>,
           used' \in UsedRecords, used'.configs = used.configs
    PROVE  IInv'
<1>1. Types /\ Handlers /\ Walks /\ AllGood /\ Good(p)
  BY DEF IInv, AllGood
<1>2. call' \in [Calls -> CallRecords] /\ call'[c] = r /\ \A d \in Calls \ {c} : call'[d] = call[d]
  BY <1>1, CallSet
<1>3. /\ Handlers' /\ event' \in [Events -> EventRecords] /\ Walks'
      /\ \A q : (Nowhere(q, hooks) => Nowhere(q, hooks')) /\ (Once(q, hooks) => Once(q, hooks'))
  BY <1>1, HooksStay
<1>4. Types'
  BY <1>1, <1>2, <1>3, NumbersKept DEF Types
<1>5. Works(c, p)' /\ Busy(p)' /\ ~Works(c, p)
      /\ \A d \in Calls \ {c} : Works(d, p)' <=> Works(d, p)
  BY <1>2 DEF Works, Busy
<1>6. Good(p)'
  <2>1. IsSilent(p)'
    BY <1>5 DEF IsSilent
  <2>2. IsLoaded(p)'
    BY <1>1, <1>2, <1>5 DEF Good, IsLoaded, Works
  <2>3. p \notin overlapped' => ~Busy(p) /\ p \notin overlapped
    OBVIOUS
  <2>4. ~Busy(p) => \A d \in Calls : Works(d, p)' => d = c
    BY <1>5 DEF Busy, Works
  <2>5. p \notin overlapped' => OneWorks(p)'
    BY <2>3, <2>4 DEF OneWorks
  <2>6. ASSUME (p \in Orderly)' PROVE Follows(p)'
    <3>1. ~Busy(p) /\ p \in Orderly
      BY <2>3, <2>6 DEF Orderly
    <3>2. Once(p, hooks)
      BY <3>1, <1>1 DEF Good, Follows, AtRest
    <3>3. AtStage(c, p)'
      BY <3>2, <1>2 DEF AtStage
    <3> QED BY <3>1, <3>3, <2>4, <1>5 DEF Follows
  <2>7. ASSUME p \in Listens \ overlapped' PROVE IsGiven(p)'
    BY <2>3, <2>4, <2>7, <1>2, <1>5 DEF IsGiven
  <2> QED BY <2>1, <2>2, <2>5, <2>6, <2>7 DEF Good
<1>7. ASSUME NEW q \in Plugins \ {p} PROVE Good(q)'
  <2>1. \A d \in Calls : (Works(d, q)' <=> Works(d, q)) /\ (Works(d, q) => call'[d] = call[d])
    BY <1>1, <1>2, OtherWorkers
  <2>2. Good(q) /\ plugin'[q] = plugin[q]
    BY <1>1 DEF AllGood
  <2> QED BY <2>1, <2>2, <1>3, OthersStay
<1> QED BY <1>3, <1>4, <1>6, <1>7 DEF IInv, AllGood

\* A call that begins to enable a plugin, with what its onLoad registers.
LEMMA AskToEnable ==
    ASSUME IInv, NEW c \in Calls, NEW p \in Plugins, NEW r \in CallRecords,
           call[c].at = "idle", plugin[p].status # "enabled",
           overlapped' = IF Busy(p) THEN overlapped \cup {p} ELSE overlapped,
           call' = [call EXCEPT ![c] = r], r.of = p, r.at = "loading",
           plugin' = [plugin EXCEPT ![p].loaded = TRUE, ![p].given = plugin[p].config],
           IF p \in OnLoad THEN Register(p) ELSE UNCHANGED <<hooks, event>>,
           UNCHANGED <<entry, threw>>,
           used' \in UsedRecords, used'.configs = used.configs
    PROVE  IInv'
<1>1. Types /\ Handlers /\ Walks /\ AllGood /\ Good(p)
  BY DEF IInv, AllGood
<1>2. call' \in [Calls -> CallRecords] /\ call'[c] = r /\ \A d \in Calls \ {c} : call'[d] = call[d]
  BY <1>1, CallSet
<1>3. /\ Handlers' /\ event' \in [Events -> EventRecords] /\ Walks'
      /\ p \in OnLoad /\ p # Engine /\ Nowhere(p, hooks) => Once(p, hooks')
      /\ p \notin OnLoad /\ Nowhere(p, hooks) => Nowhere(p, hooks')
      /\ \A q \in Plugins \ {p} : /\ Nowhere(q, hooks) => Nowhere(q, hooks')
                                  /\ Once(q, hooks) => Once(q, hooks')
  <2>1. CASE p \in OnLoad
    BY <2>1, <1>1, RegisterEffect
  <2>2. CASE p \notin OnLoad
    <3>1. UNCHANGED <<hooks, event>>
      BY <2>2
    <3> QED BY <2>2, <3>1, <1>1, HooksStay
  <2> QED BY <2>1, <2>2
<1>4. /\ plugin' \in [Plugins -> Plugs]
      /\ \A q \in Plugins \ {p} : plugin'[q] = plugin[q]
      /\ plugin'[p].status = plugin[p].status /\ plugin'[p].loaded
      /\ plugin'[p].given = plugin'[p].config
  <2> DEFINE yes == TRUE
             a == [plugin[p] EXCEPT !.loaded = yes]
             b == [a EXCEPT !.given = plugin[p].config]
  <2>1. plugin' = [plugin EXCEPT ![p] = b]
    BY <1>1 DEF Types
  <2>2. plugin \in [Plugins -> Plugs] /\ plugin[p] \in Plugs /\ yes \in BOOLEAN /\ yes
    BY <1>1 DEF Types
  <2> HIDE DEF yes
  <2>3. a \in Plugs /\ a.loaded = yes /\ a.status = plugin[p].status /\ a.config = plugin[p].config
    BY <2>2 DEF Plugs
  <2> HIDE DEF a
  <2>4. /\ b \in Plugs /\ b.loaded = yes /\ b.status = plugin[p].status
        /\ b.config = plugin[p].config /\ b.given = b.config
    BY <2>2, <2>3 DEF Plugs
  <2>5. b.loaded
    BY <2>2, <2>4
  <2> HIDE DEF b
  <2> QED BY <2>1, <2>2, <2>4, <2>5
<1>5. Types'
  BY <1>1, <1>2, <1>3, <1>4, NumbersKept DEF Types
<1>6. Works(c, p)' /\ Busy(p)' /\ ~Works(c, p)
      /\ \A d \in Calls \ {c} : Works(d, p)' <=> Works(d, p)
  BY <1>2 DEF Works, Busy
<1>7. Good(p)'
  <2>1. IsSilent(p)'
    BY <1>6 DEF IsSilent
  <2>2. IsLoaded(p)'
    BY <1>4 DEF IsLoaded
  <2>3. p \notin overlapped' => ~Busy(p) /\ p \notin overlapped
    OBVIOUS
  <2>4. ~Busy(p) => \A d \in Calls : Works(d, p)' => d = c
    BY <1>6 DEF Busy, Works
  <2>5. p \notin overlapped' => OneWorks(p)'
    BY <2>3, <2>4 DEF OneWorks
  <2>6. ASSUME (p \in Orderly)' PROVE Follows(p)'
    <3>1. ~Busy(p) /\ p \in Orderly /\ p # Engine
      BY <2>3, <2>6 DEF Orderly
    <3>2. Nowhere(p, hooks)
      BY <3>1, <1>1 DEF Good, Follows, AtRest
    <3>3. AtStage(c, p)'
      BY <3>1, <3>2, <1>2, <1>3, <1>4 DEF AtStage
    <3> QED BY <3>1, <3>3, <2>4, <1>6 DEF Follows
  <2>7. IsGiven(p)'
    BY <1>4 DEF IsGiven
  <2> QED BY <2>1, <2>2, <2>5, <2>6, <2>7 DEF Good
<1>8. ASSUME NEW q \in Plugins \ {p} PROVE Good(q)'
  <2>1. \A d \in Calls : (Works(d, q)' <=> Works(d, q)) /\ (Works(d, q) => call'[d] = call[d])
    BY <1>1, <1>2, OtherWorkers
  <2>2. Good(q) /\ plugin'[q] = plugin[q]
    BY <1>1, <1>4 DEF AllGood
  <2> QED BY <2>1, <2>2, <1>3, OthersStay
<1> QED BY <1>3, <1>5, <1>7, <1>8 DEF IInv, AllGood

\* A call: answered at once, or one of the two.
LEMMA AskKeeps ==
    ASSUME IInv, NEW c \in Calls, NEW p \in Plugins, Ask(c, p)
    PROVE  IInv'
<1>1. Types
  BY DEF IInv
<1>2. used' \in UsedRecords /\ used'.configs = used.configs
  BY <1>1, UseEffect DEF Ask
<1>3. PICK seen \in Statuses :
         LET job == Toggle(seen)
         IN IF IsUnneeded(job, p)
            THEN UNCHANGED <<plugin, hooks, call, event, overlapped>>
            ELSE /\ overlapped' = IF Busy(p) THEN overlapped \cup {p} ELSE overlapped
                 /\ call' = [call EXCEPT ![c] =
                                [job |-> job, of |-> p,
                                 at |-> IF job = "enable" THEN "loading" ELSE "disabling"]]
                 /\ IF job = "disable"
                    THEN UNCHANGED <<plugin, hooks, event>>
                    ELSE /\ plugin' = [plugin EXCEPT ![p].loaded = TRUE,
                                                     ![p].given = plugin[p].config]
                         /\ IF p \in OnLoad THEN Register(p) ELSE UNCHANGED <<hooks, event>>
  BY DEF Ask
<1>4. call[c].at = "idle" /\ UNCHANGED <<entry, threw>>
  BY DEF Ask
<1> DEFINE job == Toggle(seen)
<1>5. job \in {"enable", "disable"}
  BY DEF Toggle
<1>6. CASE IsUnneeded(job, p)
  <2>1. UNCHANGED <<plugin, hooks, call, event, overlapped>>
    BY <1>3, <1>6
  <2>2. /\ Handlers' /\ event' \in [Events -> EventRecords] /\ Walks'
        /\ \A q : (Nowhere(q, hooks) => Nowhere(q, hooks')) /\ (Once(q, hooks) => Once(q, hooks'))
    BY <2>1, HooksStay DEF IInv
  <2>3. Types'
    BY <1>1, <1>2, <1>4, <2>1, NumbersKept DEF Types
  <2>4. ASSUME NEW q \in Plugins PROVE Good(q)'
    <3>1. \A d \in Calls : (Works(d, q)' <=> Works(d, q)) /\ (Works(d, q) => call'[d] = call[d])
      BY <2>1 DEF Works
    <3>2. Good(q)
      BY DEF IInv, AllGood
    <3> QED BY <1>4, <2>1, <2>2, <3>1, <3>2, OthersStay
  <2> QED BY <2>2, <2>3, <2>4 DEF IInv, AllGood
<1>7. CASE ~IsUnneeded(job, p) /\ job = "disable"
  <2> DEFINE r == [job |-> job, of |-> p, at |-> "disabling"]
  <2>1. /\ overlapped' = IF Busy(p) THEN overlapped \cup {p} ELSE overlapped
        /\ call' = [call EXCEPT ![c] = r]
        /\ UNCHANGED <<plugin, hooks, event>>
    BY <1>3, <1>7
  <2>2. r \in CallRecords /\ r.of = p /\ r.at = "disabling"
    BY <1>7 DEF CallRecords, Jobs
  <2>3. plugin[p].status = "enabled"
    BY <1>7 DEF IsUnneeded
  <2> HIDE DEF r, job
  <2> QED BY <1>2, <1>4, <2>1, <2>2, <2>3, AskToDisable
<1>8. CASE ~IsUnneeded(job, p) /\ job = "enable"
  <2> DEFINE r == [job |-> job, of |-> p, at |-> "loading"]
  <2>1. /\ overlapped' = IF Busy(p) THEN overlapped \cup {p} ELSE overlapped
        /\ call' = [call EXCEPT ![c] = r]
        /\ plugin' = [plugin EXCEPT ![p].loaded = TRUE, ![p].given = plugin[p].config]
        /\ IF p \in OnLoad THEN Register(p) ELSE UNCHANGED <<hooks, event>>
    BY <1>3, <1>8
  <2>2. r \in CallRecords /\ r.of = p /\ r.at = "loading"
    BY <1>8 DEF CallRecords, Jobs
  <2>3. plugin[p].status # "enabled"
    BY <1>8 DEF IsUnneeded
  <2> HIDE DEF r, job
  <2> QED BY <1>2, <1>4, <2>1, <2>2, <2>3, AskToEnable
<1> QED BY <1>5, <1>6, <1>7, <1>8

----------------------------------------------------------------------------
(* The plugins' functions return or throw.                                  *)

\* The end of a call: those that stay work on as they did, and where calls do not overlap
\* nobody works on the plugin any more.
LEMMA EndOfCall ==
    ASSUME IInv, NEW c \in Calls, NEW p \in Plugins, Works(c, p), Done(c)
    PROVE  /\ call' \in [Calls -> CallRecords]
           /\ ~Works(c, p)'
           /\ \A d \in Calls \ {c} : call'[d] = call[d] /\ (Works(d, p)' <=> Works(d, p))
           /\ \A q \in Plugins \ {p} : \A d \in Calls :
                 (Works(d, q)' <=> Works(d, q)) /\ (Works(d, q) => call'[d] = call[d])
           /\ p \notin overlapped => ~Busy(p)'
<1>1. Types /\ Good(p)
  BY DEF IInv, AllGood
<1>2. /\ call' \in [Calls -> CallRecords] /\ call'[c].at = "idle"
      /\ \A d \in Calls \ {c} : call'[d] = call[d]
  BY <1>1, DoneEffect
<1>3. \A q \in Plugins \ {p} : \A d \in Calls :
         (Works(d, q)' <=> Works(d, q)) /\ (Works(d, q) => call'[d] = call[d])
  <2>1. call[c].of = p
    BY DEF Works
  <2> QED BY <2>1, <1>1, <1>2, OtherWorkers
<1>4. ~Works(c, p)' /\ \A d \in Calls \ {c} : Works(d, p)' <=> Works(d, p)
  BY <1>2 DEF Works
<1>5. ASSUME p \notin overlapped PROVE ~Busy(p)'
  <2>1. \A d \in Calls : Works(d, p) => d = c
    BY <1>1, <1>5 DEF Good, OneWorks
  <2> QED BY <2>1, <1>4 DEF Busy, Works
<1> QED BY <1>2, <1>3, <1>4, <1>5

\* A call ends: what is left to show is that the plugin's handlers fit the status it gets.
LEMMA EndKeeps ==
    ASSUME IInv, NEW c \in Calls, NEW p \in Plugins, Works(c, p), Done(c),
           Handlers', event' \in [Events -> EventRecords], Walks',
           \A q \in Plugins \ {p} : /\ Nowhere(q, hooks) => Nowhere(q, hooks')
                                    /\ Once(q, hooks) => Once(q, hooks'),
           plugin' \in [Plugins -> Plugs], entry' \in [Plugins -> Files],
           \A q \in Plugins \ {p} : plugin'[q] = plugin[q],
           plugin'[p].loaded <=> plugin[p].loaded,
           plugin'[p].config = plugin[p].config, plugin'[p].given = plugin[p].given,
           UNCHANGED overlapped, threw \subseteq threw', threw' \subseteq Plugins,
           used' \in UsedRecords, used'.configs = used.configs,
           plugin'[p].status = "disabled" => Nowhere(p, hooks'),
           plugin'[p].status = "enabled" => call[c].at = "enabling",
           (p \in Orderly)' => AtRest(p)'
    PROVE  IInv'
<1>1. Types /\ AllGood /\ Good(p)
  BY DEF IInv, AllGood
<1>2. /\ call' \in [Calls -> CallRecords] /\ ~Works(c, p)'
      /\ \A d \in Calls \ {c} : call'[d] = call[d] /\ (Works(d, p)' <=> Works(d, p))
      /\ \A q \in Plugins \ {p} : \A d \in Calls :
            (Works(d, q)' <=> Works(d, q)) /\ (Works(d, q) => call'[d] = call[d])
      /\ p \notin overlapped => ~Busy(p)'
  BY EndOfCall
<1>3. Types'
  BY <1>1, <1>2, NumbersKept DEF Types
<1>4. \A d \in Calls : Works(d, p)' => d # c /\ Works(d, p) /\ call'[d] = call[d]
  BY <1>2
<1>5. Good(p)'
  <2>1. IsSilent(p)'
    BY DEF IsSilent
  <2>2. IsLoaded(p)'
    <3>1. plugin'[p].status = "enabled" => plugin'[p].loaded
      BY <1>1 DEF Good, IsLoaded
    <3>2. ASSUME NEW d \in Calls, Works(d, p)', call'[d].at \in {"loading", "enabling"}
          PROVE  plugin'[p].loaded
      BY <3>2, <1>1, <1>4 DEF Good, IsLoaded
    <3> QED BY <3>1, <3>2 DEF IsLoaded
  <2>3. p \notin overlapped' => OneWorks(p)'
    BY <1>2 DEF OneWorks, Busy, Works
  <2>4. ASSUME (p \in Orderly)' PROVE Follows(p)'
    <3>1. ~Busy(p)'
      BY <2>4, <1>2 DEF Orderly
    <3>2. \A d \in Calls : ~Works(d, p)'
      BY <3>1 DEF Busy, Works
    <3>3. AtRest(p)'
      BY <2>4
    <3> QED BY <3>2, <3>3 DEF Follows
  <2>5. ASSUME p \in Listens \ overlapped' PROVE IsGiven(p)'
    <3>1. IsGiven(p)
      BY <2>5, <1>1 DEF Good
    <3>2. ASSUME NEW d \in Calls, Works(d, p)', call'[d].at \in {"loading", "enabling"}
          PROVE  plugin'[p].given = plugin'[p].config
      BY <3>1, <3>2, <1>4 DEF IsGiven
    <3>3. plugin'[p].status = "enabled" => plugin'[p].given = plugin'[p].config
      BY <3>1 DEF IsGiven
    <3> QED BY <3>2, <3>3 DEF IsGiven
  <2> QED BY <2>1, <2>2, <2>3, <2>4, <2>5 DEF Good
<1>6. ASSUME NEW q \in Plugins \ {p} PROVE Good(q)'
  <2>1. Good(q)
    BY <1>1 DEF AllGood
  <2> QED BY <2>1, <1>2, OthersStay
<1> QED BY <1>3, <1>5, <1>6 DEF IInv, AllGood

\* The plugin a call in flight works on.
LEMMA CallWorks ==
    ASSUME Types, NEW c \in Calls, call[c].at # "idle"
    PROVE  call[c].of \in Plugins /\ Works(c, call[c].of)
BY DEF Types, CallRecords, Works

\* onEnable has returned.
LEMMA EnabledKeeps ==
    ASSUME IInv, NEW c \in Calls, Enabled(c)
    PROVE  IInv'
<1> SUFFICES ASSUME NEW p, p = call[c].of PROVE IInv'
  OBVIOUS
<1>1. Types /\ Handlers /\ Walks /\ AllGood
  BY DEF IInv
<1>2. /\ call[c].at = "enabling" /\ Becomes(p, "enabled") /\ Done(c)
      /\ UNCHANGED <<hooks, event, overlapped, threw, used>>
  BY DEF Enabled
<1>3. p \in Plugins /\ Works(c, p)
  BY <1>1, <1>2, CallWorks
<1>4. /\ plugin' \in [Plugins -> Plugs] /\ entry' \in [Plugins -> Files]
      /\ \A q \in Plugins \ {p} : plugin'[q] = plugin[q]
      /\ plugin'[p].status = "enabled" /\ (plugin'[p].loaded <=> plugin[p].loaded)
      /\ plugin'[p].config = plugin[p].config /\ plugin'[p].given = plugin[p].given
  <2>1. "enabled" \in Statuses
    BY DEF Statuses
  <2> QED BY <2>1, <1>1, <1>2, <1>3, BecomesEffect
<1>5. /\ Handlers' /\ event' \in [Events -> EventRecords] /\ Walks'
      /\ \A q : (Nowhere(q, hooks) => Nowhere(q, hooks')) /\ (Once(q, hooks) => Once(q, hooks'))
  BY <1>1, <1>2, HooksStay
<1>6. ASSUME (p \in Orderly)' PROVE AtRest(p)'
  <2>1. p \in Orderly
    BY <1>2, <1>6 DEF Orderly
  <2>2. Once(p, hooks)
    BY <2>1, <1>1, <1>2, <1>3 DEF AllGood, Good, Follows, AtStage
  <2> QED BY <2>2, <1>4, <1>5 DEF AtRest
<1>7. used' \in UsedRecords /\ used'.configs = used.configs /\ threw' \subseteq Plugins
  BY <1>1, <1>2 DEF Types
<1> QED BY <1>2, <1>3, <1>4, <1>5, <1>6, <1>7, EndKeeps

\* onLoad or onEnable has thrown.
LEMMA EnableThrowsKeeps ==
    ASSUME IInv, NEW c \in Calls, EnableThrows(c)
    PROVE  IInv'
<1> SUFFICES ASSUME NEW p, p = call[c].of PROVE IInv'
  OBVIOUS
<1>1. Types /\ Handlers /\ Walks /\ AllGood
  BY DEF IInv
<1>2. /\ call[c].at # "idle" /\ Becomes(p, "error") /\ Done(c)
      /\ threw' = threw \cup {p} /\ UNCHANGED <<hooks, event, overlapped>>
      /\ used.throws < MaxThrows /\ Use("throws")
  BY DEF EnableThrows
<1>3. p \in Plugins /\ Works(c, p)
  BY <1>1, <1>2, CallWorks
<1>4. /\ plugin' \in [Plugins -> Plugs] /\ entry' \in [Plugins -> Files]
      /\ \A q \in Plugins \ {p} : plugin'[q] = plugin[q]
      /\ plugin'[p].status = "error" /\ (plugin'[p].loaded <=> plugin[p].loaded)
      /\ plugin'[p].config = plugin[p].config /\ plugin'[p].given = plugin[p].given
  <2>1. "error" \in Statuses
    BY DEF Statuses
  <2> QED BY <2>1, <1>1, <1>2, <1>3, BecomesEffect
<1>5. /\ Handlers' /\ event' \in [Events -> EventRecords] /\ Walks'
      /\ \A q : (Nowhere(q, hooks) => Nowhere(q, hooks')) /\ (Once(q, hooks) => Once(q, hooks'))
  BY <1>1, <1>2, HooksStay
<1>6. ~(p \in Orderly)'
  BY <1>2 DEF Orderly
<1>7. used' \in UsedRecords /\ used'.configs = used.configs
  BY <1>1, <1>2, UseEffect
<1>8. threw \subseteq threw' /\ threw' \subseteq Plugins /\ UNCHANGED overlapped
  BY <1>1, <1>2, <1>3 DEF Types
<1> QED BY <1>2, <1>3, <1>4, <1>5, <1>6, <1>7, <1>8, EndKeeps

\* onDisable has returned.
LEMMA DisabledKeeps ==
    ASSUME IInv, NEW c \in Calls, Disabled(c)
    PROVE  IInv'
<1> SUFFICES ASSUME NEW p, p = call[c].of PROVE IInv'
  OBVIOUS
<1>1. Types /\ Handlers /\ Walks /\ AllGood
  BY DEF IInv
<1>2. /\ call[c].at = "disabling" /\ UnregisterPlugin(p) /\ Becomes(p, "disabled") /\ Done(c)
      /\ UNCHANGED <<overlapped, threw, used>>
  BY DEF Disabled
<1>3. p \in Plugins /\ Works(c, p)
  BY <1>1, <1>2, CallWorks
<1>4. /\ plugin' \in [Plugins -> Plugs] /\ entry' \in [Plugins -> Files]
      /\ \A q \in Plugins \ {p} : plugin'[q] = plugin[q]
      /\ plugin'[p].status = "disabled" /\ (plugin'[p].loaded <=> plugin[p].loaded)
      /\ plugin'[p].config = plugin[p].config /\ plugin'[p].given = plugin[p].given
  <2>1. "disabled" \in Statuses
    BY DEF Statuses
  <2> QED BY <2>1, <1>1, <1>2, <1>3, BecomesEffect
<1>5. /\ Handlers' /\ event' \in [Events -> EventRecords] /\ Walks'
      /\ Nowhere(p, hooks')
      /\ \A q \in Plugins \ {p} : /\ Nowhere(q, hooks) => Nowhere(q, hooks')
                                  /\ Once(q, hooks) => Once(q, hooks')
  BY <1>1, <1>2, <1>3, UnregisterEffect
<1>6. AtRest(p)'
  BY <1>4, <1>5 DEF AtRest
<1>7. used' \in UsedRecords /\ used'.configs = used.configs /\ threw' \subseteq Plugins
  BY <1>1, <1>2 DEF Types
<1> QED BY <1>2, <1>3, <1>4, <1>5, <1>6, <1>7, EndKeeps

\* onDisable has thrown.
LEMMA DisableThrowsKeeps ==
    ASSUME IInv, NEW c \in Calls, DisableThrows(c)
    PROVE  IInv'
<1> SUFFICES ASSUME NEW p, p = call[c].of PROVE IInv'
  OBVIOUS
<1>1. Types /\ Handlers /\ Walks /\ AllGood
  BY DEF IInv
<1>2. /\ call[c].at = "disabling" /\ Done(c)
      /\ plugin' = [plugin EXCEPT ![p].status = "error"]
      /\ threw' = threw \cup {p} /\ UNCHANGED <<entry, hooks, event, overlapped>>
      /\ used.throws < MaxThrows /\ Use("throws")
  BY DEF DisableThrows
<1>3. p \in Plugins /\ Works(c, p)
  BY <1>1, <1>2, CallWorks
<1>4. /\ plugin' \in [Plugins -> Plugs] /\ entry' \in [Plugins -> Files]
      /\ \A q \in Plugins \ {p} : plugin'[q] = plugin[q]
      /\ plugin'[p].status = "error" /\ (plugin'[p].loaded <=> plugin[p].loaded)
      /\ plugin'[p].config = plugin[p].config /\ plugin'[p].given = plugin[p].given
  <2>1. "error" \in Statuses
    BY DEF Statuses
  <2>2. entry' \in [Plugins -> Files]
    BY <1>1, <1>2 DEF Types
  <2> QED BY <2>1, <2>2, <1>1, <1>2, <1>3, StatusSet
<1>5. /\ Handlers' /\ event' \in [Events -> EventRecords] /\ Walks'
      /\ \A q : (Nowhere(q, hooks) => Nowhere(q, hooks')) /\ (Once(q, hooks) => Once(q, hooks'))
  BY <1>1, <1>2, HooksStay
<1>6. ~(p \in Orderly)'
  BY <1>2 DEF Orderly
<1>7. used' \in UsedRecords /\ used'.configs = used.configs
  BY <1>1, <1>2, UseEffect
<1>8. threw \subseteq threw' /\ threw' \subseteq Plugins /\ UNCHANGED overlapped
  BY <1>1, <1>2, <1>3 DEF Types
<1> QED BY <1>2, <1>3, <1>4, <1>5, <1>6, <1>7, <1>8, EndKeeps

\* onLoad has returned, and onEnable registers what it registers.
LEMMA LoadedKeeps ==
    ASSUME IInv, NEW c \in Calls, Loaded(c)
    PROVE  IInv'
<1> SUFFICES ASSUME NEW p, p = call[c].of,
                    NEW r, r = [call[c] EXCEPT !.at = "enabling"]
             PROVE  IInv'
  OBVIOUS
<1>1. Types /\ Handlers /\ Walks /\ AllGood
  BY DEF IInv
<1>2. /\ call[c].at = "loading" /\ call' = [call EXCEPT ![c] = r]
      /\ IF p \in OnLoad THEN UNCHANGED <<hooks, event>> ELSE Register(p)
      /\ UNCHANGED <<plugin, entry, overlapped, threw, used>>
  BY <1>1 DEF Loaded, At, Types
<1>3. p \in Plugins /\ Works(c, p) /\ Good(p)
  BY <1>1, <1>2, CallWorks DEF AllGood
<1>4. r \in CallRecords /\ r.at = "enabling" /\ r.of = p
  BY <1>1 DEF Types, CallRecords
<1>5. call' \in [Calls -> CallRecords] /\ call'[c] = r /\ \A d \in Calls \ {c} : call'[d] = call[d]
  BY <1>1, <1>2, <1>4, CallSet
<1>6. /\ Handlers' /\ event' \in [Events -> EventRecords] /\ Walks'
      /\ p \notin OnLoad /\ p # Engine /\ Nowhere(p, hooks) => Once(p, hooks')
      /\ p \in OnLoad /\ Once(p, hooks) => Once(p, hooks')
      /\ \A q \in Plugins \ {p} : /\ Nowhere(q, hooks) => Nowhere(q, hooks')
                                  /\ Once(q, hooks) => Once(q, hooks')
  <2>1. CASE p \notin OnLoad
    BY <2>1, <1>1, <1>2, <1>3, RegisterEffect
  <2>2. CASE p \in OnLoad
    <3>1. UNCHANGED <<hooks, event>>
      BY <2>2, <1>2
    <3> QED BY <2>2, <3>1, <1>1, HooksStay
  <2> QED BY <2>1, <2>2
<1>7. Types'
  BY <1>1, <1>2, <1>5, <1>6, NumbersKept DEF Types
<1>8. Busy(p)' /\ \A d \in Calls : Works(d, p)' <=> Works(d, p)
  BY <1>3, <1>4, <1>5, <1>2 DEF Works, Busy
<1>9. Good(p)'
  <2>1. IsSilent(p)'
    BY <1>8 DEF IsSilent
  <2>2. IsLoaded(p)'
    <3>1. plugin[p].loaded
      BY <1>2, <1>3 DEF Good, IsLoaded
    <3> QED BY <3>1, <1>2 DEF IsLoaded
  <2>3. p \notin overlapped' => OneWorks(p)'
    BY <1>2, <1>3, <1>8 DEF Good, OneWorks
  <2>4. ASSUME (p \in Orderly)' PROVE Follows(p)'
    <3>1. p \in Orderly /\ p # Engine /\ p \notin overlapped
      BY <1>2, <2>4 DEF Orderly
    <3>2. AtStage(c, p) /\ OneWorks(p)
      BY <3>1, <1>3 DEF Good, Follows
    <3>3. AtStage(c, p)'
      BY <3>1, <3>2, <1>2, <1>4, <1>5, <1>6 DEF AtStage
    <3>4. \A d \in Calls : Works(d, p)' => d = c
      BY <3>2, <1>3, <1>8 DEF OneWorks
    <3> QED BY <3>3, <3>4, <1>8 DEF Follows
  <2>5. ASSUME p \in Listens \ overlapped' PROVE IsGiven(p)'
    <3>1. plugin[p].given = plugin[p].config
      BY <2>5, <1>2, <1>3 DEF Good, IsGiven
    <3> QED BY <3>1, <1>2 DEF IsGiven
  <2> QED BY <2>1, <2>2, <2>3, <2>4, <2>5 DEF Good
<1>10. ASSUME NEW q \in Plugins \ {p} PROVE Good(q)'
  <2>1. \A d \in Calls : (Works(d, q)' <=> Works(d, q)) /\ (Works(d, q) => call'[d] = call[d])
    <3>1. (call[c].at # "idle" => call[c].of = p) /\ (call'[c].at # "idle" => call'[c].of = p)
      BY <1>3, <1>4, <1>5 DEF Works
    <3> QED BY <3>1, <1>1, <1>3, <1>5, OtherWorkers
  <2>2. Good(q) /\ plugin'[q] = plugin[q]
    BY <1>1, <1>2 DEF AllGood
  <2> QED BY <2>1, <2>2, <1>2, <1>6, OthersStay
<1> QED BY <1>6, <1>7, <1>9, <1>10 DEF IInv, AllGood

----------------------------------------------------------------------------
(* The other steps.                                                         *)

\* The module of a plugin cannot be required.
LEMMA RequireFailsKeeps ==
    ASSUME IInv, NEW p \in Plugins, RequireFails(p)
    PROVE  IInv'
<1>1. Types /\ Handlers /\ Walks /\ AllGood /\ Good(p)
  BY DEF IInv, AllGood
<1>2. /\ Becomes(p, "error") /\ threw' = threw \cup {p}
      /\ UNCHANGED <<hooks, call, event, overlapped>>
      /\ used.calls < MaxCalls /\ Use("calls")
  BY DEF RequireFails
<1>3. /\ plugin' \in [Plugins -> Plugs] /\ entry' \in [Plugins -> Files]
      /\ \A q \in Plugins \ {p} : plugin'[q] = plugin[q]
      /\ plugin'[p].status = "error" /\ (plugin'[p].loaded <=> plugin[p].loaded)
      /\ plugin'[p].config = plugin[p].config /\ plugin'[p].given = plugin[p].given
  <2>1. "error" \in Statuses
    BY DEF Statuses
  <2> QED BY <2>1, <1>1, <1>2, BecomesEffect
<1>4. /\ Handlers' /\ event' \in [Events -> EventRecords] /\ Walks'
      /\ \A q : (Nowhere(q, hooks) => Nowhere(q, hooks')) /\ (Once(q, hooks) => Once(q, hooks'))
  BY <1>1, <1>2, HooksStay
<1>5. used' \in UsedRecords /\ used'.configs = used.configs
  BY <1>1, <1>2, UseEffect
<1>6. Types'
  BY <1>1, <1>2, <1>3, <1>4, <1>5, NumbersKept DEF Types
<1>7. \A q : \A d \in Calls : (Works(d, q)' <=> Works(d, q)) /\ call'[d] = call[d]
  BY <1>2 DEF Works
<1>8. Good(p)'
  <2>1. IsSilent(p)'
    BY <1>3 DEF IsSilent
  <2>2. IsLoaded(p)'
    BY <1>1, <1>3, <1>7 DEF Good, IsLoaded
  <2>3. p \notin overlapped' => OneWorks(p)'
    BY <1>1, <1>2, <1>7 DEF Good, OneWorks
  <2>4. ~(p \in Orderly)'
    BY <1>2 DEF Orderly
  <2>5. p \in Listens \ overlapped' => IsGiven(p)'
    BY <1>1, <1>2, <1>3, <1>7 DEF Good, IsGiven
  <2> QED BY <2>1, <2>2, <2>3, <2>4, <2>5 DEF Good
<1>9. ASSUME NEW q \in Plugins \ {p} PROVE Good(q)'
  <2>1. Good(q) /\ plugin'[q] = plugin[q]
    BY <1>1, <1>3 DEF AllGood
  <2> QED BY <2>1, <1>2, <1>4, <1>7, OthersStay
<1> QED BY <1>4, <1>6, <1>8, <1>9 DEF IInv, AllGood

\* A config changes: the plugin is told, or is not enabled, or was being worked on.
LEMMA UpdateConfigKeeps ==
    ASSUME IInv, NEW p \in Plugins, UpdateConfig(p)
    PROVE  IInv'
<1>1. Types /\ Handlers /\ Walks /\ AllGood /\ Good(p)
  BY DEF IInv, AllGood
<1> DEFINE more == plugin[p].config + 1
           told == IF Tells(p) THEN plugin[p].config + 1 ELSE plugin[p].given
           a == [plugin[p] EXCEPT !.config = more]
           b == [a EXCEPT !.given = told]
           e == [entry[p] EXCEPT !.config = more]
<1>2. /\ plugin' = [plugin EXCEPT ![p] = b]
      /\ Persist(p, e)
      /\ overlapped' = IF Busy(p) THEN overlapped \cup {p} ELSE overlapped
      /\ UNCHANGED <<hooks, call, event, threw>>
  <2>1. plugin[p] \in Plugs /\ plugin \in [Plugins -> Plugs]
    BY <1>1 DEF Types
  <2>2. plugin' = [plugin EXCEPT ![p].config = @ + 1,
                                 ![p].given = IF Tells(p) THEN plugin[p].config + 1 ELSE @]
    BY DEF UpdateConfig
  <2>3. a.given = plugin[p].given
    BY <2>1 DEF Plugs
  <2>4. plugin' = [plugin EXCEPT ![p] = b]
    BY <2>1, <2>2, <2>3
  <2> QED BY <2>4 DEF UpdateConfig
<1>3. used' \in UsedRecords /\ used'.configs = used.configs + 1 /\ used.configs \in Nat
  BY <1>1, UseEffect DEF UpdateConfig, Types, UsedRecords
<1>4. plugin[p].config \in Numbers /\ plugin[p].given \in Numbers
  BY <1>1 DEF Types, Plugs
<1>5. /\ more \in Numbers' /\ told \in Numbers' /\ Numbers \subseteq Numbers'
      /\ (Tells(p) => told = more) /\ (~Tells(p) => told = plugin[p].given)
  BY <1>3, <1>4 DEF Numbers
<1>6. plugin \in [Plugins -> Plugs'] /\ entry \in [Plugins -> Files']
  <2>1. Plugs \subseteq Plugs' /\ Files \subseteq Files'
    BY <1>5 DEF Plugs, Files
  <2>2. plugin \in [Plugins -> Plugs] /\ entry \in [Plugins -> Files]
    BY <1>1 DEF Types
  <2>3. /\ \A q \in Plugins : plugin[q] \in Plugs' /\ entry[q] \in Files'
        /\ plugin = [q \in Plugins |-> plugin[q]] /\ entry = [q \in Plugins |-> entry[q]]
    BY <2>1, <2>2
  <2> HIDE DEF Plugs, Files
  <2> QED BY <2>3
<1>7. plugin[p] \in Plugs' /\ entry[p] \in Files'
  BY <1>6
<1> HIDE DEF more, told
<1>8. e \in Files'
  BY <1>5, <1>7 DEF Files
<1>9. /\ a \in Plugs' /\ a.config = more /\ a.status = plugin[p].status
      /\ a.loaded = plugin[p].loaded
  BY <1>5, <1>7 DEF Plugs
<1> HIDE DEF a
<1>10. /\ b \in Plugs' /\ b.config = more /\ b.given = told /\ b.status = plugin[p].status
       /\ b.loaded = plugin[p].loaded
  BY <1>5, <1>9 DEF Plugs
<1> HIDE DEF b, e
<1>11. /\ plugin' \in [Plugins -> Plugs'] /\ plugin'[p] = b
       /\ \A q \in Plugins \ {p} : plugin'[q] = plugin[q]
  BY <1>2, <1>6, <1>10
<1>12. entry' \in [Plugins -> Files']
  BY <1>2, <1>6, <1>8 DEF Persist
<1>13. /\ Handlers' /\ event' \in [Events -> EventRecords] /\ Walks'
       /\ \A q : (Nowhere(q, hooks) => Nowhere(q, hooks')) /\ (Once(q, hooks) => Once(q, hooks'))
  BY <1>1, <1>2, HooksStay
<1>14. Types'
  BY <1>1, <1>2, <1>3, <1>11, <1>12, <1>13 DEF Types
<1>15. /\ \A q : \A d \in Calls : (Works(d, q)' <=> Works(d, q)) /\ call'[d] = call[d]
       /\ \A q : Busy(q)' <=> Busy(q)
  BY <1>2 DEF Works, Busy
<1>16. /\ plugin'[p].status = plugin[p].status /\ (plugin'[p].loaded <=> plugin[p].loaded)
       /\ plugin'[p].config = more /\ plugin'[p].given = told
  BY <1>10, <1>11
<1>17. Good(p)'
  <2>1. IsSilent(p)'
    BY <1>1, <1>13, <1>15, <1>16 DEF Good, IsSilent
  <2>2. IsLoaded(p)'
    BY <1>1, <1>15, <1>16 DEF Good, IsLoaded
  <2>3. p \notin overlapped' => OneWorks(p)'
    BY <1>1, <1>2, <1>15 DEF Good, OneWorks
  <2>4. ASSUME (p \in Orderly)' PROVE Follows(p)'
    <3>1. ~Busy(p) /\ p \in Orderly
      BY <2>4, <1>2 DEF Orderly
    <3>2. AtRest(p) /\ \A d \in Calls : ~Works(d, p)
      BY <3>1, <1>1 DEF Good, Follows, Busy, Works
    <3>3. AtRest(p)'
      BY <3>2, <1>13, <1>16 DEF AtRest
    <3> QED BY <3>2, <3>3, <1>15 DEF Follows
  <2>5. ASSUME p \in Listens \ overlapped' PROVE IsGiven(p)'
    <3>1. ~Busy(p)
      BY <2>5, <1>2
    <3>2. \A d \in Calls : ~Works(d, p)'
      BY <3>1, <1>15 DEF Busy, Works
    <3>3. plugin[p].status = "enabled" => Tells(p)
      BY <2>5, <1>1 DEF Good, IsLoaded, Tells
    <3> QED BY <3>2, <3>3, <1>5, <1>16 DEF IsGiven
  <2> QED BY <2>1, <2>2, <2>3, <2>4, <2>5 DEF Good
<1>18. ASSUME NEW q \in Plugins \ {p} PROVE Good(q)'
  <2>1. Good(q) /\ plugin'[q] = plugin[q]
    BY <1>1, <1>11 DEF AllGood
  <2>2. q \in overlapped => q \in overlapped'
    BY <1>2
  <2> QED BY <2>1, <2>2, <1>2, <1>13, <1>15, OthersStay
<1> QED BY <1>13, <1>14, <1>17, <1>18 DEF IInv, AllGood

\* Nobody works, and nothing is registered, when the gateway has started: in the words of the
\* plugins map it starts with.
LEMMA BootedPlugins ==
    ASSUME entry \in [Plugins -> Files], used \in UsedRecords
    PROVE  /\ Booted \in [Plugins -> Plugs]
           /\ \A p \in Plugins \ {Engine} : Booted[p].status = "installed"
           /\ Booted[Engine].status = "enabled" /\ Booted[Engine].loaded
           /\ Booted[Engine].given = Booted[Engine].config
<1>1. Engine \in Plugins
  BY PluginAssumption
<1>2. 0 \in Numbers /\ \A p \in Plugins : entry[p].config \in Numbers
  BY DEF Numbers, UsedRecords, Files
<1> DEFINE yes == TRUE
           no == FALSE
           engine == [status |-> "enabled", loaded |-> yes, config |-> 0, given |-> 0]
           other(p) == [status |-> "installed", loaded |-> no, config |-> entry[p].config,
                        given |-> 0]
<1>3. Booted = [p \in Plugins |-> IF p = Engine THEN engine ELSE other(p)]
  BY DEF Booted, BuiltIn, Installed
<1>4. yes \in BOOLEAN /\ no \in BOOLEAN /\ yes
  OBVIOUS
<1> HIDE DEF yes, no
<1>5. /\ engine \in Plugs /\ engine.status = "enabled" /\ engine.loaded
      /\ engine.given = engine.config
  BY <1>2, <1>4 DEF Plugs, Statuses
<1>6. \A p \in Plugins : other(p) \in Plugs /\ other(p).status = "installed"
  BY <1>2, <1>4 DEF Plugs, Statuses
<1> HIDE DEF engine, other
<1> QED BY <1>1, <1>3, <1>5, <1>6

\* What an event is that nobody is told of any more.
LEMMA EventRecordsThere ==
    NoEvent \in EventRecords /\ [NoEvent EXCEPT !.at = "passed"] \in EventRecords
<1> DEFINE yes == TRUE
           no == FALSE
<1>1. NoEvent = [at |-> "before", live |-> yes, list |-> <<>>, next |-> 1, grown |-> no,
                 first |-> <<>>, ran |-> <<>>] /\ yes \in BOOLEAN /\ no \in BOOLEAN
  BY DEF NoEvent
<1> HIDE DEF yes, no
<1>2. <<>> \in Seq(Plugins) /\ 1 \in Nat \ {0}
  OBVIOUS
<1>3. NoEvent \in EventRecords
  BY <1>1, <1>2 DEF EventRecords
<1> QED BY <1>3 DEF EventRecords

\* The gateway restarts.
LEMMA RestartKeeps ==
    ASSUME IInv, Restart
    PROVE  IInv'
<1>1. Types /\ Handlers /\ Walks
  BY DEF IInv
<1>2. /\ plugin' = Booted /\ hooks' = <<>>
      /\ call' = [c \in Calls |-> NoCall]
      /\ event' = [x \in Events |-> IF event[x].at = "before" THEN event[x]
                                    ELSE [NoEvent EXCEPT !.at = "passed"]]
      /\ overlapped' = {} /\ threw' = {}
      /\ Persist(Engine, [entry[Engine] EXCEPT !.status = "enabled"])
      /\ used.restarts < MaxRestarts /\ Use("restarts")
  BY DEF Restart
<1>3. used' \in UsedRecords /\ used'.configs = used.configs
  BY <1>1, <1>2, UseEffect
<1>4. /\ Booted \in [Plugins -> Plugs]
      /\ \A p \in Plugins \ {Engine} : Booted[p].status = "installed"
      /\ Booted[Engine].status = "enabled" /\ Booted[Engine].loaded
      /\ Booted[Engine].given = Booted[Engine].config
  BY <1>1, BootedPlugins DEF Types
<1>5. NoCall \in CallRecords /\ NoCall.at = "idle"
  BY PluginAssumption DEF NoCall, CallRecords
<1>6. call' \in [Calls -> CallRecords] /\ \A p : \A c \in Calls : ~Works(c, p)'
  <2>1. \A c \in Calls : call'[c] = NoCall
    BY <1>2
  <2> QED BY <2>1, <1>2, <1>5 DEF Works
<1>7. entry' \in [Plugins -> Files]
  <2>1. Engine \in Plugins
    BY PluginAssumption
  <2>2. [entry[Engine] EXCEPT !.status = "enabled"] \in Files
    BY <2>1, <1>1 DEF Types, Files, Statuses
  <2> QED BY <2>1, <2>2, <1>1, <1>2, PersistTypes
<1>8. Handlers'
  BY <1>2 DEF Handlers, InRank
<1>9. \A p : Nowhere(p, hooks')
  BY <1>2 DEF Nowhere
<1>10. event' \in [Events -> EventRecords]
  <2>1. \A x \in Events : event[x] \in EventRecords
    BY <1>1 DEF Types
  <2> QED BY <2>1, <1>2, EventRecordsThere
<1>11. Walks'
  <2> SUFFICES ASSUME NEW x \in Events
               PROVE  /\ Walking(x, Walked(x))'
                      /\ Meets(event'[x].at, event'[x].next, event'[x].ran, event'[x].first,
                               Walked(x)')
    BY DEF Walks
  <2>1. CASE event[x].at = "before"
    <3>1. event'[x] = event[x] /\ Walking(x, Walked(x))
      BY <2>1, <1>1, <1>2 DEF Walks
    <3> QED BY <2>1, <3>1 DEF Walking, Meets
  <2>2. CASE event[x].at # "before"
    <3>1. event'[x] = [NoEvent EXCEPT !.at = "passed"]
      BY <2>2, <1>2
    <3>2. event'[x].at = "passed" /\ event'[x].next = 1 /\ event'[x].ran = <<>>
          /\ event'[x].first = <<>>
      BY <3>1 DEF NoEvent
    <3> QED BY <3>2, EmptyIsWithin DEF Walking, Meets
  <2> QED BY <2>1, <2>2
<1>12. Types'
  BY <1>2, <1>3, <1>4, <1>6, <1>7, <1>10, NumbersKept DEF Types
<1>13. ASSUME NEW p \in Plugins PROVE Good(p)'
  <2>1. IsSilent(p)'
    BY <1>9 DEF IsSilent
  <2>2. IsLoaded(p)'
    BY <1>2, <1>4, <1>6 DEF IsLoaded
  <2>3. OneWorks(p)'
    BY <1>6 DEF OneWorks
  <2>4. ASSUME (p \in Orderly)' PROVE Follows(p)'
    BY <2>4, <1>2, <1>4, <1>6, <1>9 DEF Follows, AtRest, Orderly
  <2>5. IsGiven(p)'
    BY <1>2, <1>4, <1>6 DEF IsGiven
  <2> QED BY <2>1, <2>2, <2>3, <2>4, <2>5 DEF Good
<1> QED BY <1>8, <1>11, <1>12, <1>13 DEF IInv, AllGood

\* Events change nothing but themselves.
LEMMA EventKeeps ==
    ASSUME IInv, NEW x \in Events, Emit(x) \/ Execute(x)
    PROVE  IInv'
<1>1. Types /\ Handlers /\ Walks /\ AllGood
  BY DEF IInv
<1>2. event' \in [Events -> EventRecords] /\ Walks'
  BY <1>1, EmitWalks, ExecuteWalks
<1>3. UNCHANGED <<plugin, entry, hooks, call, overlapped, threw, used>>
  BY DEF Emit, Execute
<1>4. Handlers'
  BY <1>1, <1>3 DEF Handlers, InRank
<1>5. Types'
  BY <1>1, <1>2, <1>3, NumbersKept DEF Types
<1>6. ASSUME NEW q \in Plugins PROVE Good(q)'
  <2>1. Good(q) /\ \A d \in Calls : (Works(d, q)' <=> Works(d, q)) /\ call'[d] = call[d]
    BY <1>1, <1>3 DEF AllGood, Works
  <2> QED BY <2>1, <1>3, OthersStay
<1> QED BY <1>2, <1>4, <1>5, <1>6 DEF IInv, AllGood

----------------------------------------------------------------------------
(* The theorems.                                                            *)

\* The gateway starts with the invariant.
LEMMA InitHolds == Init => IInv
<1> SUFFICES ASSUME Init PROVE IInv
  OBVIOUS
<1>1. used \in UsedRecords /\ used.configs = 0
  BY PluginAssumption DEF Init, UsedRecords
<1>2. entry \in [Plugins -> Files]
  <2> DEFINE there(p) == p \in InFile
             r(p) == [there |-> there(p), status |-> "installed", config |-> 0]
  <2>1. entry = [p \in Plugins |-> r(p)]
    BY DEF Init
  <2>2. \A p : there(p) \in BOOLEAN
    OBVIOUS
  <2>3. 0 \in Numbers /\ "installed" \in Statuses
    BY <1>1 DEF Numbers, Statuses
  <2> HIDE DEF there
  <2>4. \A p : r(p) \in Files
    BY <2>2, <2>3 DEF Files
  <2> HIDE DEF r
  <2> QED BY <2>1, <2>4
<1>3. /\ plugin \in [Plugins -> Plugs]
      /\ \A p \in Plugins \ {Engine} : plugin[p].status = "installed"
      /\ plugin[Engine].status = "enabled" /\ plugin[Engine].loaded
      /\ plugin[Engine].given = plugin[Engine].config
  <2>1. plugin = Booted
    BY DEF Init
  <2> QED BY <2>1, <1>1, <1>2, BootedPlugins
<1>4. NoCall \in CallRecords /\ NoCall.at = "idle"
  BY PluginAssumption DEF NoCall, CallRecords
<1>5. call \in [Calls -> CallRecords] /\ \A p : \A c \in Calls : ~Works(c, p)
  <2>1. call = [c \in Calls |-> NoCall]
    BY DEF Init
  <2> QED BY <2>1, <1>4 DEF Works
<1>6. event \in [Events -> EventRecords] /\ \A x \in Events : event[x] = NoEvent
  <2>1. event = [x \in Events |-> NoEvent]
    BY DEF Init
  <2> QED BY <2>1, EventRecordsThere
<1>7. Handlers /\ \A p : Nowhere(p, hooks)
  BY DEF Init, Handlers, InRank, Nowhere
<1>8. Walks
  <2>1. NoEvent.at = "before" /\ NoEvent.next = 1 /\ NoEvent.ran = <<>> /\ NoEvent.first = <<>>
    BY DEF NoEvent
  <2> QED BY <2>1, <1>6 DEF Walks, Walking, Meets
<1>9. Types
  BY <1>1, <1>2, <1>3, <1>5, <1>6 DEF Types, Init
<1>10. ASSUME NEW p \in Plugins PROVE Good(p)
  <2>1. IsSilent(p)
    BY <1>7 DEF IsSilent
  <2>2. IsLoaded(p)
    BY <1>3, <1>5 DEF IsLoaded
  <2>3. OneWorks(p)
    BY <1>5 DEF OneWorks
  <2>4. ASSUME p \in Orderly PROVE Follows(p)
    BY <2>4, <1>3, <1>5, <1>7 DEF Follows, AtRest, Orderly
  <2>5. IsGiven(p)
    BY <1>3, <1>5 DEF IsGiven
  <2> QED BY <2>1, <2>2, <2>3, <2>4, <2>5 DEF Good
<1> QED BY <1>7, <1>8, <1>9, <1>10 DEF IInv, AllGood

\* Every step keeps the invariant.
LEMMA NextKeeps == IInv /\ [Next]_vars => IInv'
<1> SUFFICES ASSUME IInv, [Next]_vars PROVE IInv'
  OBVIOUS
<1>1. ASSUME NEW c \in Calls, NEW p \in Plugins, Ask(c, p) PROVE IInv'
  BY <1>1, AskKeeps
<1>2. ASSUME NEW c \in Calls, Step(c) PROVE IInv'
  BY <1>2, LoadedKeeps, EnabledKeeps, EnableThrowsKeeps, DisabledKeeps, DisableThrowsKeeps
     DEF Step
<1>3. ASSUME NEW p \in Plugins \ {Engine}, RequireFails(p) PROVE IInv'
  BY <1>3, RequireFailsKeeps
<1>4. ASSUME NEW p \in Plugins, UpdateConfig(p) PROVE IInv'
  BY <1>4, UpdateConfigKeeps
<1>5. ASSUME NEW x \in Events, Emit(x) \/ Execute(x) PROVE IInv'
  BY <1>5, EventKeeps
<1>6. CASE Restart
  BY <1>6, RestartKeeps
<1>7. CASE UNCHANGED vars
  <2>1. UNCHANGED <<plugin, entry, hooks, call, event, overlapped, threw, used>>
    BY <1>7 DEF vars
  <2>2. Types /\ Handlers /\ Walks /\ AllGood
    BY DEF IInv
  <2>3. /\ Handlers' /\ event' \in [Events -> EventRecords] /\ Walks'
    BY <2>1, <2>2, HooksStay
  <2>4. Types'
    BY <2>1, <2>2, <2>3, NumbersKept DEF Types
  <2>5. ASSUME NEW q \in Plugins PROVE Good(q)'
    <3>1. Good(q) /\ \A d \in Calls : (Works(d, q)' <=> Works(d, q)) /\ call'[d] = call[d]
      BY <2>1, <2>2 DEF AllGood, Works
    <3> QED BY <3>1, <2>1, OthersStay
  <2> QED BY <2>3, <2>4, <2>5 DEF IInv, AllGood
<1> QED BY <1>1, <1>2, <1>3, <1>4, <1>5, <1>6, <1>7 DEF Next

\* The invariant holds in every state of the plugins.
LEMMA PluginInvariant == Spec => []IInv
<1>1. Init => IInv
  BY InitHolds
<1>2. IInv /\ [Next]_vars => IInv'
  BY NextKeeps
<1> QED BY <1>1, <1>2, PTL DEF Spec

\* Every variable has its type, and the handlers stay sorted by their priority whatever is
\* registered and removed (HookManager.register, unregisterPlugin).
THEOREM PluginTypes == Spec => []TypeOK
<1>1. IInv => TypeOK
  <2> SUFFICES ASSUME IInv PROVE TypeOK
    OBVIOUS
  <2>1. Types /\ Handlers
    BY DEF IInv
  <2>2. Numbers \subseteq 0..MaxConfigs
    BY <2>1, PluginAssumption DEF Types, UsedRecords, Numbers
  <2>3. Plugs \subseteq Instances /\ Files \subseteq Entries
    BY <2>2 DEF Plugs, Files, Instances, Entries
  <2>4. plugin \in [Plugins -> Instances] /\ entry \in [Plugins -> Entries]
    <3>1. plugin \in [Plugins -> Plugs] /\ entry \in [Plugins -> Files]
      BY <2>1 DEF Types
    <3> QED BY <3>1, <2>3
  <2>5. \A c \in Calls : call[c].job \in Jobs \cup {"none"} /\ call[c].of \in Plugins
    BY <2>1 DEF Types, CallRecords
  <2>6. \A x \in Events : event[x].at \in {"before", "running", "passed", "stopped"}
    BY <2>1 DEF Types, EventRecords
  <2>7. hooks \in Seq(Plugins) /\ \A i, j \in DOMAIN hooks : i < j => Rank[hooks[i]] <= Rank[hooks[j]]
    BY <2>1 DEF Handlers, InRank
  <2> QED BY <2>1, <2>4, <2>5, <2>6, <2>7 DEF TypeOK, Types
<1> QED BY <1>1, PluginInvariant, PTL

\* A plugin that reads disabled has no handler left when nobody works on it, and one about which
\* calls did not overlap and that threw nothing has its handler exactly when it reads enabled,
\* and once (PluginLoaderService.enablePlugin, disablePlugin).
THEOREM HandlersFollowStatus == Spec => []HooksFollowStatus
<1>1. IInv => HooksFollowStatus
  <2> SUFFICES ASSUME IInv, NEW p \in Plugins, ~Busy(p)
               PROVE  /\ plugin[p].status = "disabled" => p \notin Range(hooks)
                      /\ p \notin {Engine} \cup overlapped \cup threw =>
                            Cardinality({i \in DOMAIN hooks : hooks[i] = p}) =
                                IF plugin[p].status = "enabled" THEN 1 ELSE 0
    BY DEF HooksFollowStatus
  <2>1. Good(p)
    BY DEF IInv, AllGood
  <2>2. plugin[p].status = "disabled" => p \notin Range(hooks)
    BY <2>1 DEF Good, IsSilent, Nowhere, Range
  <2>3. ASSUME p \notin {Engine} \cup overlapped \cup threw
        PROVE  Cardinality({i \in DOMAIN hooks : hooks[i] = p}) =
                  IF plugin[p].status = "enabled" THEN 1 ELSE 0
    <3>1. AtRest(p)
      BY <2>1, <2>3 DEF Good, Follows, Orderly
    <3>2. CASE plugin[p].status = "enabled"
      <4>1. PICK i \in DOMAIN hooks :
               hooks[i] = p /\ \A j \in DOMAIN hooks : hooks[j] = p => j = i
        BY <3>1, <3>2 DEF AtRest, Once
      <4>2. {j \in DOMAIN hooks : hooks[j] = p} = {i}
        BY <4>1
      <4>3. Cardinality({i}) = 1
        BY FS_Singleton
      <4> QED BY <3>2, <4>2, <4>3
    <3>3. CASE plugin[p].status # "enabled"
      <4>1. {i \in DOMAIN hooks : hooks[i] = p} = {}
        BY <3>1, <3>3 DEF AtRest, Nowhere
      <4> QED BY <3>3, <4>1, FS_EmptySet
    <3> QED BY <3>2, <3>3
  <2> QED BY <2>2, <2>3
<1> QED BY <1>1, PluginInvariant, PTL

\* An event reaches the handlers it found, each once and in their order, and all of them unless
\* one stops it, as long as none is registered meanwhile (HookManager.execute).
THEOREM EventsReachHandlers == Spec => []EveryHandlerOnce
<1>1. IInv => EveryHandlerOnce
  <2> SUFFICES ASSUME IInv, NEW x \in Events, ~event[x].grown
               PROVE  /\ IsPrefix(event[x].ran, event[x].first)
                      /\ event[x].at = "passed" => event[x].ran = event[x].first
    BY DEF EveryHandlerOnce
  <2> DEFINE r == event[x].ran
             f == event[x].first
  <2>1. r \in Seq(Plugins) /\ f \in Seq(Plugins)
    BY DEF IInv, Types, EventRecords
  <2>2. /\ Len(r) <= Len(f) /\ \A i \in 1..Len(r) : r[i] = f[i]
        /\ event[x].at = "passed" => Len(r) = Len(f)
    BY DEF IInv, Walks, Walking
  <2> HIDE DEF r, f
  <2>3. SubSeq(r, 1, Len(r)) = SubSeq(f, 1, Len(r))
    <3>1. /\ SubSeq(r, 1, Len(r)) \in Seq(Plugins) /\ Len(SubSeq(r, 1, Len(r))) = Len(r)
          /\ \A i \in 1..Len(r) : SubSeq(r, 1, Len(r))[i] = r[i]
      BY <2>1
    <3>2. /\ SubSeq(f, 1, Len(r)) \in Seq(Plugins) /\ Len(SubSeq(f, 1, Len(r))) = Len(r)
          /\ \A i \in 1..Len(r) : SubSeq(f, 1, Len(r))[i] = f[i]
      BY <2>1, <2>2
    <3> QED BY <3>1, <3>2, <2>2
  <2>4. ASSUME Len(r) = Len(f) PROVE r = f
    BY <2>4, <2>1, <2>2
  <2>5. IsPrefix(r, f)
    BY <2>2, <2>3 DEF IsPrefix
  <2> QED BY <2>2, <2>4, <2>5 DEF r, f
<1> QED BY <1>1, PluginInvariant, PTL

\* An event that has passed has been through every handler it found, in their order, whatever was
\* registered and removed meanwhile (HookManager.register, unregisterPlugin, execute).
THEOREM EventsMissNobody == Spec => []NobodyMissed
<1>1. IInv => NobodyMissed
  BY DEF IInv, Walks, Meets, NobodyMissed
<1> QED BY <1>1, PluginInvariant, PTL

\* A plugin that listens and is enabled runs with the config there is, unless calls or a change
\* of the config overlapped with its enabling (PluginLoaderService.updatePluginConfig).
THEOREM ConfigsAreKnown == Spec => []ListenerIsCurrent
<1>1. IInv => ListenerIsCurrent
  <2>1. Listens \subseteq Plugins
    BY PluginAssumption
  <2> QED BY <2>1 DEF IInv, AllGood, Good, IsGiven, ListenerIsCurrent
<1> QED BY <1>1, PluginInvariant, PTL
=============================================================================
