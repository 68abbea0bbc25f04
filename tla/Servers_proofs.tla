---------------------------- MODULE Servers_proofs ----------------------------
(* Proofs of MCServers: the subscriptions and the list they keep, one        *)
(* download and one match of an update, and the pings, for every value of    *)
(* the constants. Each component has an inductive invariant of its own.      *)
EXTENDS MCServers, FiniteSetTheorems, FunctionTheorems, WellFoundedInduction, TLAPS

-----------------------------------------------------------------------------
(* The subscriptions: the state of one of them, what its worker or its place *)
(* in the queue knows of it, and the queue.                                  *)
SubRec ==
  [there : {"no", "adding", "in", "left"}, url : Url, offered : Url \cup {NoUrl}, tag : Tags \cup {NoTag},
   hidden : SUBSET Item, retry : BOOLEAN, due : BOOLEAN]
JobRec == [kind : {"add", "update", "check"}, url : Url, tag : Tags \cup {NoTag}, hidden : SUBSET Item]

(* The list has what the tag stands for, but for what is hidden.             *)
Stands(S, L, s, tag) ==
  \A n \in DOMAIN tag.body \ S[s].hidden : n \in DOMAIN L[s] /\ L[s][n] = tag.body[n]

SubOk(S, L, s) ==
  /\ S[s].retry => S[s].there \in {"in", "left"}
  /\ S[s].there \in {"no", "adding"} => L[s] = <<>>
  /\ S[s].there = "adding" => S[s].tag = NoTag
  /\ Stands(S, L, s, S[s].tag)
  /\ DOMAIN L[s] \cap (S[s].hidden \ Pinned) = {}

Carries(w) == w.phase \in {"queued", "fetching", "answered"}
(* A job is a copy: what was hidden then is hidden still, and what its tag   *)
(* stands for is still listed.                                               *)
JobOk(S, L, s, w) ==
  /\ w.phase \in {"free", "queued", "fetching", "answered", "handled"}
  /\ Carries(w) => /\ w.job \in JobRec /\ w.job.hidden \subseteq S[s].hidden /\ Stands(S, L, s, w.job.tag)
                   /\ S[s].there = IF w.job.kind = "add" THEN "adding" ELSE "in"
                   /\ (w.job.kind = "add" => w.job.tag = NoTag)
  /\ w.phase = "answered" =>
       /\ w.kind \in {"body", "same", "failed"} /\ w.tag \in Tags /\ w.moved \in Url \cup {NoUrl}
       /\ w.untried \in BOOLEAN /\ (w.kind = "same" => w.tag = w.job.tag)
AddOk(S, s, w) == S[s].there = "adding" => Carries(w) /\ w.job.kind = "add"

QueueOk(q) ==
  /\ q = [turn |-> q.turn, at |-> q.at] /\ q.turn \in Nat /\ q.at = [s \in Sub |-> q.at[s]]
  /\ \A s \in Queued(q) : q.at[s].turn \in 1..q.turn
  /\ \A s, t \in Queued(q) : q.at[s].turn = q.at[t].turn => s = t
  /\ Cardinality(Working(q)) <= MaxWorkers

SessionOk(p, l, L) ==
  /\ p \in All(L) \cup {Nothing}
  /\ l \in [on : [at : (Sub \X Item) \cup {Nothing}, ver : 0..1], wants : BOOLEAN, asked : BOOLEAN]
  /\ l.on # NoServer /\ ~l.asked => l.on.at = p /\ p # Nothing /\ L[p[1]][p[2]] = l.on.ver

SubsInv ==
  /\ subs \in [Sub -> SubRec] /\ listed \in [Sub -> Offers] /\ feed \in [Url -> Offers]
  /\ \A s \in Sub : SubOk(subs, listed, s) /\ JobOk(subs, listed, s, work.at[s]) /\ AddOk(subs, s, work.at[s])
  /\ QueueOk(work)
  /\ SessionOk(picked, link, listed)

-----------------------------------------------------------------------------
(* The queue. What every handler hands to it: subscriptions and jobs that    *)
(* belong together, but for those of `S` that are about to be queued.        *)
Fits(v, L, q, S, kind) ==
  /\ v.subs \in [Sub -> SubRec] /\ QueueOk(q)
  /\ \A s \in Sub : SubOk(v.subs, L, s) /\ JobOk(v.subs, L, s, q.at[s])
  /\ \A s \in Sub : AddOk(v.subs, s, q.at[s]) \/ (s \in S /\ kind = "add" /\ ~Busy(q, s))

LEMMA WorkingFinite ==
  ASSUME NEW q
  PROVE  IsFiniteSet(Working(q)) /\ Cardinality(Working(q)) \in Nat
<1>1. Working(q) \in SUBSET Sub  BY DEF Working
<1>2. IsFiniteSet(Working(q))  BY <1>1, FS_Subset, SubsAssumption
<1>. QED  BY <1>2, FS_CardinalityType

(* Those ahead of each of some who wait are fewer than `k`: then they are    *)
(* `k` at most. Each one's number of those ahead is its own.                 *)
LEMMA FewAhead ==
  ASSUME NEW alive, IsFiniteSet(alive), NEW turn, \A s \in alive : turn[s] \in Nat,
         \A s, t \in alive : turn[s] = turn[t] => s = t,
         NEW k \in Nat, NEW begun \in SUBSET alive,
         \A s \in begun : Cardinality({t \in alive : turn[t] < turn[s]}) < k
  PROVE  IsFiniteSet(begun) /\ Cardinality(begun) <= k
<1> DEFINE ahead(s) == {t \in alive : turn[t] < turn[s]}
           place == [s \in begun |-> Cardinality(ahead(s))]
<1>1. \A s \in begun : ahead(s) \in SUBSET alive  OBVIOUS
<1>2. \A s \in begun : IsFiniteSet(ahead(s)) /\ Cardinality(ahead(s)) \in Nat
  BY <1>1, FS_Subset, FS_CardinalityType
<1>3. ASSUME NEW s \in begun, NEW t \in begun, turn[s] < turn[t]
      PROVE  Cardinality(ahead(s)) < Cardinality(ahead(t))
  <2>1. s \notin ahead(s)
    <3>1. turn[s] \in Nat  OBVIOUS
    <3>. QED  BY <3>1
  <2>2. ahead(s) \cup {s} \in SUBSET ahead(t)
    <3>1. ASSUME NEW u \in ahead(s)  PROVE  u \in ahead(t)
      <4>1. u \in alive /\ turn[u] < turn[s] /\ turn[u] \in Nat /\ turn[s] \in Nat /\ turn[t] \in Nat  BY <3>1
      <4>. QED  BY <4>1, <1>3
    <3>2. s \in ahead(t)  BY <1>3
    <3>. QED  BY <3>1, <3>2
  <2>3. IsFiniteSet(ahead(s)) /\ IsFiniteSet(ahead(t))  BY <1>2
  <2>4. Cardinality(ahead(s) \cup {s}) = Cardinality(ahead(s)) + 1
    <3> HIDE DEF ahead
    <3>. QED  BY <2>1, <2>3, FS_AddElement
  <2>5. Cardinality(ahead(s) \cup {s}) <= Cardinality(ahead(t))
    <3> HIDE DEF ahead
    <3>. QED  BY <2>2, <2>3, FS_Subset
  <2>. QED
    <3> HIDE DEF ahead
    <3>. QED  BY <2>4, <2>5, <1>2
<1>4. place \in [begun -> 0..(k - 1)]
  <2>1. \A s \in begun : Cardinality(ahead(s)) \in 0..(k - 1)
    <3>1. \A s \in begun : Cardinality(ahead(s)) < k  OBVIOUS
    <3> HIDE DEF ahead
    <3>. QED  BY <1>2, <3>1
  <2>. QED  BY <2>1
<1>5. \A s, t \in begun : place[s] = place[t] => s = t
  <2> SUFFICES ASSUME NEW s \in begun, NEW t \in begun, place[s] = place[t], s # t  PROVE FALSE  OBVIOUS
  <2>1. turn[s] \in Nat /\ turn[t] \in Nat /\ turn[s] # turn[t]  OBVIOUS
  <2>2. turn[s] < turn[t] \/ turn[t] < turn[s]  BY <2>1
  <2>3. place[s] = Cardinality(ahead(s)) /\ place[t] = Cardinality(ahead(t))  OBVIOUS
  <2>4. Cardinality(ahead(s)) < Cardinality(ahead(t)) \/ Cardinality(ahead(t)) < Cardinality(ahead(s))
    BY <2>2, <1>3
  <2>. QED
    <3>1. Cardinality(ahead(s)) = Cardinality(ahead(t))
      <4> HIDE DEF ahead, place
      <4>. QED  BY <2>3
    <3>2. Cardinality(ahead(s)) \in Nat /\ Cardinality(ahead(t)) \in Nat  BY <1>2
    <3> HIDE DEF ahead
    <3>. QED  BY <3>1, <3>2, <2>4
<1>6. place \in Injection(begun, 0..(k - 1))
  <2> HIDE DEF place
  <2>. QED  BY <1>4, <1>5 DEF Injection, IsInjective
<1>7. IsFiniteSet(0..(k - 1)) /\ Cardinality(0..(k - 1)) = k
  <2>1. IsFiniteSet(0..(k - 1)) /\ Cardinality(0..(k - 1)) = IF 0 > k - 1 THEN 0 ELSE (k - 1) - 0 + 1
    BY FS_Interval
  <2>. QED  BY <2>1
<1>. QED
  <2> HIDE DEF place
  <2>. QED  BY <1>6, <1>7, FS_Injection

LEMMA DrainOk ==
  ASSUME NEW v, NEW L, NEW q, Fits(v, L, q, {}, "update")
  PROVE  Fits(v, L, Drain(v, q), {}, "update")
<1> DEFINE alive == {s \in Queued(q) : q.at[s].job.kind = "add" \/ v.subs[s].there = "in"}
           ahead(s) == {t \in alive : q.at[t].turn < q.at[s].turn}
           begun == {s \in alive : Cardinality(ahead(s)) + Cardinality(Working(q)) < MaxWorkers}
           new == Drain(v, q)
           turn == [s \in Sub |-> q.at[s].turn]
           tunnel == v.on # NoServer
<1>0. /\ QueueOk(q) /\ v.subs \in [Sub -> SubRec]
      /\ \A s \in Sub : SubOk(v.subs, L, s) /\ JobOk(v.subs, L, s, q.at[s]) /\ AddOk(v.subs, s, q.at[s])
  BY DEF Fits
<1>1. alive = Queued(q)
  <2>1. \A s \in Queued(q) : Carries(q.at[s])  BY DEF Queued, Carries
  <2>2. \A s \in Queued(q) : s \in Sub  BY DEF Queued
  <2>. QED  BY <1>0, <2>1, <2>2 DEF JobOk
<1>2. new = [turn |-> IF alive = begun THEN 0 ELSE q.turn,
             at |-> [s \in Sub |-> IF s \in begun
               THEN [phase |-> "fetching", tunnel |-> tunnel, job |-> q.at[s].job]
               ELSE IF s \in Queued(q) \ alive THEN Free ELSE q.at[s]]]
  BY DEF Drain
<1> HIDE DEF new
<1>3. \A s \in Sub : new.at[s] = IF s \in begun
        THEN [phase |-> "fetching", tunnel |-> tunnel, job |-> q.at[s].job] ELSE q.at[s]
  <2> HIDE DEF alive, begun, tunnel
  <2>. QED  BY <1>1, <1>2
<1> HIDE DEF tunnel
<1>8. \A s \in begun : s \in Sub => new.at[s].phase = "fetching" /\ new.at[s].job = q.at[s].job
  <2> SUFFICES ASSUME NEW s \in begun, s \in Sub
               PROVE  new.at[s].phase = "fetching" /\ new.at[s].job = q.at[s].job
    OBVIOUS
  <2> HIDE DEF begun
  <2>1. PICK t : t = tunnel  OBVIOUS
  <2>2. new.at[s] = [phase |-> "fetching", tunnel |-> t, job |-> q.at[s].job]  BY <1>3, <2>1, Zenon
  <2>. QED  BY ONLY <2>2
<1>4. begun \subseteq alive /\ alive \subseteq Sub /\ \A s \in alive : q.at[s].phase = "queued"
  <2>1. begun \subseteq alive  OBVIOUS
  <2>. QED  BY <2>1, <1>1 DEF Queued
<1>5. \A s \in Sub : JobOk(v.subs, L, s, new.at[s]) /\ AddOk(v.subs, s, new.at[s])
  <2> HIDE DEF alive, begun
  <2> SUFFICES ASSUME NEW s \in Sub  PROVE JobOk(v.subs, L, s, new.at[s])
      /\ AddOk(v.subs, s, new.at[s])  OBVIOUS
  <2>1. CASE s \in begun
    <3>1. q.at[s].phase = "queued"  BY <1>4, <2>1
    <3>2. new.at[s].phase = "fetching" /\ new.at[s].job = q.at[s].job  BY <1>8, <2>1
    <3>. QED  BY <1>0, <3>1, <3>2 DEF JobOk, AddOk, Carries
  <2>. QED  BY <1>0, <1>3, <2>1
<1>6. QueueOk(new)
  <2> HIDE DEF begun
  <2>1. new = [turn |-> new.turn, at |-> new.at] /\ new.at = [s \in Sub |-> new.at[s]]
    <3> HIDE DEF alive
    <3>. QED  BY <1>2
  <2>2. new.turn \in Nat
    <3>1. new.turn = IF alive = begun THEN 0 ELSE q.turn  BY <1>2
    <3> HIDE DEF alive
    <3>. QED  BY <3>1, <1>0 DEF QueueOk
  <2>3. Queued(new) = alive \ begun
    <3> HIDE DEF alive
    <3>1. ASSUME NEW s \in Sub  PROVE new.at[s].phase = "queued" <=> s \in alive \ begun
      <4>1. CASE s \in begun  BY <4>1, <1>8
      <4>2. CASE s \notin begun  BY <4>2, <1>3, <1>1, <1>4 DEF Queued
      <4>. QED  BY <4>1, <4>2
    <3>. QED  BY <3>1, <1>4 DEF Queued
  <2>4. \A s \in Queued(new) : new.at[s] = q.at[s] /\ s \in Queued(q) /\ s \in Sub /\ new.turn = q.turn
    <3> SUFFICES ASSUME NEW s \in alive \ begun  PROVE new.at[s] = q.at[s] /\ s \in Queued(q) /\ s \in Sub
        /\ new.turn = q.turn
      BY <2>3
    <3>1. new.turn = IF alive = begun THEN 0 ELSE q.turn  BY <1>2
    <3> HIDE DEF alive
    <3>. QED  BY <1>1, <1>3, <1>4, <3>1
  <2>5. /\ \A s \in Queued(new) : new.at[s].turn \in 1..new.turn
        /\ \A s, t \in Queued(new) : new.at[s].turn = new.at[t].turn => s = t
    <3> HIDE DEF alive
    <3>. QED  BY <2>4, <1>0 DEF QueueOk
  <2>6. Working(new) = Working(q) \cup begun /\ Working(q) \cap begun = {}
    <3> HIDE DEF alive
    <3>1. ASSUME NEW s \in Sub
          PROVE  (s \in Working(new) <=> s \in Working(q) \/ s \in begun) /\ ~(s \in Working(q) /\ s \in begun)
      <4>1. CASE s \in begun
        <5>1. new.at[s].phase = "fetching" /\ q.at[s].phase = "queued"  BY <4>1, <1>8, <1>4
        <5>. QED  BY <4>1, <5>1 DEF Working
      <4>2. CASE s \notin begun  BY <4>2, <1>3 DEF Working
      <4>. QED  BY <4>1, <4>2
    <3>2. Working(new) \subseteq Sub /\ Working(q) \subseteq Sub /\ begun \subseteq Sub  BY <1>4 DEF Working
    <3>. QED  BY <3>1, <3>2
  <2>7. Cardinality(Working(new)) <= MaxWorkers
    <3>1. IsFiniteSet(Working(q)) /\ Cardinality(Working(q)) \in Nat  BY WorkingFinite
    <3>2. CASE begun = {}  BY <3>2, <2>6, <1>0 DEF QueueOk
    <3>3. CASE begun # {}
      <4> DEFINE k == MaxWorkers - Cardinality(Working(q))
      <4>1. \A s \in begun : Cardinality({t \in alive : turn[t] < turn[s]}) \in Nat
                             /\ Cardinality({t \in alive : turn[t] < turn[s]}) < k
        <5>1. ASSUME NEW s \in begun
              PROVE  {t \in alive : turn[t] < turn[s]} = ahead(s)
                        /\ {t \in alive : turn[t] < turn[s]} \in SUBSET Sub
          <6>1. \A t \in alive \cup begun : turn[t] = q.at[t].turn  BY <1>4
          <6>. QED
            <7> HIDE DEF turn
            <7>. QED  BY <6>1, <1>4
        <5>2. \A s \in begun : Cardinality(ahead(s)) + Cardinality(Working(q)) < MaxWorkers  BY DEF begun
        <5>3. \A s \in begun : Cardinality({t \in alive : turn[t] < turn[s]}) \in Nat
          BY <5>1, FS_Subset, FS_CardinalityType, SubsAssumption
        <5>4. ASSUME NEW s \in begun,
                  Cardinality({t \in alive : turn[t] < turn[s]}) + Cardinality(Working(q)) < MaxWorkers
              PROVE  Cardinality({t \in alive : turn[t] < turn[s]}) < k
          <6>1. \A a, b \in Nat, m \in Nat : a + b < m => a < m - b  OBVIOUS
          <6>. QED  BY ONLY <6>1, <5>3, <5>4, <3>1, SubsAssumption
        <5>. QED
          <6>1. ASSUME NEW s \in begun
                PROVE  Cardinality({t \in alive : turn[t] < turn[s]}) + Cardinality(Working(q)) < MaxWorkers
            BY <5>1, <5>2
          <6> HIDE DEF alive, turn, k
          <6>. QED  BY <5>3, <5>4, <6>1
      <4>2. k \in Nat
        <5>1. PICK s \in begun : TRUE  BY <3>3
        <5>2. \A c \in Nat, b \in Nat, m \in Nat : c < m - b => m - b \in Nat  OBVIOUS
        <5>. QED  BY <5>1, <5>2, <4>1, <3>1, SubsAssumption
      <4>3. IsFiniteSet(alive)
        <5>1. alive \in SUBSET Sub  BY <1>4
        <5> HIDE DEF alive
        <5>. QED  BY <5>1, FS_Subset, SubsAssumption
      <4>4. /\ \A s \in alive : turn[s] \in Nat
            /\ \A s, t \in alive : turn[s] = turn[t] => s = t
        <5>1. \A s \in alive : turn[s] = q.at[s].turn /\ s \in Queued(q)  BY <1>1, <1>4
        <5> HIDE DEF alive, turn
        <5>. QED  BY <5>1, <1>0 DEF QueueOk
      <4>5. begun \in SUBSET alive  BY <1>4
      <4>6. IsFiniteSet(begun) /\ Cardinality(begun) <= k
        <5>1. \A s \in begun : Cardinality({t \in alive : turn[t] < turn[s]}) < k  BY <4>1
        <5> HIDE DEF alive, turn, k
        <5>. QED  BY <4>2, <4>3, <4>4, <4>5, <5>1, FewAhead
      <4>7. Cardinality(Working(new)) = Cardinality(Working(q)) + Cardinality(begun)
        <5>1. Cardinality(Working(q) \cup begun)
                = Cardinality(Working(q)) + Cardinality(begun) - Cardinality(Working(q) \cap begun)
          BY <3>1, <4>6, FS_Union
        <5>2. Cardinality(begun) \in Nat  BY <4>6, FS_CardinalityType
        <5>3. Cardinality(Working(q) \cap begun) = 0  BY <2>6, FS_EmptySet
        <5>4. Cardinality(Working(new)) = Cardinality(Working(q) \cup begun)  BY <2>6
        <5>5. \A a, b, c, d \in Nat : d = 0 => a + b - d = a + b  OBVIOUS
        <5>. QED  BY <5>1, <5>2, <5>3, <5>4, <5>5, <3>1
      <4>8. Cardinality(begun) \in Nat  BY <4>6, FS_CardinalityType
      <4>9. \A a, b, m \in Nat : b <= m - a => a + b <= m  OBVIOUS
      <4>. QED
        <5>1. Cardinality(begun) <= MaxWorkers - Cardinality(Working(q))  BY <4>6
        <5>. QED  BY ONLY <5>1, <4>7, <4>8, <4>9, <3>1, SubsAssumption
    <3>. QED  BY <3>2, <3>3
  <2>. QED  BY <2>1, <2>2, <2>5, <2>7 DEF QueueOk
<1>7. Fits(v, L, new, {}, "update")  BY <1>0, <1>5, <1>6 DEF Fits
<1>. QED  BY <1>7 DEF new

LEMMA EnqueueAllOk ==
  ASSUME NEW v, NEW L, NEW q, NEW S \in SUBSET Sub, NEW kind \in {"add", "update", "check"},
         Fits(v, L, q, S, kind),
         \A s \in S : ~Busy(q, s) => v.subs[s].there = IF kind = "add" THEN "adding" ELSE "in"
  PROVE  Fits(v, L, EnqueueAll(v, q, S, kind), {}, "update")
<1> DEFINE new == {s \in S : ~Busy(q, s)}
           n == Cardinality(new)
           order == CHOOSE f \in [new -> 1..n] : IsInjective(f)
           put == [turn |-> q.turn + n,
                   at |-> [s \in Sub |-> IF s \in new
                      THEN [phase |-> "queued", turn |-> q.turn + order[s], job |-> Job(v, s, kind)]
                      ELSE q.at[s]]]
<1>0. /\ QueueOk(q) /\ v.subs \in [Sub -> SubRec]
      /\ \A s \in Sub : SubOk(v.subs, L, s) /\ JobOk(v.subs, L, s, q.at[s])
      /\ \A s \in Sub : AddOk(v.subs, s, q.at[s]) \/ (s \in S /\ kind = "add" /\ ~Busy(q, s))
  BY DEF Fits
<1>1. EnqueueAll(v, q, S, kind) = IF new = {} THEN q ELSE Drain(v, put)  BY DEF EnqueueAll
<1>2. CASE new = {}
  <2>1. \A s \in Sub : AddOk(v.subs, s, q.at[s])  BY <1>0, <1>2
  <2>. QED  BY <1>0, <1>1, <1>2, <2>1 DEF Fits
<1>3. CASE new # {}
  <2>1. new \in SUBSET Sub /\ IsFiniteSet(new) /\ n \in Nat
    <3>1. new \in SUBSET Sub  OBVIOUS
    <3> HIDE DEF new
    <3>. QED  BY <3>1, FS_Subset, FS_CardinalityType, SubsAssumption
  <2>2. order \in [new -> 1..n] /\ \A s, t \in new : order[s] = order[t] => s = t
    <3>1. \E f \in [new -> 1..n] : IsInjective(f)
      <4>1. ExistsBijection(1..n, new)
        <5> HIDE DEF new
        <5>. QED  BY <2>1, FS_CardinalityType
      <4>2. ExistsBijection(new, 1..n)  BY <4>1, Fun_ExistsBijSymmetric
      <4> HIDE DEF n, new
      <4>3. PICK f : f \in Bijection(new, 1..n)  BY <4>2, Fun_ExistsBij
      <4>. QED  BY <4>3 DEF Bijection, Injection
    <3> HIDE DEF new
    <3>2. order \in [new -> 1..n] /\ IsInjective(order)
      <4> HIDE DEF n
      <4>. QED  BY <3>1
    <3> HIDE DEF n, order
    <3>. QED  BY <3>2 DEF IsInjective
  <2> HIDE DEF n, order, put
  <2>3. put.turn = q.turn + n /\ put.turn \in Nat  BY <2>1, <1>0 DEF put, QueueOk
  <2>4. \A s \in Sub : put.at[s] = IF s \in new
          THEN [phase |-> "queued", turn |-> q.turn + order[s], job |-> Job(v, s, kind)] ELSE q.at[s]
    <3> HIDE DEF new
    <3>. QED  BY DEF put
  <2>5. put = [turn |-> put.turn, at |-> put.at] /\ put.at = [s \in Sub |-> put.at[s]]
    <3> HIDE DEF new
    <3>. QED  BY DEF put
  <2>6. \A s \in new : s \in Sub /\ s \in S /\ ~Busy(q, s) /\ q.at[s].phase = "free" /\ order[s] \in 1..n
    <3>1. \A s \in new : order[s] \in 1..n
      <4> HIDE DEF new
      <4>. QED  BY <2>2
    <3>. QED  BY <3>1 DEF Busy
  <2>7. \A s \in new : put.at[s].phase = "queued" /\ put.at[s].turn = q.turn + order[s]
            /\ put.at[s].job = Job(v, s, kind)
    <3> SUFFICES ASSUME NEW s \in new
                 PROVE  put.at[s].phase = "queued" /\ put.at[s].turn = q.turn + order[s]
                           /\ put.at[s].job = Job(v, s, kind)
      OBVIOUS
    <3> HIDE DEF new
    <3>1. PICK t : t = q.turn + order[s]  OBVIOUS
    <3>2. PICK j : j = Job(v, s, kind)  OBVIOUS
    <3>3. put.at[s] = [phase |-> "queued", turn |-> t, job |-> j]  BY <2>4, <2>6, <3>1, <3>2, Zenon
    <3>4. put.at[s].phase = "queued" /\ put.at[s].turn = t /\ put.at[s].job = j  BY ONLY <3>3
    <3>. QED  BY <3>1, <3>2, <3>4
  <2>8. \A s \in Sub \ new : put.at[s] = q.at[s]
    <3> HIDE DEF new
    <3>. QED  BY <2>4
  <2>9. \A s \in new : JobOk(v.subs, L, s, put.at[s]) /\ AddOk(v.subs, s, put.at[s])
    <3> SUFFICES ASSUME NEW s \in new  PROVE JobOk(v.subs, L, s, put.at[s])
        /\ AddOk(v.subs, s, put.at[s])  OBVIOUS
    <3>1. v.subs[s].there = IF kind = "add" THEN "adding" ELSE "in"  OBVIOUS
    <3> HIDE DEF new
    <3>2. s \in Sub /\ v.subs[s] \in SubRec /\ SubOk(v.subs, L, s)  BY <1>0, <2>6
    <3>3. Job(v, s, kind) \in JobRec /\ Job(v, s, kind).kind = kind
          /\ Job(v, s, kind).hidden = v.subs[s].hidden /\ Job(v, s, kind).tag = v.subs[s].tag
      BY <3>2 DEF Job, JobRec, SubRec
    <3>4. Carries(put.at[s]) /\ put.at[s].phase = "queued"  BY <2>7 DEF Carries
    <3>5. Stands(v.subs, L, s, put.at[s].job.tag)  BY <3>2, <3>3, <2>7 DEF SubOk
    <3>6. put.at[s].job = Job(v, s, kind)  BY <2>7
    <3>7. v.subs[s].there = IF put.at[s].job.kind = "add" THEN "adding" ELSE "in"  BY <3>1, <3>3, <3>6
    <3>10. put.at[s].job.kind = "add" => put.at[s].job.tag = NoTag  BY <3>2, <3>3, <3>6, <3>7 DEF SubOk
    <3>8. JobOk(v.subs, L, s, put.at[s])  BY <3>3, <3>4, <3>5, <3>6, <3>7, <3>10 DEF JobOk
    <3>9. AddOk(v.subs, s, put.at[s])
      <4>1. kind # "add" => v.subs[s].there = "in"  BY <3>1
      <4>. QED  BY <4>1, <3>3, <3>4, <3>6 DEF AddOk
    <3>. QED  BY <3>8, <3>9
  <2>10. \A s \in Sub : JobOk(v.subs, L, s, put.at[s]) /\ AddOk(v.subs, s, put.at[s])
    <3>1. \A s \in Sub \ new : AddOk(v.subs, s, q.at[s])  BY <1>0
    <3> HIDE DEF new
    <3>. QED  BY <1>0, <2>8, <2>9, <3>1
  <2>11. QueueOk(put)
    <3> HIDE DEF new
    <3>1. \A s \in Queued(put) : s \in Sub /\ (s \in new \/ (s \notin new /\ s \in Queued(q) /\ put.at[s] = q.at[s]))
      BY <2>8 DEF Queued
    <3>2. \A s \in new : put.at[s].turn \in (q.turn + 1)..put.turn
      <4>1. \A a, b \in Nat : \A x \in 1..b : a + x \in (a + 1)..(a + b)  OBVIOUS
      <4>. QED  BY <4>1, <2>1, <2>3, <2>6, <2>7, <1>0 DEF QueueOk
    <3>3. \A s \in Queued(put) : s \notin new => put.at[s].turn \in 1..q.turn  BY <3>1, <1>0 DEF QueueOk
    <3>4. \A s \in Queued(put) : put.at[s].turn \in 1..put.turn
      <4>1. \A a, b, x : a \in Nat /\ b \in Nat /\ (x \in 1..a \/ x \in (a + 1)..(a + b)) => x \in 1..(a + b)  OBVIOUS
      <4>. QED  BY <4>1, <2>1, <2>3, <3>1, <3>2, <3>3, <1>0 DEF QueueOk
    <3>5. \A s, t \in Queued(put) : put.at[s].turn = put.at[t].turn => s = t
      <4> SUFFICES ASSUME NEW s \in Queued(put), NEW t \in Queued(put), put.at[s].turn = put.at[t].turn
                   PROVE  s = t
        OBVIOUS
      <4>1. CASE s \in new /\ t \in new
        <5>1. \A a \in Nat, x, y \in 1..n : a + x = a + y => x = y  BY <2>1
        <5>2. order[s] = order[t]  BY <4>1, <5>1, <2>6, <2>7, <1>0 DEF QueueOk
        <5>. QED  BY <4>1, <5>2, <2>2
      <4>2. CASE s \notin new /\ t \notin new
        <5>1. s \in Queued(q) /\ t \in Queued(q) /\ q.at[s].turn = q.at[t].turn  BY <4>2, <3>1
        <5>. QED  BY <5>1, <1>0 DEF QueueOk
      <4>3. ~(s \in new /\ t \notin new) /\ ~(s \notin new /\ t \in new)
        <5>1. \A a, b \in Nat : \A x \in (a + 1)..b, y \in 1..a : x # y  OBVIOUS
        <5>2. \A x \in new, y \in Queued(put) : y \notin new => put.at[x].turn # put.at[y].turn
          BY <5>1, <2>3, <3>2, <3>3, <1>0 DEF QueueOk
        <5>. QED  BY <5>2
      <4>. QED  BY <4>1, <4>2, <4>3
    <3>6. Working(put) = Working(q)
      <4>1. \A s \in Sub : put.at[s].phase \in {"fetching", "answered", "handled"}
                           <=> q.at[s].phase \in {"fetching", "answered", "handled"}
        <5> SUFFICES ASSUME NEW s \in Sub
                     PROVE  put.at[s].phase \in {"fetching", "answered", "handled"}
                              <=> q.at[s].phase \in {"fetching", "answered", "handled"}
          OBVIOUS
        <5>1. CASE s \in new
          <6>1. put.at[s].phase = "queued" /\ q.at[s].phase = "free"  BY <5>1, <2>6, <2>7
          <6>. QED  BY <6>1
        <5>2. CASE s \notin new  BY <5>2, <2>8
        <5>. QED  BY <5>1, <5>2
      <4>. QED  BY <4>1 DEF Working
    <3>. QED  BY <2>3, <2>5, <3>4, <3>5, <3>6, <1>0 DEF QueueOk
  <2>12. Fits(v, L, put, {}, "update")  BY <1>0, <2>10, <2>11 DEF Fits
  <2>13. Fits(v, L, Drain(v, put), {}, "update")  BY <2>12, DrainOk
  <2>14. EnqueueAll(v, q, S, kind) = Drain(v, put)  BY <1>1, <1>3 DEF put, n, order
  <2>. QED  BY <2>13, <2>14
<1>. QED  BY <1>2, <1>3

LEMMA ViaTunnelOk ==
  ASSUME NEW v, NEW L, NEW q, Fits(v, L, q, {}, "update")
  PROVE  Fits(v, L, ViaTunnel(v, q), {}, "update")
<1> DEFINE S == {s \in Sub : v.subs[s].there = "in" /\ v.subs[s].retry}
<1>1. CASE closed \/ v.on = NoServer  BY <1>1 DEF ViaTunnel
<1>2. CASE ~(closed \/ v.on = NoServer)
  <2>1. Fits(v, L, q, S, "update")  BY DEF Fits
  <2>2. S \in SUBSET Sub /\ \A s \in S : v.subs[s].there = "in"  OBVIOUS
  <2>3. ViaTunnel(v, q) = EnqueueAll(v, q, S, "update")  BY <1>2 DEF ViaTunnel
  <2> HIDE DEF S
  <2>4. \A s \in S : ~Busy(q, s) => v.subs[s].there = IF "update" = "add" THEN "adding" ELSE "in"  BY <2>2
  <2>. QED  BY <2>1, <2>2, <2>3, <2>4, EnqueueAllOk
<1>. QED  BY <1>1, <1>2

-----------------------------------------------------------------------------
(* The parts of the invariant, as the handlers are proved against them.      *)
LEMMA InvIs ==
  SubsInv <=> /\ listed \in [Sub -> Offers] /\ feed \in [Url -> Offers]
              /\ Fits(Now, listed, work, {}, "update")
              /\ SessionOk(picked, link, listed)
<1>1. Now.subs = subs  BY DEF Now
<1>. QED  BY <1>1 DEF SubsInv, Fits

(* The same after a step: of what the step queued, or what it left alone.    *)
LEMMA InvAfter ==
  ASSUME NEW v, v.subs = subs', listed' \in [Sub -> Offers], feed' \in [Url -> Offers],
         Fits(v, listed', work', {}, "update"), SessionOk(picked', link', listed')
  PROVE  SubsInv'
BY DEF SubsInv, Fits

LEMMA AllIs ==
  ASSUME NEW L \in [Sub -> Offers], NEW x
  PROVE  x \in All(L) <=> \E s \in Sub, n \in Item : n \in DOMAIN L[s] /\ x = <<s, n>>
<1>1. \A s \in Sub : L[s] \in Offers  OBVIOUS
<1>2. \A b \in Offers : DOMAIN b \subseteq Item  BY DEF Offers
<1>. QED  BY <1>1, <1>2 DEF All

LEMMA OffersAre ==
  ASSUME NEW b
  PROVE  b \in Offers <=> b = [n \in DOMAIN b |-> b[n]] /\ DOMAIN b \subseteq Item
            /\ \A n \in DOMAIN b : b[n] \in 0..1
<1>1. ASSUME b \in Offers
      PROVE  b = [n \in DOMAIN b |-> b[n]] /\ DOMAIN b \subseteq Item /\ \A n \in DOMAIN b : b[n] \in 0..1
  <2>1. PICK N \in SUBSET Item : b \in [N -> 0..1]  BY <1>1 DEF Offers
  <2>. QED  BY <2>1
<1>2. ASSUME b = [n \in DOMAIN b |-> b[n]], DOMAIN b \subseteq Item, \A n \in DOMAIN b : b[n] \in 0..1
      PROVE  b \in Offers
  <2>1. b \in [DOMAIN b -> 0..1] /\ DOMAIN b \in SUBSET Item  BY <1>2
  <2>. QED  BY <2>1 DEF Offers
<1>. QED  BY <1>1, <1>2

LEMMA EmptyOffer == <<>> \in Offers /\ DOMAIN <<>> = {}
<1>1. <<>> = [n \in {} |-> 0] /\ DOMAIN <<>> = {}  OBVIOUS
<1>2. [n \in {} |-> 0] \in [{} -> 0..1]  OBVIOUS
<1>. QED  BY <1>1, <1>2 DEF Offers

LEMMA WithoutOk ==
  ASSUME NEW b \in Offers, NEW H
  PROVE  /\ Without(b, H) \in Offers /\ DOMAIN Without(b, H) = DOMAIN b \ H
         /\ \A n \in DOMAIN b \ H : Without(b, H)[n] = b[n]
<1> DEFINE c == Without(b, H)
<1>1. DOMAIN c = DOMAIN b \ H /\ c = [n \in DOMAIN b \ H |-> b[n]]  BY DEF Without
<1>2. \A n \in DOMAIN b \ H : c[n] = b[n]  BY DEF Without
<1> HIDE DEF c
<1>3. c = [n \in DOMAIN c |-> c[n]]  BY <1>1
<1>4. DOMAIN b \subseteq Item /\ \A n \in DOMAIN b : b[n] \in 0..1  BY OffersAre
<1>5. c \in Offers  BY <1>1, <1>2, <1>3, <1>4, OffersAre
<1>. QED  BY <1>1, <1>2, <1>5 DEF c

LEMMA WithOk ==
  ASSUME NEW b \in Offers, NEW n \in Item, NEW v \in 0..1
  PROVE  With(b, n, v) \in Offers
<1> DEFINE c == With(b, n, v)
<1>1. c = [m \in DOMAIN b \cup {n} |-> IF m = n THEN v ELSE b[m]]  BY DEF With
<1>2. DOMAIN b \subseteq Item /\ \A m \in DOMAIN b : b[m] \in 0..1  BY OffersAre
<1> HIDE DEF c
<1>3. DOMAIN c = DOMAIN b \cup {n} /\ c = [m \in DOMAIN c |-> c[m]] /\ \A m \in DOMAIN c : c[m] \in 0..1
  BY <1>1, <1>2
<1>4. c \in Offers  BY <1>2, <1>3, OffersAre
<1>. QED  BY <1>4 DEF c

LEMMA FirstIs ==
  ASSUME NEW l, NEW S, NEW p \in First(l, S)
  PROVE  p \in All(l) \cup {Nothing}
BY DEF First

(* What stands at a worker or in its place in the queue is another.          *)
LEMMA PutOk ==
  ASSUME NEW q, QueueOk(q), NEW s \in Sub, NEW w,
         w.phase = "free" \/ (w.phase \in {"answered", "handled"} /\ s \in Working(q))
  PROVE  /\ QueueOk([q EXCEPT !.at[s] = w])
         /\ [q EXCEPT !.at[s] = w].at[s] = w
         /\ \A t \in Sub \ {s} : [q EXCEPT !.at[s] = w].at[t] = q.at[t]
<1> DEFINE new == [q EXCEPT !.at[s] = w]
<1>0. q = [turn |-> q.turn, at |-> q.at] /\ q.turn \in Nat /\ q.at = [x \in Sub |-> q.at[x]]  BY DEF QueueOk
<1>1. new.turn = q.turn /\ new.at = [q.at EXCEPT ![s] = w] /\ new = [turn |-> new.turn, at |-> new.at]  BY <1>0
<1> HIDE DEF new
<1>2. new.at[s] = w /\ (\A t \in Sub \ {s} : new.at[t] = q.at[t]) /\ new.at = [x \in Sub |-> new.at[x]]
  BY <1>0, <1>1
<1>3. \A t \in Queued(new) : t \in Queued(q) /\ new.at[t] = q.at[t]
  <2> SUFFICES ASSUME NEW t \in Queued(new)  PROVE t \in Queued(q) /\ new.at[t] = q.at[t]  OBVIOUS
  <2>1. t \in Sub /\ new.at[t].phase = "queued"  BY DEF Queued
  <2>2. t # s  BY <2>1, <1>2
  <2>. QED  BY <2>1, <2>2, <1>2 DEF Queued
<1>4. Working(new) \subseteq Working(q)
  <2> SUFFICES ASSUME NEW t \in Working(new)  PROVE t \in Working(q)  OBVIOUS
  <2>1. t \in Sub /\ new.at[t].phase \in {"fetching", "answered", "handled"}  BY DEF Working
  <2>2. CASE t = s  BY <2>1, <2>2, <1>2
  <2>3. CASE t # s  BY <2>1, <2>3, <1>2 DEF Working
  <2>. QED  BY <2>2, <2>3
<1>5. Cardinality(Working(new)) <= MaxWorkers
  <2>1. Cardinality(Working(new)) <= Cardinality(Working(q))  BY <1>4, WorkingFinite, FS_Subset
  <2>2. Cardinality(Working(q)) <= MaxWorkers  BY DEF QueueOk
  <2>3. Cardinality(Working(new)) \in Nat /\ Cardinality(Working(q)) \in Nat  BY WorkingFinite
  <2>4. \A a, b, c \in Nat : a <= b /\ b <= c => a <= c  OBVIOUS
  <2>. QED  BY ONLY <2>1, <2>2, <2>3, <2>4, SubsAssumption
<1>6. QueueOk(new)  BY <1>0, <1>1, <1>2, <1>3, <1>5 DEF QueueOk
<1>. QED  BY <1>2, <1>6 DEF new

(* A job knows only of its own subscription.                                 *)
LEMMA Elsewhere ==
  ASSUME NEW S, NEW L, NEW S2, NEW L2, NEW t, NEW w, S2[t] = S[t], L2[t] = L[t],
         SubOk(S, L, t), JobOk(S, L, t, w), AddOk(S, t, w)
  PROVE  SubOk(S2, L2, t) /\ JobOk(S2, L2, t, w) /\ AddOk(S2, t, w)
BY DEF SubOk, JobOk, AddOk, Stands

(* One subscription and its job are others: `s` is all there is to look at.  *)
LEMMA OneMoves ==
  ASSUME SubsInv, NEW s \in Sub, NEW v, NEW L, NEW q, NEW S \in SUBSET Sub, NEW kind,
         v.subs \in [Sub -> SubRec], L \in [Sub -> Offers], QueueOk(q),
         \A t \in Sub \ {s} : v.subs[t] = subs[t] /\ L[t] = listed[t] /\ q.at[t] = work.at[t],
         SubOk(v.subs, L, s), JobOk(v.subs, L, s, q.at[s]),
         AddOk(v.subs, s, q.at[s]) \/ (s \in S /\ kind = "add" /\ ~Busy(q, s))
  PROVE  Fits(v, L, q, S, kind)
<1>1. ASSUME NEW t \in Sub \ {s}  PROVE SubOk(v.subs, L, t) /\ JobOk(v.subs, L, t, q.at[t])
          /\ AddOk(v.subs, t, q.at[t])
  <2>1. SubOk(subs, listed, t) /\ JobOk(subs, listed, t, work.at[t]) /\ AddOk(subs, t, work.at[t])
    BY DEF SubsInv
  <2>. QED  BY <2>1, Elsewhere
<1>2. \A t \in Sub : t = s \/ t \in Sub \ {s}  OBVIOUS
<1>3. \A t \in Sub : SubOk(v.subs, L, t) /\ JobOk(v.subs, L, t, q.at[t])  BY <1>1, <1>2
<1>4. \A t \in Sub : AddOk(v.subs, t, q.at[t]) \/ (t \in S /\ kind = "add" /\ ~Busy(q, t))  BY <1>1, <1>2
<1>. QED  BY <1>3, <1>4 DEF Fits

-----------------------------------------------------------------------------
(* The session at the end of a handler.                                      *)
LEMMA SessionStays ==
  ASSUME SubsInv, UNCHANGED <<picked, link, listed>>
  PROVE  SessionOk(picked', link', listed')
BY DEF SubsInv

LEMMA SessionAsked ==
  ASSUME NEW p, NEW l, NEW L, p \in All(L) \cup {Nothing}, NEW k, NEW wish \in BOOLEAN,
         k \in [on : [at : (Sub \X Item) \cup {Nothing}, ver : 0..1], wants : BOOLEAN, asked : BOOLEAN],
         l = [k EXCEPT !.wants = wish, !.asked = TRUE]
  PROVE  SessionOk(p, l, L)
<1>1. l.asked /\ l \in [on : [at : (Sub \X Item) \cup {Nothing}, ver : 0..1], wants : BOOLEAN, asked : BOOLEAN]
  OBVIOUS
<1>. QED  BY <1>1 DEF SessionOk

LEMMA AutoOk ==
  ASSUME SubsInv, picked' = picked, listed' = listed
  PROVE  SessionOk(picked', AutoConnected(link), listed')
<1>1. CASE closed \/ picked = Nothing
  <2>1. AutoConnected(link) = link  BY <1>1 DEF AutoConnected
  <2>. QED  BY <2>1 DEF SubsInv
<1>2. CASE ~(closed \/ picked = Nothing)
  <2>1. AutoConnected(link) = [link EXCEPT !.wants = TRUE, !.asked = TRUE]  BY <1>2 DEF AutoConnected
  <2>. QED  BY <2>1, SessionAsked DEF SubsInv, SessionOk
<1>. QED  BY <1>1, <1>2

(* Nothing but what is looked for, or the clock, changes.                    *)
LEMMA NowFits == ASSUME SubsInv PROVE Fits(Now, listed, work, {}, "update")
BY InvIs

LEMMA DueOk ==
  ASSUME SubsInv
  PROVE  Fits(Now, listed, EnqueueAll(Now, work, Due, "update"), {}, "update")
<1>1. Fits(Now, listed, work, Due, "update")  BY NowFits DEF Fits
<1>2. Due \in SUBSET Sub /\ \A s \in Due : Now.subs[s].there = "in"  BY DEF Due, Now
<1>3. \A s \in Due : ~Busy(work, s) => Now.subs[s].there = IF "update" = "add" THEN "adding" ELSE "in"  BY <1>2
<1>. QED  BY <1>1, <1>2, <1>3, EnqueueAllOk

LEMMA SubsInitInv == SubsInit => SubsInv
<1> SUFFICES ASSUME SubsInit  PROVE SubsInv  OBVIOUS
<1>1. PICK S \in Present :
       /\ subs = [s \in Sub |-> IF s \notin S THEN Unknown(s) ELSE
            [Unknown(s) EXCEPT !.there = "in", !.due = TRUE, !.tag = [url |-> Home[s], body |-> feed[Home[s]]]]]
       /\ listed = [s \in Sub |-> IF s \in S THEN feed[Home[s]] ELSE <<>>]
  BY DEF SubsInit
<1>2. feed \in [Url -> Offers] /\ \A s \in Sub : Home[s] \in Url /\ feed[Home[s]] \in Offers
  <2>1. feed = Original  BY DEF SubsInit
  <2>2. Original \in [Url -> Offers] /\ Home \in [Sub -> Url]  BY SubsAssumption DEF Offers
  <2>. QED  BY <2>1, <2>2
<1>3. ASSUME NEW s \in Sub, s \notin S
      PROVE  /\ subs[s] \in SubRec /\ subs[s].there = "no" /\ ~subs[s].retry /\ subs[s].tag = NoTag
             /\ subs[s].hidden = {} /\ listed[s] = <<>>
  BY <1>1, <1>2, <1>3 DEF Unknown, SubRec
<1>4. ASSUME NEW s \in Sub, s \in S
      PROVE  /\ subs[s] \in SubRec /\ subs[s].there = "in" /\ ~subs[s].retry
             /\ subs[s].tag = [url |-> Home[s], body |-> feed[Home[s]]]
             /\ subs[s].hidden = {} /\ listed[s] = feed[Home[s]]
  <2>1. [url |-> Home[s], body |-> feed[Home[s]]] \in Tags  BY <1>2 DEF Tags
  <2>. QED  BY <1>1, <1>2, <1>4, <2>1 DEF Unknown, SubRec
<1>5. subs \in [Sub -> SubRec] /\ listed \in [Sub -> Offers]
  BY <1>1, <1>3, <1>4, <1>2, EmptyOffer
<1>6. ASSUME NEW s \in Sub  PROVE SubOk(subs, listed, s)
  <2>1. CASE s \notin S  BY <2>1, <1>3, EmptyOffer DEF SubOk, Stands, NoTag
  <2>2. CASE s \in S
    <3>1. subs[s].tag = [url |-> Home[s], body |-> feed[Home[s]]] /\ listed[s] = feed[Home[s]]  BY <2>2, <1>4
    <3>2. subs[s].there = "in" /\ ~subs[s].retry /\ subs[s].hidden = {}  BY <2>2, <1>4, Zenon
    <3>3. subs[s].tag.body = listed[s]  BY ONLY <3>1
    <3>. QED  BY <3>2, <3>3 DEF SubOk, Stands
  <2>. QED  BY <2>1, <2>2
<1>7. work = [turn |-> 0, at |-> [s \in Sub |-> Free]] /\ \A s \in Sub : work.at[s].phase = "free"
  BY DEF SubsInit, Free
<1>8. \A s \in Sub : JobOk(subs, listed, s, work.at[s])  BY <1>7 DEF JobOk, Carries
<1>9. \A s \in Sub : AddOk(subs, s, work.at[s])  BY <1>3, <1>4 DEF AddOk
<1>10. QueueOk(work)
  <2>1. Queued(work) = {} /\ Working(work) = {}  BY <1>7 DEF Queued, Working
  <2>2. Cardinality(Working(work)) = 0 /\ 0 <= MaxWorkers  BY <2>1, FS_EmptySet, SubsAssumption
  <2>. QED  BY <1>7, <2>1, <2>2 DEF QueueOk
<1>11. SessionOk(picked, link, listed)
  <2>1. picked \in All(listed) \cup {Nothing}  BY FirstIs DEF SubsInit
  <2>2. link = [on |-> NoServer, wants |-> FALSE, asked |-> FALSE]  BY DEF SubsInit
  <2>3. link.on = NoServer
        /\ link \in [on : [at : (Sub \X Item) \cup {Nothing}, ver : 0..1], wants : BOOLEAN, asked : BOOLEAN]
    BY <2>2 DEF NoServer
  <2>. QED  BY <2>1, <2>3 DEF SessionOk
<1>. QED  BY <1>2, <1>5, <1>6, <1>8, <1>9, <1>10, <1>11 DEF SubsInv

LEMMA ToggleInv == ASSUME SubsInv, Toggle PROVE SubsInv'
<1>1. /\ UNCHANGED <<subs, listed, feed, work, picked>>
      /\ link' = [link EXCEPT !.wants = ~(IF link.asked THEN link.wants ELSE link.on # NoServer),
             !.asked = TRUE]
  BY DEF Toggle
<1>2. (~(IF link.asked THEN link.wants ELSE link.on # NoServer)) \in BOOLEAN  OBVIOUS
<1>3. SessionOk(picked', link', listed')
  <2>1. /\ picked \in All(listed) \cup {Nothing}
        /\ link \in [on : [at : (Sub \X Item) \cup {Nothing}, ver : 0..1], wants : BOOLEAN, asked : BOOLEAN]
    BY DEF SubsInv, SessionOk
  <2>. QED  BY <1>1, <1>2, <2>1, SessionAsked
<1>. QED  BY <1>1, <1>3 DEF SubsInv

LEMMA SettleInv == ASSUME SubsInv, Settle PROVE SubsInv'
<1>1. PICK served \in BOOLEAN :
       /\ served => link.wants /\ picked # Nothing
       /\ link' = IF served
            THEN [on |-> [at |-> picked, ver |-> listed[picked[1]][picked[2]]], wants |-> TRUE, asked |-> FALSE]
            ELSE [on |-> NoServer, wants |-> FALSE, asked |-> FALSE]
  BY DEF Settle
<1>2. /\ UNCHANGED <<subs, listed, feed, picked>>
      /\ work' = IF (link'.on = NoServer) = (link.on = NoServer) THEN work
                 ELSE ViaTunnel([subs |-> subs, on |-> link'.on], work)
  BY DEF Settle
<1> DEFINE v == [subs |-> subs, on |-> link'.on]
<1>3. v.subs = subs'  BY <1>2
<1>4. Fits(v, listed, work, {}, "update")  BY NowFits DEF Fits, Now
<1>5. Fits(v, listed, work', {}, "update")
  <2>1. Fits(v, listed, ViaTunnel(v, work), {}, "update")  BY <1>4, ViaTunnelOk
  <2>. QED  BY <1>2, <1>4, <2>1
<1>6. picked \in All(listed) \cup {Nothing} /\ listed \in [Sub -> Offers]  BY DEF SubsInv, SessionOk
<1>7. SessionOk(picked', link', listed')
  <2>1. CASE served
    <3>1. picked \in All(listed)  BY <1>1, <1>6, <2>1
    <3>2. PICK s \in Sub, n \in Item : n \in DOMAIN listed[s] /\ picked = <<s, n>>  BY <3>1, <1>6, AllIs
    <3>3. listed[s][n] \in 0..1  BY <1>6, <3>2, OffersAre
    <3>4. picked[1] = s /\ picked[2] = n  BY <3>2
    <3>5. link' = [on |-> [at |-> picked, ver |-> listed[s][n]], wants |-> TRUE, asked |-> FALSE]
      BY <1>1, <2>1, <3>4
    <3>6. link'.on.at = picked /\ link'.on.ver = listed[s][n]  BY <3>5
    <3>7. link' \in [on : [at : (Sub \X Item) \cup {Nothing}, ver : 0..1], wants : BOOLEAN, asked : BOOLEAN]
      BY <3>2, <3>3, <3>5
    <3>8. picked # Nothing  BY <1>1, <2>1
    <3>. QED  BY <1>2, <1>6, <3>4, <3>6, <3>7, <3>8 DEF SessionOk
  <2>2. CASE ~served
    <3>1. link' = [on |-> NoServer, wants |-> FALSE, asked |-> FALSE]  BY <1>1, <2>2
    <3>2. link'.on = NoServer
          /\ link' \in [on : [at : (Sub \X Item) \cup {Nothing}, ver : 0..1], wants : BOOLEAN, asked : BOOLEAN]
      BY <3>1 DEF NoServer
    <3>. QED  BY <1>2, <1>6, <3>2 DEF SessionOk
  <2>. QED  BY <2>1, <2>2
<1>8. feed' \in [Url -> Offers] /\ listed' \in [Sub -> Offers] /\ listed' = listed  BY <1>2 DEF SubsInv
<1> HIDE DEF v
<1>. QED  BY <1>3, <1>5, <1>7, <1>8, InvAfter

LEMMA TimeInv ==
  ASSUME SubsInv, Lock \/ Unlock \/ DueTimer \/ Startup \/ StartupTimer
  PROVE  SubsInv'
<1>1. UNCHANGED <<subs, listed, feed, picked>>  BY DEF Lock, Unlock, DueTimer, Startup, StartupTimer
<1>2. work' = work \/ work' = EnqueueAll(Now, work, Due, "update")
  BY DEF Lock, Unlock, DueTimer, Startup, StartupTimer
<1>3. link' = link \/ link' = AutoConnected(link)  BY DEF Lock, Unlock, DueTimer, Startup, StartupTimer
<1>4. Fits(Now, listed, work', {}, "update")  BY <1>2, NowFits, DueOk
<1>5. SessionOk(picked', link', listed')  BY <1>1, <1>3, AutoOk DEF SubsInv
<1>6. Now.subs = subs' /\ listed' \in [Sub -> Offers] /\ feed' \in [Url -> Offers] /\ listed' = listed
  BY <1>1 DEF Now, SubsInv
<1>. QED  BY <1>4, <1>5, <1>6, InvAfter

LEMMA ProviderInv == ASSUME SubsInv, NEW u \in Url, Provider(u) PROVE SubsInv'
<1>1. UNCHANGED <<subs, listed, work, picked, link>>  BY DEF Provider
<1>2. PICK n \in Item, v \in 0..1 :
        feed' = [feed EXCEPT ![u] = IF n \in DOMAIN @ /\ @[n] = v THEN Without(@, {n}) ELSE With(@, n, v)]
  BY DEF Provider
<1>3. feed[u] \in Offers /\ feed \in [Url -> Offers]  BY DEF SubsInv
<1>4. Without(feed[u], {n}) \in Offers /\ With(feed[u], n, v) \in Offers  BY <1>3, WithoutOk, WithOk
<1>5. feed' \in [Url -> Offers]  BY <1>2, <1>3, <1>4
<1>. QED  BY <1>1, <1>5 DEF SubsInv

-----------------------------------------------------------------------------
(* The commands of the user.                                                 *)
LEMMA AddInv == ASSUME SubsInv, NEW s \in Sub, Add(s) PROVE SubsInv'
<1>1. /\ subs[s].there = "no" /\ ~Busy(work, s)
      /\ subs' = [subs EXCEPT ![s] = [Unknown(s) EXCEPT !.there = "adding"]]
      /\ UNCHANGED <<listed, picked, link, feed>> /\ work' = Enqueue(After, work, s, "add")
  BY DEF Add, Rest
<1>2. After.subs = subs'  BY DEF After
<1>3. /\ subs'[s] \in SubRec /\ subs'[s].there = "adding" /\ ~subs'[s].retry /\ subs'[s].tag = NoTag
      /\ subs'[s].hidden = {}
  BY <1>1, SubsAssumption DEF Unknown, SubRec, SubsInv
<1>4. subs' \in [Sub -> SubRec] /\ \A t \in Sub \ {s} : subs'[t] = subs[t]  BY <1>1, <1>3 DEF SubsInv
<1>5. listed[s] = <<>> /\ work.at[s].phase = "free"  BY <1>1 DEF SubsInv, SubOk, Busy
<1>6. SubOk(subs', listed, s)  BY <1>3, <1>5, EmptyOffer DEF SubOk, Stands, NoTag
<1>7. JobOk(subs', listed, s, work.at[s])  BY <1>5 DEF JobOk, Carries
<1>8. listed \in [Sub -> Offers] /\ QueueOk(work) /\ feed \in [Url -> Offers]  BY DEF SubsInv
<1>9. Fits(After, listed, work, {s}, "add")  BY <1>1, <1>2, <1>4, <1>6, <1>7, <1>8, OneMoves
<1>10. \A t \in {s} : ~Busy(work, t) => After.subs[t].there = IF "add" = "add" THEN "adding" ELSE "in"
  BY <1>2, <1>3
<1>11. Fits(After, listed, work', {}, "update")  BY <1>1, <1>9, <1>10, EnqueueAllOk DEF Enqueue
<1>. QED  BY <1>1, <1>2, <1>8, <1>11, SessionStays, InvAfter

LEMMA UpdateInv == ASSUME SubsInv, NEW s \in Sub, Update(s) PROVE SubsInv'
<1>1. PICK kind \in {"update", "check"} : work' = Enqueue(After, work, s, kind)  BY DEF Update
<1>2. subs[s].there = "in" /\ UNCHANGED <<subs, listed, picked, link, feed>>  BY DEF Update, Rest
<1>3. After.subs = subs /\ After.subs = subs'  BY <1>2 DEF After
<1>4. Fits(After, listed, work, {s}, kind)  BY <1>3, NowFits DEF Fits, Now
<1>5. \A t \in {s} : ~Busy(work, t) => After.subs[t].there = IF kind = "add" THEN "adding" ELSE "in"
  BY <1>2, <1>3
<1>6. Fits(After, listed, work', {}, "update")  BY <1>1, <1>4, <1>5, EnqueueAllOk DEF Enqueue
<1>7. listed' \in [Sub -> Offers] /\ feed' \in [Url -> Offers] /\ listed' = listed  BY <1>2 DEF SubsInv
<1>. QED  BY <1>2, <1>3, <1>6, <1>7, SessionStays, InvAfter

LEMMA EditInv == ASSUME SubsInv, NEW s \in Sub, NEW u \in Url, Edit(s, u) PROVE SubsInv'
<1>1. /\ subs[s].there = "in" /\ subs' = [subs EXCEPT ![s].url = u, ![s].tag = NoTag, ![s].offered = NoUrl]
      /\ UNCHANGED <<listed, picked, link, work, feed>>
  BY DEF Edit, Rest
<1>2. subs \in [Sub -> SubRec] /\ subs[s] \in SubRec  BY DEF SubsInv
<1>3. /\ subs'[s] \in SubRec /\ subs'[s].there = "in" /\ subs'[s].retry = subs[s].retry /\ subs'[s].tag = NoTag
      /\ subs'[s].hidden = subs[s].hidden /\ subs' \in [Sub -> SubRec]
             /\ \A t \in Sub \ {s} : subs'[t] = subs[t]
  BY <1>1, <1>2 DEF SubRec
<1>4. SubOk(subs, listed, s) /\ JobOk(subs, listed, s, work.at[s]) /\ AddOk(subs, s, work.at[s])  BY DEF SubsInv
<1>5. SubOk(subs', listed, s)  BY <1>3, <1>4, EmptyOffer DEF SubOk, Stands, NoTag
<1>6. JobOk(subs', listed, s, work.at[s]) /\ AddOk(subs', s, work.at[s])
  BY <1>1, <1>3, <1>4 DEF JobOk, AddOk, Stands
<1>7. After.subs = subs'  BY DEF After
<1>8. listed \in [Sub -> Offers] /\ QueueOk(work) /\ feed \in [Url -> Offers]  BY DEF SubsInv
<1>9. Fits(After, listed, work, {}, "update")  BY <1>3, <1>5, <1>6, <1>7, <1>8, OneMoves
<1>. QED  BY <1>1, <1>7, <1>8, <1>9, SessionStays, InvAfter

LEMMA ResetHiddenInv == ASSUME SubsInv, NEW s \in Sub, ResetHidden(s) PROVE SubsInv'
<1>1. /\ subs[s].there = "in" /\ ~Busy(work, s) /\ subs' = [subs EXCEPT ![s].hidden = {}, ![s].tag = NoTag]
      /\ UNCHANGED <<listed, picked, link, feed>> /\ work' = Enqueue(After, work, s, "update")
  BY DEF ResetHidden, Rest
<1>2. subs \in [Sub -> SubRec] /\ subs[s] \in SubRec  BY DEF SubsInv
<1>3. /\ subs'[s] \in SubRec /\ subs'[s].there = "in" /\ subs'[s].retry = subs[s].retry /\ subs'[s].tag = NoTag
      /\ subs'[s].hidden = {} /\ subs' \in [Sub -> SubRec] /\ \A t \in Sub \ {s} : subs'[t] = subs[t]
  BY <1>1, <1>2 DEF SubRec
<1>4. work.at[s].phase = "free"  BY <1>1 DEF Busy
<1>5. SubOk(subs', listed, s)  BY <1>3, EmptyOffer DEF SubOk, Stands, NoTag
<1>6. JobOk(subs', listed, s, work.at[s]) /\ AddOk(subs', s, work.at[s])
  BY <1>3, <1>4 DEF JobOk, AddOk, Carries
<1>7. After.subs = subs'  BY DEF After
<1>8. listed \in [Sub -> Offers] /\ QueueOk(work) /\ feed \in [Url -> Offers]  BY DEF SubsInv
<1>9. Fits(After, listed, work, {s}, "update")  BY <1>3, <1>5, <1>6, <1>7, <1>8, OneMoves
<1>10. \A t \in {s} : ~Busy(work, t) => After.subs[t].there = IF "update" = "add" THEN "adding" ELSE "in"
  BY <1>3, <1>7
<1>11. Fits(After, listed, work', {}, "update")  BY <1>1, <1>9, <1>10, EnqueueAllOk DEF Enqueue
<1>. QED  BY <1>1, <1>7, <1>8, <1>11, SessionStays, InvAfter

LEMMA AcceptUrlInv == ASSUME SubsInv, NEW s \in Sub, AcceptUrl(s) PROVE SubsInv'
<1>1. /\ subs[s].there = "in" /\ subs[s].offered # NoUrl
      /\ subs' = [subs EXCEPT ![s].url = subs[s].offered, ![s].offered = NoUrl, ![s].tag = NoTag]
      /\ UNCHANGED <<listed, picked, link, feed>> /\ work' = Enqueue(After, work, s, "update")
  BY DEF AcceptUrl, Rest
<1>2. subs \in [Sub -> SubRec] /\ subs[s] \in SubRec  BY DEF SubsInv
<1>3. /\ subs'[s] \in SubRec /\ subs'[s].there = "in" /\ subs'[s].retry = subs[s].retry /\ subs'[s].tag = NoTag
      /\ subs'[s].hidden = subs[s].hidden /\ subs' \in [Sub -> SubRec]
             /\ \A t \in Sub \ {s} : subs'[t] = subs[t]
  BY <1>1, <1>2 DEF SubRec
<1>4. SubOk(subs, listed, s) /\ JobOk(subs, listed, s, work.at[s]) /\ AddOk(subs, s, work.at[s])  BY DEF SubsInv
<1>5. SubOk(subs', listed, s)  BY <1>3, <1>4, EmptyOffer DEF SubOk, Stands, NoTag
<1>6. JobOk(subs', listed, s, work.at[s]) /\ AddOk(subs', s, work.at[s])
  BY <1>1, <1>3, <1>4 DEF JobOk, AddOk, Stands
<1>7. After.subs = subs'  BY DEF After
<1>8. listed \in [Sub -> Offers] /\ QueueOk(work) /\ feed \in [Url -> Offers]  BY DEF SubsInv
<1>9. Fits(After, listed, work, {s}, "update")  BY <1>3, <1>5, <1>6, <1>7, <1>8, OneMoves
<1>10. \A t \in {s} : ~Busy(work, t) => After.subs[t].there = IF "update" = "add" THEN "adding" ELSE "in"
  BY <1>3, <1>7
<1>11. Fits(After, listed, work', {}, "update")  BY <1>1, <1>9, <1>10, EnqueueAllOk DEF Enqueue
<1>. QED  BY <1>1, <1>7, <1>8, <1>11, SessionStays, InvAfter

LEMMA FallsDueInv == ASSUME SubsInv, NEW s \in Sub, FallsDue(s) PROVE SubsInv'
<1>1. subs' = [subs EXCEPT ![s].due = TRUE] /\ UNCHANGED <<listed, feed, work, picked, link>>  BY DEF FallsDue
<1>2. subs \in [Sub -> SubRec] /\ subs[s] \in SubRec  BY DEF SubsInv
<1>3. /\ subs'[s] \in SubRec /\ subs'[s].there = subs[s].there /\ subs'[s].retry = subs[s].retry
      /\ subs'[s].tag = subs[s].tag
      /\ subs'[s].hidden = subs[s].hidden /\ subs' \in [Sub -> SubRec]
             /\ \A t \in Sub \ {s} : subs'[t] = subs[t]
  BY <1>1, <1>2 DEF SubRec
<1>4. SubOk(subs, listed, s) /\ JobOk(subs, listed, s, work.at[s]) /\ AddOk(subs, s, work.at[s])  BY DEF SubsInv
<1>5. SubOk(subs', listed, s)  BY <1>3, <1>4 DEF SubOk, Stands
<1>6. JobOk(subs', listed, s, work.at[s]) /\ AddOk(subs', s, work.at[s])  BY <1>3, <1>4 DEF JobOk, AddOk, Stands
<1>7. After.subs = subs'  BY DEF After
<1>8. listed \in [Sub -> Offers] /\ QueueOk(work) /\ feed \in [Url -> Offers]  BY DEF SubsInv
<1>9. Fits(After, listed, work, {}, "update")  BY <1>3, <1>5, <1>6, <1>7, <1>8, OneMoves
<1>. QED  BY <1>1, <1>7, <1>8, <1>9, SessionStays, InvAfter

(* The selected server goes with its subscription or its row, or stays.      *)
LEMMA RemovalSession ==
  ASSUME SubsInv, FollowRemoval, picked' \in All(listed') \cup {Nothing},
         picked' = picked /\ picked # Nothing => listed'[picked[1]] = listed[picked[1]] \/
           (listed'[picked[1]][picked[2]] = listed[picked[1]][picked[2]])
  PROVE  SessionOk(picked', link', listed')
<1>1. /\ link \in [on : [at : (Sub \X Item) \cup {Nothing}, ver : 0..1], wants : BOOLEAN, asked : BOOLEAN]
      /\ link.on # NoServer /\ ~link.asked => link.on.at = picked /\ picked # Nothing
             /\ listed[picked[1]][picked[2]] = link.on.ver
  BY DEF SubsInv, SessionOk
<1>2. CASE picked' # picked /\ (link.on # NoServer \/ link.wants)
  <2>1. link' = [link EXCEPT !.wants = @ /\ picked' # Nothing, !.asked = TRUE]  BY <1>2 DEF FollowRemoval
  <2>2. (link.wants /\ picked' # Nothing) \in BOOLEAN  OBVIOUS
  <2>3. link' = [link EXCEPT !.wants = (link.wants /\ picked' # Nothing), !.asked = TRUE]  BY <2>1
  <2>. QED  BY <1>1, <2>2, <2>3, SessionAsked
<1>3. CASE ~(picked' # picked /\ (link.on # NoServer \/ link.wants))
  <2>1. link' = link  BY <1>3 DEF FollowRemoval
  <2>2. CASE picked' = picked  BY <1>1, <2>1, <2>2 DEF SessionOk
  <2>3. CASE link.on = NoServer  BY <1>1, <2>1, <2>3 DEF SessionOk
  <2>. QED  BY <1>3, <2>2, <2>3
<1>. QED  BY <1>2, <1>3

LEMMA RemoveSubInv == ASSUME SubsInv, NEW s \in Sub, RemoveSub(s) PROVE SubsInv'
<1>1. /\ subs[s].there = "in" /\ s \notin Working(work) /\ work' = [work EXCEPT !.at[s] = Free] /\ feed' = feed
      /\ FollowRemoval
  BY DEF RemoveSub, Rest
<1>2. QueueOk(work') /\ work'.at[s] = Free /\ \A t \in Sub \ {s} : work'.at[t] = work.at[t]
  <2>1. QueueOk(work)  BY DEF SubsInv
  <2>. QED  BY <1>1, <2>1, PutOk DEF Free
<1>3. /\ subs \in [Sub -> SubRec] /\ subs[s] \in SubRec /\ listed \in [Sub -> Offers]
             /\ feed \in [Url -> Offers]
      /\ SubOk(subs, listed, s) /\ picked \in All(listed) \cup {Nothing}
  BY DEF SubsInv, SessionOk
<1>4. After.subs = subs'  BY DEF After
<1>5. work'.at[s].phase = "free"  BY <1>2 DEF Free
<1>6. CASE subs' = [subs EXCEPT ![s].there = "left"] /\ UNCHANGED <<listed, picked>>
  <2>1. /\ subs'[s] \in SubRec /\ subs'[s].there = "left" /\ subs'[s].retry = subs[s].retry
        /\ subs'[s].tag = subs[s].tag /\ subs'[s].hidden = subs[s].hidden
        /\ subs' \in [Sub -> SubRec] /\ \A t \in Sub \ {s} : subs'[t] = subs[t]
    BY <1>3, <1>6 DEF SubRec
  <2>2. SubOk(subs', listed, s)  BY <1>3, <2>1 DEF SubOk, Stands
  <2>3. JobOk(subs', listed, s, work'.at[s]) /\ AddOk(subs', s, work'.at[s])
    BY <1>5, <2>1 DEF JobOk, AddOk, Carries
  <2>4. Fits(After, listed, work', {}, "update")  BY <1>2, <1>3, <1>4, <2>1, <2>2, <2>3, OneMoves
  <2>5. SessionOk(picked', link', listed')  BY <1>1, <1>3, <1>6, RemovalSession
  <2>. QED  BY <1>1, <1>3, <1>4, <1>6, <2>4, <2>5, InvAfter
<1>7. CASE /\ subs' = [subs EXCEPT ![s] = Unknown(s)]
           /\ listed' = [listed EXCEPT ![s] = <<>>]
           /\ picked' \in IF picked \in Of(s) THEN First(listed', Anyone) ELSE {picked}
  <2>1. /\ subs'[s] \in SubRec /\ subs'[s].there = "no" /\ ~subs'[s].retry
        /\ subs'[s].tag = NoTag /\ subs'[s].hidden = {}
        /\ subs' \in [Sub -> SubRec] /\ \A t \in Sub \ {s} : subs'[t] = subs[t]
    BY <1>3, <1>7, SubsAssumption DEF SubRec, Unknown
  <2>2. listed' \in [Sub -> Offers] /\ listed'[s] = <<>> /\ DOMAIN listed'[s] = {}
        /\ \A t \in Sub \ {s} : listed'[t] = listed[t]
    BY <1>3, <1>7, EmptyOffer
  <2>3. SubOk(subs', listed', s)  BY <2>1, <2>2, EmptyOffer DEF SubOk, Stands, NoTag
  <2>4. JobOk(subs', listed', s, work'.at[s]) /\ AddOk(subs', s, work'.at[s])
    BY <1>5, <2>1 DEF JobOk, AddOk, Carries
  <2>5. Fits(After, listed', work', {}, "update")  BY <1>2, <1>3, <1>4, <2>1, <2>2, <2>3, <2>4, OneMoves
  <2>6. picked' \in All(listed') \cup {Nothing} /\ (picked' = picked
            /\ picked # Nothing => listed'[picked[1]] = listed[picked[1]])
    <3>1. CASE picked \in Of(s)
      <4>1. picked' \in All(listed') \cup {Nothing}  BY <1>7, <3>1, FirstIs
      <4>2. picked \notin All(listed')
        <5>1. picked[1] = s  BY <3>1 DEF Of
        <5>. QED  BY <5>1, <2>2, AllIs
      <4>. QED  BY <4>1, <4>2
    <3>2. CASE picked \notin Of(s)
      <4>1. picked' = picked  BY <1>7, <3>2
      <4>2. CASE picked = Nothing  BY <4>1, <4>2
      <4>3. CASE picked \in All(listed)
        <5>1. PICK t \in Sub, n \in Item : n \in DOMAIN listed[t] /\ picked = <<t, n>>  BY <4>3, <1>3, AllIs
        <5>2. t # s  BY <5>1, <3>2 DEF Of
        <5>3. listed'[t] = listed[t] /\ picked[1] = t  BY <5>1, <5>2, <2>2
        <5>. QED  BY <4>1, <5>1, <5>3, <2>2, AllIs
      <4>. QED  BY <4>2, <4>3, <1>3
    <3>. QED  BY <3>1, <3>2
  <2>7. SessionOk(picked', link', listed')  BY <1>1, <2>6, RemovalSession
  <2>. QED  BY <1>1, <1>3, <1>4, <2>2, <2>5, <2>7, InvAfter
<1>. QED  BY <1>6, <1>7 DEF RemoveSub

LEMMA HideServerInv == ASSUME SubsInv, NEW s \in Sub, NEW n \in Item, HideServer(s, n) PROVE SubsInv'
<1>1. /\ subs[s].there = "in" /\ n \in DOMAIN listed[s]
      /\ subs' = [subs EXCEPT ![s].hidden = @ \cup {n}]
      /\ listed' = [listed EXCEPT ![s] = [m \in DOMAIN listed[s] \ {n} |-> listed[s][m]]]
      /\ picked' \in IF picked # <<s, n>> THEN {picked}
                     ELSE IF DOMAIN listed'[s] # {} THEN First(listed', Of(s)) ELSE First(listed', Anyone)
      /\ FollowRemoval /\ work' = work /\ feed' = feed
  BY DEF HideServer, Rest
<1>2. /\ subs \in [Sub -> SubRec] /\ subs[s] \in SubRec /\ listed \in [Sub -> Offers]
             /\ feed \in [Url -> Offers]
      /\ SubOk(subs, listed, s) /\ picked \in All(listed) \cup {Nothing} /\ listed[s] \in Offers
             /\ QueueOk(work)
      /\ JobOk(subs, listed, s, work.at[s]) /\ AddOk(subs, s, work.at[s])
  BY DEF SubsInv, SessionOk
<1>3. /\ subs'[s] \in SubRec /\ subs'[s].there = "in" /\ subs'[s].retry = subs[s].retry
      /\ subs'[s].tag = subs[s].tag /\ subs'[s].hidden = subs[s].hidden \cup {n}
      /\ subs' \in [Sub -> SubRec] /\ \A t \in Sub \ {s} : subs'[t] = subs[t]
  BY <1>1, <1>2 DEF SubRec
<1>4. /\ listed' \in [Sub -> Offers] /\ (\A t \in Sub \ {s} : listed'[t] = listed[t])
      /\ DOMAIN listed'[s] = DOMAIN listed[s] \ {n}
             /\ \A m \in DOMAIN listed[s] \ {n} : listed'[s][m] = listed[s][m]
  <2>1. listed' = [listed EXCEPT ![s] = Without(listed[s], {n})]  BY <1>1 DEF Without
  <2>2. listed'[s] = Without(listed[s], {n})  BY <1>2, <2>1
  <2> DEFINE c == Without(listed[s], {n})
  <2>3. c \in Offers /\ DOMAIN c = DOMAIN listed[s] \ {n}
            /\ \A m \in DOMAIN listed[s] \ {n} : c[m] = listed[s][m]
    BY <1>2, WithoutOk
  <2>4. listed' = [listed EXCEPT ![s] = c] /\ listed'[s] = c  BY <2>1, <2>2
  <2> HIDE DEF c
  <2>. QED  BY <1>2, <2>3, <2>4
<1>5. \A tag : Stands(subs, listed, s, tag) => Stands(subs', listed', s, tag)  BY <1>3, <1>4 DEF Stands
<1>6. SubOk(subs', listed', s)  BY <1>1, <1>2, <1>3, <1>4, <1>5 DEF SubOk
<1>7. JobOk(subs', listed', s, work.at[s]) /\ AddOk(subs', s, work.at[s])
  <2>1. subs'[s].there = subs[s].there /\ subs[s].hidden \subseteq subs'[s].hidden  BY <1>1, <1>3
  <2>. QED  BY <1>1, <1>2, <1>5, <2>1 DEF JobOk, AddOk
<1>8. After.subs = subs'  BY DEF After
<1>12. Fits(After, listed', work, {}, "update")  BY <1>2, <1>3, <1>4, <1>6, <1>7, <1>8, OneMoves
<1>9. Fits(After, listed', work', {}, "update")  BY <1>1, <1>12
<1>10. picked' \in All(listed') \cup {Nothing}
       /\ (picked' = picked /\ picked # Nothing => listed'[picked[1]][picked[2]] = listed[picked[1]][picked[2]])
  <2>1. CASE picked = <<s, n>>
    <3>1. picked' \in All(listed') \cup {Nothing}  BY <1>1, <2>1, FirstIs
    <3>2. picked \notin All(listed')  BY <2>1, <1>4, AllIs
    <3>. QED  BY <3>1, <3>2
  <2>2. CASE picked # <<s, n>>
    <3>1. picked' = picked  BY <1>1, <2>2
    <3>2. CASE picked = Nothing  BY <3>1, <3>2
    <3>3. CASE picked \in All(listed)
      <4>1. PICK t \in Sub, m \in Item : m \in DOMAIN listed[t] /\ picked = <<t, m>>  BY <3>3, <1>2, AllIs
      <4>2. picked[1] = t /\ picked[2] = m  BY <4>1
      <4>3. m \in DOMAIN listed'[t] /\ listed'[t][m] = listed[t][m]
        <5>1. CASE t = s  BY <5>1, <4>1, <2>2, <1>4
        <5>2. CASE t # s  BY <5>2, <4>1, <1>4
        <5>. QED  BY <5>1, <5>2
      <4>. QED  BY <3>1, <4>1, <4>2, <4>3, <1>4, AllIs
    <3>. QED  BY <3>2, <3>3, <1>2
  <2>. QED  BY <2>1, <2>2
<1>11. SessionOk(picked', link', listed')  BY <1>1, <1>10, RemovalSession
<1>. QED  BY <1>1, <1>2, <1>4, <1>8, <1>9, <1>11, InvAfter

-----------------------------------------------------------------------------
(* A worker and what its answer does.                                        *)

(* The answer is looked at: nothing but the one subscription is another.     *)
LEMMA HandledOk ==
  ASSUME SubsInv, NEW s \in Sub, s \in Working(work), Handled(s), subs' \in [Sub -> SubRec],
             listed' \in [Sub -> Offers],
         \A t \in Sub \ {s} : subs'[t] = subs[t] /\ listed'[t] = listed[t],
         SubOk(subs', listed', s), subs'[s].there # "adding",
         feed' = feed, SessionOk(picked', link', listed')
  PROVE  SubsInv'
<1>1. work' = [work EXCEPT !.at[s] = [phase |-> "handled"]]  BY DEF Handled
<1> DEFINE w == [phase |-> "handled"]
<1>2. w.phase = "handled"  OBVIOUS
<1> HIDE DEF w
<1>3. QueueOk(work') /\ work'.at[s] = w /\ \A t \in Sub \ {s} : work'.at[t] = work.at[t]
  <2>1. QueueOk(work)  BY DEF SubsInv
  <2>2. work' = [work EXCEPT !.at[s] = w]  BY <1>1 DEF w
  <2>. QED  BY <1>2, <2>1, <2>2, PutOk
<1>4. JobOk(subs', listed', s, work'.at[s]) /\ AddOk(subs', s, work'.at[s])
  BY <1>2, <1>3 DEF JobOk, AddOk, Carries
<1>5. After.subs = subs'  BY DEF After
<1>6. Fits(After, listed', work', {}, "update")  BY <1>3, <1>4, <1>5, OneMoves
<1>7. feed' \in [Url -> Offers]  BY DEF SubsInv
<1>. QED  BY <1>5, <1>6, <1>7, InvAfter

LEMMA AnsweredIs ==
  ASSUME SubsInv, NEW s \in Sub, NEW kinds, Answered(s, kinds)
  PROVE  /\ s \in Working(work) /\ work.at[s].kind \in kinds
         /\ subs \in [Sub -> SubRec] /\ subs[s] \in SubRec /\ listed \in [Sub -> Offers]
                /\ SubOk(subs, listed, s)
         /\ work.at[s].job \in JobRec /\ work.at[s].job.hidden \subseteq subs[s].hidden
         /\ Stands(subs, listed, s, work.at[s].job.tag)
         /\ subs[s].there = IF work.at[s].job.kind = "add" THEN "adding" ELSE "in"
         /\ (work.at[s].job.kind = "add" => work.at[s].job.tag = NoTag)
         /\ work.at[s].tag \in Tags /\ work.at[s].moved \in Url \cup {NoUrl}
         /\ (work.at[s].kind = "same" => work.at[s].tag = work.at[s].job.tag)
         /\ work.at[s].untried \in BOOLEAN
<1>1. work.at[s].phase = "answered" /\ work.at[s].kind \in kinds  BY DEF Answered
<1>2. JobOk(subs, listed, s, work.at[s]) /\ SubOk(subs, listed, s)  BY DEF SubsInv
<1>3. Carries(work.at[s]) /\ s \in Working(work)  BY <1>1 DEF Carries, Working
<1>4. subs \in [Sub -> SubRec] /\ subs[s] \in SubRec /\ listed \in [Sub -> Offers]  BY DEF SubsInv
<1>. QED  BY <1>1, <1>2, <1>3, <1>4 DEF JobOk

LEMMA NoTagIs == NoTag \notin Tags /\ NoTag.url = NoUrl /\ DOMAIN NoTag.body = {}
<1>1. NoTag.url = NoUrl /\ NoTag.body = <<>>  BY DEF NoTag
<1>2. \A t \in Tags : t.url \in Url  BY DEF Tags
<1>. QED  BY <1>1, <1>2, EmptyOffer, SubsAssumption

LEMMA FetchedInv == ASSUME SubsInv, NEW s \in Sub, Fetched(s) PROVE SubsInv'
<1> DEFINE w == work.at[s]
           b == feed[w.job.url]
           offered == [url |-> w.job.url, body |-> b]
           Is(x, kind, untried, moved) ==
             x = [phase |-> "answered", job |-> w.job, kind |-> kind, untried |-> untried, tag |-> offered,
                 moved |-> moved]
<1>1. w.phase = "fetching" /\ UNCHANGED <<subs, listed, feed, picked, link>>  BY DEF Fetched
<1>2. PICK x, kind, untried, moved :
        /\ kind \in {"same", "body", "failed"} /\ untried \in BOOLEAN /\ moved \in Url \cup {NoUrl}
        /\ Is(x, kind, untried, moved) /\ work' = [work EXCEPT !.at[s] = x]
        /\ (kind = "same" => w.job.tag = offered)
  <2>1. JobOk(subs, listed, s, w)  BY DEF SubsInv
  <2>2. Carries(w)  BY <1>1 DEF Carries
  <2>3. w.job.url \in Url  BY <2>1, <2>2 DEF JobOk, JobRec
  <2>4. Moves[w.job.url] \cup {NoUrl} \subseteq Url \cup {NoUrl}  BY <2>3, SubsAssumption
  <2>5. \/ w.job.tag = offered /\ \E x : Is(x, "same", FALSE, NoUrl) /\ work' = [work EXCEPT !.at[s] = x]
        \/ \E m \in Moves[w.job.url] \cup {NoUrl} : \E x : Is(x, "body", FALSE, m) /\ work' = [work EXCEPT !.at[s] = x]
        \/ \E x : Is(x, "failed", FALSE, NoUrl) /\ work' = [work EXCEPT !.at[s] = x]
        \/ \E x : Is(x, "failed", ~w.tunnel, NoUrl) /\ work' = [work EXCEPT !.at[s] = x]
    BY Zenon DEF Fetched
  <2>6. (~w.tunnel) \in BOOLEAN  OBVIOUS
  <2> DEFINE Ends(x, kind, untried, moved) ==
               /\ Is(x, kind, untried, moved) /\ work' = [work EXCEPT !.at[s] = x]
               /\ (kind = "same" => w.job.tag = offered)
  <2>7. \E x, kind, untried, moved :
          kind \in {"same", "body", "failed"} /\ untried \in BOOLEAN /\ moved \in Url \cup {NoUrl}
          /\ Ends(x, kind, untried, moved)
    <3>1. CASE w.job.tag = offered /\ \E x : Is(x, "same", FALSE, NoUrl) /\ work' = [work EXCEPT !.at[s] = x]
      <4>1. PICK x : Is(x, "same", FALSE, NoUrl) /\ work' = [work EXCEPT !.at[s] = x]  BY <3>1
      <4>2. Ends(x, "same", FALSE, NoUrl)  BY <3>1, <4>1, Zenon
      <4> HIDE DEF Ends
      <4>. QED  BY <4>2, Zenon
    <3>2. CASE \E m \in Moves[w.job.url] \cup {NoUrl} : \E x : Is(x, "body", FALSE, m)
              /\ work' = [work EXCEPT !.at[s] = x]
      <4>3. PICK m \in Moves[w.job.url] \cup {NoUrl} : \E x : Is(x, "body", FALSE, m)
                /\ work' = [work EXCEPT !.at[s] = x]
        BY <3>2
      <4>1. PICK x : Is(x, "body", FALSE, m) /\ work' = [work EXCEPT !.at[s] = x]  BY <4>3
      <4>2. Ends(x, "body", FALSE, m)  BY <4>1
      <4>4. m \in Url \cup {NoUrl}  BY <2>4
      <4> HIDE DEF Ends
      <4>. QED  BY <4>2, <4>4, Zenon
    <3>3. CASE \E x : Is(x, "failed", FALSE, NoUrl) /\ work' = [work EXCEPT !.at[s] = x]
      <4>1. PICK x : Is(x, "failed", FALSE, NoUrl) /\ work' = [work EXCEPT !.at[s] = x]  BY <3>3
      <4>2. Ends(x, "failed", FALSE, NoUrl)  BY <4>1
      <4> HIDE DEF Ends
      <4>. QED  BY <4>2, Zenon
    <3>4. CASE \E x : Is(x, "failed", ~w.tunnel, NoUrl) /\ work' = [work EXCEPT !.at[s] = x]
      <4>1. PICK x : Is(x, "failed", ~w.tunnel, NoUrl) /\ work' = [work EXCEPT !.at[s] = x]  BY <3>4
      <4>2. Ends(x, "failed", ~w.tunnel, NoUrl)  BY <4>1
      <4> HIDE DEF Ends
      <4>. QED  BY <4>2, <2>6, Zenon
    <3> HIDE DEF Ends, Is, offered, w
    <3>. QED  BY <2>5, <3>1, <3>2, <3>3, <3>4, Zenon
  <2>. QED  BY <2>7
<1>3. /\ x.phase = "answered" /\ x.job = w.job /\ x.kind = kind /\ x.untried = untried /\ x.tag = offered
      /\ x.moved = moved
  <2> HIDE DEF w, offered
  <2>. QED  BY <1>2
<1>4. JobOk(subs, listed, s, w) /\ AddOk(subs, s, w) /\ feed \in [Url -> Offers] /\ QueueOk(work)
      /\ subs \in [Sub -> SubRec] /\ listed \in [Sub -> Offers] /\ SubOk(subs, listed, s)
  BY DEF SubsInv
<1>5. Carries(w) /\ s \in Working(work)  BY <1>1 DEF Carries, Working
<1>6. offered \in Tags
  <2>1. w.job.url \in Url  BY <1>4, <1>5 DEF JobOk, JobRec
  <2>. QED  BY <2>1, <1>4 DEF Tags
<1> HIDE DEF w, offered, Is
<1>7. JobOk(subs, listed, s, x)
  <2>1. Carries(x)  BY <1>3 DEF Carries
  <2>2. /\ w.job \in JobRec /\ w.job.hidden \subseteq subs[s].hidden /\ Stands(subs, listed, s, w.job.tag)
        /\ subs[s].there = IF w.job.kind = "add" THEN "adding" ELSE "in"
        /\ (w.job.kind = "add" => w.job.tag = NoTag)
    BY <1>4, <1>5 DEF JobOk
  <2>3. x.kind = "same" => x.tag = x.job.tag  BY <1>2, <1>3
  <2>. QED  BY <1>2, <1>3, <1>6, <2>1, <2>2, <2>3 DEF JobOk
<1>8. AddOk(subs, s, x)  BY <1>3, <1>4, <1>5 DEF AddOk, Carries
<1>9. QueueOk(work') /\ work'.at[s] = x /\ \A t \in Sub \ {s} : work'.at[t] = work.at[t]
  BY <1>2, <1>3, <1>4, <1>5, PutOk
<1>10. Now.subs = subs' /\ Now.subs = subs  BY <1>1 DEF Now
<1>11. Fits(Now, listed, work', {}, "update")  BY <1>4, <1>7, <1>8, <1>9, <1>10, OneMoves
<1>12. SessionOk(picked', link', listed')  BY <1>1, SessionStays
<1>13. listed' \in [Sub -> Offers] /\ feed' \in [Url -> Offers] /\ listed' = listed  BY <1>1, <1>4
<1>. QED  BY <1>10, <1>11, <1>12, <1>13, InvAfter

LEMMA CheckedInv == ASSUME SubsInv, NEW s \in Sub, Checked(s) PROVE SubsInv'
<1>1. /\ Answered(s, {"body", "same"}) /\ work.at[s].job.kind = "check"
      /\ subs' = [subs EXCEPT ![s].retry = FALSE] /\ Handled(s) /\ UNCHANGED <<listed, feed, picked, link>>
  BY DEF Checked
<1>2. s \in Working(work) /\ subs \in [Sub -> SubRec] /\ subs[s] \in SubRec /\ SubOk(subs, listed, s)
      /\ subs[s].there = "in" /\ listed \in [Sub -> Offers]
  BY <1>1, AnsweredIs
<1>3. /\ subs'[s] \in SubRec /\ subs'[s].there = "in" /\ ~subs'[s].retry /\ subs'[s].tag = subs[s].tag
      /\ subs'[s].hidden = subs[s].hidden /\ subs' \in [Sub -> SubRec]
             /\ \A t \in Sub \ {s} : subs'[t] = subs[t]
  BY <1>1, <1>2 DEF SubRec
<1>4. SubOk(subs', listed', s)  BY <1>1, <1>2, <1>3 DEF SubOk, Stands
<1>. QED  BY <1>1, <1>2, <1>3, <1>4, SessionStays, HandledOk

LEMMA NotModifiedInv == ASSUME SubsInv, NEW s \in Sub, NotModified(s) PROVE SubsInv'
<1>1. /\ Answered(s, {"same"}) /\ work.at[s].job.kind # "check"
      /\ subs' = [subs EXCEPT ![s].tag = work.at[s].tag, ![s].retry = FALSE, ![s].due = FALSE]
      /\ Handled(s) /\ UNCHANGED <<listed, feed, picked, link>>
  BY DEF NotModified
<1>2. /\ s \in Working(work) /\ subs \in [Sub -> SubRec] /\ subs[s] \in SubRec /\ SubOk(subs, listed, s)
      /\ listed \in [Sub -> Offers] /\ work.at[s].kind = "same" /\ work.at[s].tag \in Tags
      /\ work.at[s].tag = work.at[s].job.tag /\ Stands(subs, listed, s, work.at[s].job.tag)
      /\ subs[s].there = IF work.at[s].job.kind = "add" THEN "adding" ELSE "in"
      /\ (work.at[s].job.kind = "add" => work.at[s].job.tag = NoTag)
  <2>1. work.at[s].kind \in {"same"}  BY <1>1, AnsweredIs
  <2>. QED  BY <1>1, <2>1, AnsweredIs
<1>3. subs[s].there = "in"  BY <1>2, NoTagIs
<1>4. /\ subs'[s] \in SubRec /\ subs'[s].there = "in" /\ ~subs'[s].retry /\ subs'[s].tag = work.at[s].job.tag
      /\ subs'[s].hidden = subs[s].hidden /\ subs' \in [Sub -> SubRec]
             /\ \A t \in Sub \ {s} : subs'[t] = subs[t]
  BY <1>1, <1>2, <1>3 DEF SubRec
<1>5. SubOk(subs', listed', s)  BY <1>1, <1>2, <1>4 DEF SubOk, Stands
<1>. QED  BY <1>1, <1>2, <1>4, <1>5, SessionStays, HandledOk

LEMMA FailedInv == ASSUME SubsInv, NEW s \in Sub, Failed(s) PROVE SubsInv'
<1> DEFINE w == work.at[s]
           retry == w.untried /\ w.job.kind # "check"
           later == [subs[s] EXCEPT !.there = "in", !.due = FALSE, !.retry = retry]
<1>1. /\ Answered(s, {"failed"}) /\ Handled(s) /\ UNCHANGED <<listed, feed, picked, link>>
      /\ subs' = [subs EXCEPT ![s] = IF w.job.kind = "add" /\ ~w.untried THEN Unknown(s) ELSE later]
  BY DEF Failed
<1>2. /\ s \in Working(work) /\ subs \in [Sub -> SubRec] /\ subs[s] \in SubRec /\ SubOk(subs, listed, s)
      /\ listed \in [Sub -> Offers]
      /\ subs[s].there = IF w.job.kind = "add" THEN "adding" ELSE "in"
  BY <1>1, AnsweredIs
<1>3. retry \in BOOLEAN  OBVIOUS
<1> HIDE DEF retry
<1>4. /\ later \in SubRec /\ later.there = "in" /\ later.tag = subs[s].tag /\ later.hidden = subs[s].hidden
  BY <1>2, <1>3 DEF SubRec
<1>5. CASE w.job.kind = "add" /\ ~w.untried
  <2>1. listed[s] = <<>> /\ DOMAIN listed[s] = {}  BY <1>2, <1>5, EmptyOffer DEF SubOk
  <2>2. /\ Unknown(s) \in SubRec /\ Unknown(s).there = "no" /\ ~Unknown(s).retry /\ Unknown(s).tag = NoTag
        /\ Unknown(s).hidden = {}
    BY SubsAssumption DEF Unknown, SubRec
  <2>3. subs' = [subs EXCEPT ![s] = Unknown(s)]  BY <1>1, <1>5
  <2>4. subs' \in [Sub -> SubRec] /\ subs'[s] = Unknown(s) /\ \A t \in Sub \ {s} : subs'[t] = subs[t]
    BY <1>2, <2>2, <2>3
  <2>5. SubOk(subs', listed', s)  BY <1>1, <2>1, <2>2, <2>4, NoTagIs DEF SubOk, Stands
  <2>. QED  BY <1>1, <1>2, <2>2, <2>4, <2>5, SessionStays, HandledOk
<1>6. CASE ~(w.job.kind = "add" /\ ~w.untried)
  <2> HIDE DEF later
  <2>1. subs' = [subs EXCEPT ![s] = later]  BY <1>1, <1>6
  <2>2. subs' \in [Sub -> SubRec] /\ subs'[s] = later /\ \A t \in Sub \ {s} : subs'[t] = subs[t]
    BY <1>2, <1>4, <2>1
  <2>3. SubOk(subs', listed', s)  BY <1>1, <1>2, <1>4, <2>2 DEF SubOk, Stands
  <2>. QED  BY <1>1, <1>2, <1>4, <2>2, <2>3, SessionStays, HandledOk
<1>. QED  BY <1>5, <1>6

LEMMA MovedIs ==
  ASSUME NEW sub \in SubRec, NEW answer, answer.moved \in Url \cup {NoUrl}, answer.tag \in Tags
  PROVE  /\ Moved(sub, answer) \in SubRec /\ Moved(sub, answer).there = "in" /\ ~Moved(sub, answer).retry
         /\ Moved(sub, answer).hidden = sub.hidden /\ Moved(sub, answer).tag \in {NoTag, answer.tag}
<1> DEFINE m == answer.moved
           kept == [sub EXCEPT !.there = "in", !.retry = FALSE, !.due = FALSE]
<1>1. kept \in SubRec /\ kept.there = "in" /\ ~kept.retry /\ kept.hidden = sub.hidden  BY DEF SubRec
<1>2. Moved(sub, answer) =
        IF m # NoUrl /\ Host[m] = Host[sub.url] THEN [kept EXCEPT !.url = m, !.offered = NoUrl, !.tag = NoTag]
        ELSE [kept EXCEPT !.tag = answer.tag, !.offered = IF m # NoUrl THEN m ELSE @]
  BY DEF Moved
<1> HIDE DEF kept
<1>3. CASE m # NoUrl /\ Host[m] = Host[sub.url]
  <2>1. Moved(sub, answer) = [kept EXCEPT !.url = m, !.offered = NoUrl, !.tag = NoTag] /\ m \in Url
    BY <1>2, <1>3
  <2>. QED  BY <1>1, <2>1 DEF SubRec
<1>4. CASE ~(m # NoUrl /\ Host[m] = Host[sub.url])
  <2>1. PICK o \in Url \cup {NoUrl} : Moved(sub, answer) = [kept EXCEPT !.tag = answer.tag, !.offered = o]
    <3>1. Moved(sub, answer) = [kept EXCEPT !.tag = answer.tag,
              !.offered = IF m # NoUrl THEN m ELSE kept.offered]
      <4>1. Moved(sub, answer) = [kept EXCEPT !.tag = answer.tag, !.offered = IF m # NoUrl THEN m ELSE @]
        BY <1>2, <1>4
      <4>. QED  BY <4>1, <1>1 DEF SubRec
    <3>2. (IF m # NoUrl THEN m ELSE kept.offered) \in Url \cup {NoUrl}  BY <1>1 DEF SubRec
    <3>. QED  BY <3>1, <3>2
  <2>. QED  BY <1>1, <2>1 DEF SubRec
<1>. QED  BY <1>3, <1>4

LEMMA ReconciledInv == ASSUME SubsInv, NEW s \in Sub, Reconciled(s) PROVE SubsInv'
<1> DEFINE w == work.at[s]
           H == w.job.hidden \cup (subs[s].hidden \ Pinned)
           got == Received(s)
<1>1. /\ Answered(s, {"body"}) /\ w.job.kind # "check" /\ Handled(s) /\ feed' = feed /\ Follow(Changed(s))
      /\ listed' = [listed EXCEPT ![s] = got] /\ subs' = [subs EXCEPT ![s] = Moved(subs[s], w)]
      /\ picked' \in
           IF picked \in Of(s) /\ picked \notin All(listed')
             THEN IF DOMAIN got # {} THEN First(listed', Of(s)) ELSE First(listed', Anyone)
           ELSE IF picked = Nothing /\ DOMAIN listed[s] = {} THEN First(listed', Of(s))
           ELSE {picked}
  BY DEF Reconciled
<1>2. /\ s \in Working(work) /\ subs \in [Sub -> SubRec] /\ subs[s] \in SubRec /\ SubOk(subs, listed, s)
      /\ listed \in [Sub -> Offers] /\ w.tag \in Tags /\ w.moved \in Url \cup {NoUrl}
      /\ w.job.hidden \subseteq subs[s].hidden
  BY <1>1, AnsweredIs
<1>3. w.tag.body \in Offers  BY <1>2 DEF Tags
<1>4. got \in Offers /\ DOMAIN got = DOMAIN w.tag.body \ H
          /\ \A n \in DOMAIN w.tag.body \ H : got[n] = w.tag.body[n]
  BY <1>3, WithoutOk DEF Received
<1> HIDE DEF got
<1>5. listed' \in [Sub -> Offers] /\ listed'[s] = got /\ \A t \in Sub \ {s} : listed'[t] = listed[t]
  BY <1>1, <1>2, <1>4
<1> DEFINE r == Moved(subs[s], w)
<1>6. r \in SubRec /\ r.there = "in" /\ ~r.retry /\ r.hidden = subs[s].hidden /\ r.tag \in {NoTag, w.tag}
  <2> HIDE DEF w
  <2>. QED  BY <1>2, MovedIs
<1> HIDE DEF r
<1>7. subs' \in [Sub -> SubRec] /\ subs'[s] = r /\ \A t \in Sub \ {s} : subs'[t] = subs[t]
  <2>1. subs' = [subs EXCEPT ![s] = r]  BY <1>1 DEF r
  <2>. QED  BY <2>1, <1>2, <1>6
<1>8. Stands(subs', listed', s, r.tag)
  <2>1. CASE r.tag = NoTag  BY <2>1, NoTagIs DEF Stands
  <2>2. CASE r.tag = w.tag
    <3>1. \A n \in DOMAIN w.tag.body \ subs[s].hidden : n \in DOMAIN w.tag.body \ H  BY <1>2
    <3> HIDE DEF H, w
    <3>. QED  BY <2>2, <3>1, <1>4, <1>5, <1>6, <1>7 DEF Stands
  <2>. QED  BY <2>1, <2>2, <1>6
<1>9. SubOk(subs', listed', s)
  <2>1. DOMAIN got \cap (subs[s].hidden \ Pinned) = {}  BY <1>4
  <2> HIDE DEF w, H
  <2>. QED  BY <2>1, <1>5, <1>6, <1>7, <1>8 DEF SubOk
<1>10. /\ picked \in All(listed) \cup {Nothing}
       /\ link \in [on : [at : (Sub \X Item) \cup {Nothing}, ver : 0..1], wants : BOOLEAN, asked : BOOLEAN]
       /\ link.on # NoServer /\ ~link.asked =>
            link.on.at = picked /\ picked # Nothing /\ listed[picked[1]][picked[2]] = link.on.ver
  BY DEF SubsInv, SessionOk
(* A selected server that is not the subscription's is where it was.         *)
<1>11. picked \in All(listed) /\ picked \notin All(listed') => picked \in Of(s)
  <2> SUFFICES ASSUME picked \in All(listed), picked \notin Of(s)  PROVE picked \in All(listed')  OBVIOUS
  <2>1. PICK t \in Sub, n \in Item : n \in DOMAIN listed[t] /\ picked = <<t, n>>  BY <1>2, AllIs
  <2>2. t # s  BY <2>1 DEF Of
  <2>. QED  BY <2>1, <2>2, <1>5, AllIs
<1>12. picked' \in All(listed') \cup {Nothing}
  <2>1. CASE picked \in Of(s) /\ picked \notin All(listed')
    <3>1. picked' \in First(listed', Of(s)) \/ picked' \in First(listed', Anyone)  BY <1>1, <2>1
    <3>. QED  BY <3>1, FirstIs
  <2>2. CASE ~(picked \in Of(s) /\ picked \notin All(listed'))
    <3>1. picked' \in First(listed', Of(s)) \/ picked' = picked  BY <1>1, <2>2
    <3>2. picked' = picked => picked' \in All(listed') \cup {Nothing}  BY <2>2, <1>10, <1>11
    <3>. QED  BY <3>1, <3>2, FirstIs
  <2>. QED  BY <2>1, <2>2
<1>13. SessionOk(picked', link', listed')
  <2>1. CASE Changed(s) /\ (link.on # NoServer \/ link.wants)
    <3>1. link' = [link EXCEPT !.wants = (picked' # Nothing), !.asked = TRUE]  BY <1>1, <2>1 DEF Follow
    <3>2. (picked' # Nothing) \in BOOLEAN  OBVIOUS
    <3>. QED  BY <1>10, <1>12, <3>1, <3>2, SessionAsked
  <2>2. CASE ~(Changed(s) /\ (link.on # NoServer \/ link.wants))
    <3>1. link' = link  BY <1>1, <2>2 DEF Follow
    <3>2. CASE link.on = NoServer \/ link.asked  BY <1>10, <1>12, <3>1, <3>2 DEF SessionOk
    <3>3. CASE link.on # NoServer /\ ~link.asked
      <4>1. ~Changed(s) /\ picked # Nothing /\ picked \in All(listed)  BY <2>2, <3>3, <1>10
      <4>2. PICK t \in Sub, n \in Item : n \in DOMAIN listed[t] /\ picked = <<t, n>>  BY <4>1, <1>2, AllIs
      <4>3. picked[1] = t /\ picked[2] = n  BY <4>2
      <4>4. n \in DOMAIN listed'[t] /\ listed'[t][n] = listed[t][n]
        <5>1. CASE t = s
          <6>1. picked \in Of(s) /\ picked[2] \in DOMAIN listed[s]  BY <4>2, <4>3, <5>1 DEF Of
          <6>2. n \in DOMAIN Received(s) /\ Received(s)[n] = listed[s][n]  BY <4>1, <4>3, <6>1 DEF Changed
          <6>. QED  BY <5>1, <6>2, <1>5 DEF got
        <5>2. CASE t # s  BY <5>2, <4>2, <1>5
        <5>. QED  BY <5>1, <5>2
      <4>5. picked \in All(listed')  BY <4>2, <4>4, <1>5, AllIs
      <4>6. picked' = picked  BY <4>1, <4>5, <1>1
      <4>. QED  BY <4>3, <4>4, <4>6, <1>10, <1>12, <3>1, <3>3 DEF SessionOk
    <3>. QED  BY <3>2, <3>3
  <2>. QED  BY <2>1, <2>2
<1>. QED  BY <1>1, <1>2, <1>5, <1>6, <1>7, <1>9, <1>13, HandledOk

LEMMA WorkerFinishedInv == ASSUME SubsInv, NEW s \in Sub, WorkerFinished(s) PROVE SubsInv'
<1> DEFINE q == [work EXCEPT !.at[s] = Free]
<1>1. /\ work.at[s].phase = "handled" /\ work' = Drain(Now, ViaTunnel(Now, q))
             /\ UNCHANGED <<subs, listed, feed, picked>>
      /\ link' = IF waiting /\ ~waiting' THEN AutoConnected(link) ELSE link
  BY DEF WorkerFinished
<1>2. /\ QueueOk(work) /\ subs \in [Sub -> SubRec] /\ listed \in [Sub -> Offers] /\ feed \in [Url -> Offers]
      /\ SubOk(subs, listed, s) /\ JobOk(subs, listed, s, work.at[s]) /\ AddOk(subs, s, work.at[s])
      /\ SessionOk(picked, link, listed)
  BY DEF SubsInv
<1>3. QueueOk(q) /\ q.at[s] = Free /\ \A t \in Sub \ {s} : q.at[t] = work.at[t]  BY <1>2, PutOk DEF Free
<1> HIDE DEF q
<1>4. q.at[s].phase = "free"  BY <1>3 DEF Free
<1>5. subs[s].there # "adding"  BY <1>1, <1>2 DEF AddOk, Carries
<1>6. JobOk(subs, listed, s, q.at[s]) /\ AddOk(subs, s, q.at[s])  BY <1>4, <1>5 DEF JobOk, AddOk, Carries
<1>7. Now.subs = subs  BY DEF Now
<1>8. Fits(Now, listed, q, {}, "update")  BY <1>2, <1>3, <1>6, <1>7, OneMoves
<1>9. Fits(Now, listed, work', {}, "update")  BY <1>1, <1>8, ViaTunnelOk, DrainOk DEF q
<1>10. SessionOk(picked', link', listed')  BY <1>1, <1>2, AutoOk
<1>11. Now.subs = subs' /\ listed' \in [Sub -> Offers] /\ feed' \in [Url -> Offers] /\ listed' = listed
  BY <1>1, <1>2, <1>7
<1>. QED  BY <1>9, <1>10, <1>11, InvAfter

-----------------------------------------------------------------------------
LEMMA SubsStep == ASSUME SubsInv, [SubsNext]_subsVars PROVE SubsInv'
<1>1. ASSUME SubsNext  PROVE SubsInv'
  <2>1. ASSUME Toggle  PROVE SubsInv'  BY <2>1, ToggleInv
  <2>2. ASSUME Settle  PROVE SubsInv'  BY <2>2, SettleInv
  <2>3. ASSUME Lock \/ Unlock \/ DueTimer \/ Startup \/ StartupTimer  PROVE SubsInv'  BY <2>3, TimeInv
  <2>4. ASSUME NEW u \in Url, Provider(u)  PROVE SubsInv'  BY <2>4, ProviderInv
  <2>5. ASSUME NEW s \in Sub,
               \/ Add(s) \/ Update(s) \/ RemoveSub(s) \/ ResetHidden(s) \/ AcceptUrl(s) \/ FallsDue(s)
               \/ \E u \in Url : Edit(s, u)
               \/ \E n \in Item : HideServer(s, n)
        PROVE  SubsInv'
    BY <2>5, AddInv, UpdateInv, RemoveSubInv, ResetHiddenInv, AcceptUrlInv, FallsDueInv, EditInv, HideServerInv
  <2>6. ASSUME NEW s \in Sub,
               Fetched(s) \/ Checked(s) \/ NotModified(s) \/ Reconciled(s) \/ Failed(s) \/ WorkerFinished(s)
        PROVE  SubsInv'
    BY <2>6, FetchedInv, CheckedInv, NotModifiedInv, ReconciledInv, FailedInv, WorkerFinishedInv
  <2>. QED  BY <1>1, <2>1, <2>2, <2>3, <2>4, <2>5, <2>6, Zenon DEF SubsNext
<1>2. ASSUME UNCHANGED subsVars  PROVE SubsInv'
  <2>1. UNCHANGED <<subs, listed, feed, work, picked, link>>  BY <1>2 DEF subsVars
  <2>. QED  BY <2>1 DEF SubsInv
<1>. QED  BY <1>1, <1>2

LEMMA SubsHold == SubsInv => SubsSafe
<1> SUFFICES ASSUME SubsInv  PROVE SubsSafe  OBVIOUS
<1>1. /\ subs \in [Sub -> SubRec] /\ listed \in [Sub -> Offers] /\ QueueOk(work)
             /\ SessionOk(picked, link, listed)
      /\ \A s \in Sub : SubOk(subs, listed, s) /\ JobOk(subs, listed, s, work.at[s])
             /\ AddOk(subs, s, work.at[s])
  BY DEF SubsInv
<1>2. ASSUME NEW s \in Sub  PROVE subs[s].there = "adding" <=> Added(s)
  BY <1>1 DEF Added, JobOk, AddOk, Carries
<1>3. SubsTypeOK
  <2>1. picked \in All(listed) \cup {Nothing} /\ Cardinality(Working(work)) <= MaxWorkers
    BY <1>1 DEF SessionOk, QueueOk
  <2>2. ASSUME NEW s \in Sub
        PROVE  /\ subs[s].there \in {"no", "adding", "in", "left"}
               /\ subs[s].url \in Url /\ subs[s].offered \in Url \cup {NoUrl}
               /\ subs[s].tag \in Tags \cup {NoTag} /\ subs[s].hidden \subseteq Item
               /\ subs[s].retry => subs[s].there \in {"in", "left"}
               /\ listed[s] \in Offers /\ (subs[s].there \in {"no", "adding"} => listed[s] = <<>>)
    BY <1>1 DEF SubRec, SubOk
  <2>. QED  BY <1>2, <2>1, <2>2 DEF SubsTypeOK
<1>4. TagTrue  BY <1>1 DEF TagTrue, SubOk, Stands
<1>5. HiddenGone  BY <1>1 DEF HiddenGone, SubOk
<1>6. SessionListed  BY <1>1 DEF SessionListed, SessionOk
<1>. QED  BY <1>3, <1>4, <1>5, <1>6 DEF SubsSafe

-----------------------------------------------------------------------------
(* One download. The proxy is the last route there is: when it has begun no  *)
(* route is left, and before the direct one nothing races. Every route that  *)
(* races is still running or has left one outcome.                           *)
Entry == [of : Routes, is : Outcomes]
Results == Seq(Entry)

FetchInv ==
  /\ ask \in [mode : {"auto", "direct", "proxy"}, port : BOOLEAN, open : BOOLEAN]
  /\ rest \in {<<>>, <<"direct">>, <<"proxy">>, <<"direct", "proxy">>}
  /\ (rest # <<>> => "proxy" \notin racing)
  /\ (rest \in {<<"direct">>, <<"direct", "proxy">>} => racing = {})
  /\ working \subseteq racing /\ racing \subseteq Routes /\ results \in Results
  /\ \A i \in DOMAIN results : results[i].of \in racing \ working
  /\ \A i, j \in DOMAIN results : results[i].of = results[j].of => i = j
  /\ elapsed \in 0..(Deadline + 1) /\ expires \in 0..Deadline
  /\ held \in BOOLEAN /\ cancelled \in BOOLEAN
  /\ (held => rest = <<>> /\ "proxy" \notin racing) /\ (~held => expires = Deadline)
  /\ (ask.open => "direct" \notin racing /\ rest \in {<<>>, <<"proxy">>})
  /\ (~ask.port => "proxy" \notin racing /\ rest \in {<<>>, <<"direct">>})
  /\ verdict \in {"going", "body", "refused", "cleartext", "noport", "cancelled", "unreachable", "untried",
         "bug"}

(* The four states of `rest`.                                                *)
LEMMA RestsAre ==
  /\ <<"direct">> # <<>> /\ <<"proxy">> # <<>> /\ <<"direct", "proxy">> # <<>> /\ <<"direct">> # <<"proxy">>
  /\ <<"direct", "proxy">> # <<"proxy">> /\ <<"direct", "proxy">> # <<"direct">>
  /\ Head(<<"direct">>) = "direct" /\ Tail(<<"direct">>) = <<>>
  /\ Head(<<"proxy">>) = "proxy" /\ Tail(<<"proxy">>) = <<>>
  /\ Head(<<"direct", "proxy">>) = "direct" /\ Tail(<<"direct", "proxy">>) = <<"proxy">>
<1>1. <<"direct">> # <<>> /\ <<"proxy">> # <<>> /\ <<"direct", "proxy">> # <<>>  OBVIOUS
<1>2. <<"direct">> # <<"proxy">>
  <2>1. <<"direct">>[1] = "direct" /\ <<"proxy">>[1] = "proxy"  OBVIOUS
  <2>. QED  BY <2>1
<1>3. <<"direct", "proxy">> # <<"proxy">> /\ <<"direct", "proxy">> # <<"direct">>
  <2>1. Len(<<"direct", "proxy">>) = 2 /\ Len(<<"proxy">>) = 1 /\ Len(<<"direct">>) = 1  OBVIOUS
  <2>. QED  BY <2>1
<1>4. Head(<<"direct">>) = "direct" /\ Tail(<<"direct">>) = <<>>  OBVIOUS
<1>5. Head(<<"proxy">>) = "proxy" /\ Tail(<<"proxy">>) = <<>>  OBVIOUS
<1>6. Head(<<"direct", "proxy">>) = "direct" /\ Tail(<<"direct", "proxy">>) = <<"proxy">>  OBVIOUS
<1>. QED  BY <1>1, <1>2, <1>3, <1>4, <1>5, <1>6

LEMMA RouteOrderIs ==
  /\ RouteOrder \in {<<>>, <<"direct">>, <<"proxy">>, <<"direct", "proxy">>}
  /\ (ask.open => RouteOrder \in {<<>>, <<"proxy">>})
  /\ (~ask.port => RouteOrder \in {<<>>, <<"direct">>})
<1>1. CASE ask.mode # "proxy" /\ ~ask.open
  <2>1. CASE ask.mode # "direct" /\ ask.port
    <3>1. RouteOrder = <<"direct">> \o <<"proxy">>  BY <1>1, <2>1 DEF RouteOrder
    <3>2. <<"direct">> \o <<"proxy">> = <<"direct", "proxy">>
      <4> DEFINE l == <<"direct">> \o <<"proxy">>
      <4>1. l \in Seq({"direct", "proxy"}) /\ Len(l) = 2 /\ l[1] = "direct" /\ l[2] = "proxy"  OBVIOUS
      <4> HIDE DEF l
      <4>2. l = <<"direct", "proxy">>  BY <4>1
      <4>. QED  BY <4>2 DEF l
    <3>. QED  BY <1>1, <2>1, <3>1, <3>2
  <2>2. CASE ~(ask.mode # "direct" /\ ask.port)
    <3>1. RouteOrder = <<"direct">> \o <<>>  BY <1>1, <2>2 DEF RouteOrder
    <3>2. <<"direct">> \o <<>> = <<"direct">>  OBVIOUS
    <3>. QED  BY <1>1, <3>1, <3>2
  <2>. QED  BY <2>1, <2>2
<1>2. CASE ~(ask.mode # "proxy" /\ ~ask.open)
  <2>1. CASE ask.mode # "direct" /\ ask.port
    <3>1. RouteOrder = <<>> \o <<"proxy">>  BY <1>2, <2>1 DEF RouteOrder
    <3>2. <<>> \o <<"proxy">> = <<"proxy">>  OBVIOUS
    <3>. QED  BY <2>1, <3>1, <3>2
  <2>2. CASE ~(ask.mode # "direct" /\ ask.port)
    <3>1. RouteOrder = <<>> \o <<>>  BY <1>2, <2>2 DEF RouteOrder
    <3>2. <<>> \o <<>> = <<>>  OBVIOUS
    <3>. QED  BY <3>1, <3>2
  <2>. QED  BY <2>1, <2>2
<1>. QED  BY <1>1, <1>2

LEMMA FetchInitInv == FetchInit => FetchInv
<1> SUFFICES ASSUME FetchInit  PROVE FetchInv  OBVIOUS
<1>1. rest \in {<<>>, <<"direct">>, <<"proxy">>, <<"direct", "proxy">>}
      /\ (ask.open => rest \in {<<>>, <<"proxy">>}) /\ (~ask.port => rest \in {<<>>, <<"direct">>})
  BY RouteOrderIs DEF FetchInit
<1>2. results = <<>> /\ DOMAIN results = {} /\ results \in Results  BY DEF FetchInit, Results
<1>3. /\ ask \in [mode : {"auto", "direct", "proxy"}, port : BOOLEAN, open : BOOLEAN]
      /\ racing = {} /\ working = {} /\ held = FALSE /\ cancelled = FALSE /\ verdict = "going"
      /\ elapsed = 0 /\ expires = Deadline
  BY DEF FetchInit
<1>4. 0 \in 0..(Deadline + 1) /\ Deadline \in 0..Deadline  BY FetchAssumption
<1>. QED  BY <1>1, <1>2, <1>3, <1>4 DEF FetchInv

(* The next route begins: `free` are those that race on.                     *)
LEMMA NextRoute ==
  ASSUME FetchInv, rest # <<>>
  PROVE  /\ Head(rest) \in Routes /\ Head(rest) \notin racing
         /\ Tail(rest) \in {<<>>, <<"proxy">>}
         /\ (Tail(rest) = <<>> \/ Head(rest) = "direct")
         /\ (Head(rest) = "proxy" => Tail(rest) = <<>> /\ ask.port)
         /\ (Head(rest) = "direct" => ~ask.open)
         /\ (Tail(rest) = <<"proxy">> => ask.port)
         /\ ~held
<1>1. rest \in {<<"direct">>, <<"proxy">>, <<"direct", "proxy">>}  BY DEF FetchInv
<1>2. ~held /\ "proxy" \notin racing  BY DEF FetchInv
<1>3. CASE rest = <<"direct">>
  <2>1. racing = {} /\ ~ask.open  BY <1>3, RestsAre DEF FetchInv
  <2>2. Head(rest) = "direct" /\ Tail(rest) = <<>>  BY <1>3, RestsAre
  <2>. QED  BY <1>2, <2>1, <2>2, RestsAre DEF Routes
<1>4. CASE rest = <<"proxy">>
  <2>1. ask.port  BY <1>4, RestsAre DEF FetchInv
  <2>2. Head(rest) = "proxy" /\ Tail(rest) = <<>>  BY <1>4, RestsAre
  <2>. QED  BY <1>2, <2>1, <2>2, RestsAre DEF Routes
<1>5. CASE rest = <<"direct", "proxy">>
  <2>1. racing = {} /\ ask.port /\ ~ask.open  BY <1>5, RestsAre DEF FetchInv
  <2>2. Head(rest) = "direct" /\ Tail(rest) = <<"proxy">>  BY <1>5, RestsAre
  <2>. QED  BY <1>2, <2>1, <2>2, RestsAre DEF Routes
<1>. QED  BY <1>1, <1>3, <1>4, <1>5

(* A route begins, those of `gone` have ended.                               *)
LEMMA BeginsInv ==
  ASSUME FetchInv, rest # <<>>, NEW gone \in SUBSET Routes, gone = {} \/ \E r \in gone : gone = {r} /\ r \in racing,
         rest' = Tail(rest), racing' = (racing \ gone) \cup {Head(rest)}, working' = working \cup {Head(rest)},
         gone \cap working = {},
         results' \in Results, \A i \in DOMAIN results' : results'[i].of \in (racing \ gone) \ working,
         \A i, j \in DOMAIN results' : results'[i].of = results'[j].of => i = j,
         UNCHANGED <<ask, elapsed, expires, held, cancelled, verdict>>
  PROVE  FetchInv'
<1> DEFINE h == Head(rest)
           t == Tail(rest)
<1>1. /\ h \in Routes /\ h \notin racing /\ t \in {<<>>, <<"proxy">>} /\ (t = <<>> \/ h = "direct")
      /\ (h = "proxy" => t = <<>> /\ ask.port) /\ (h = "direct" => ~ask.open) /\ (t = <<"proxy">> => ask.port)
      /\ ~held
  BY NextRoute
<1>2. racing' = (racing \ gone) \cup {h} /\ working' = working \cup {h} /\ rest' = t  OBVIOUS
<1> HIDE DEF h, t
<1>3. "proxy" \notin racing /\ racing \subseteq Routes /\ working \subseteq racing  BY DEF FetchInv
<1>4. rest' # <<>> => "proxy" \notin racing'
  <2>1. rest' # <<>> => h = "direct"  BY <1>1, <1>2
  <2>. QED  BY <2>1, <1>2, <1>3
<1>5. rest' \notin {<<"direct">>, <<"direct", "proxy">>}  BY <1>1, <1>2, RestsAre
<1>6. working' \subseteq racing' /\ racing' \subseteq Routes  BY <1>1, <1>2, <1>3
<1>7. \A i \in DOMAIN results' : results'[i].of \in racing' \ working'  BY <1>1, <1>2
<1>8. ask.open => "direct" \notin racing' /\ rest' \in {<<>>, <<"proxy">>}
  <2>1. ask.open => h # "direct" /\ "direct" \notin racing  BY <1>1 DEF FetchInv
  <2>. QED  BY <2>1, <1>1, <1>2
<1>9. ~ask.port => "proxy" \notin racing' /\ rest' \in {<<>>, <<"direct">>}
  <2>1. ~ask.port => h # "proxy" /\ t = <<>>  BY <1>1
  <2>. QED  BY <2>1, <1>2, <1>3
<1>10. /\ ask' = ask /\ ask \in [mode : {"auto", "direct", "proxy"}, port : BOOLEAN, open : BOOLEAN]
       /\ elapsed' \in 0..(Deadline + 1) /\ expires' \in 0..Deadline /\ held' \in BOOLEAN
              /\ cancelled' \in BOOLEAN
       /\ ~held' /\ expires' = Deadline
       /\ verdict' \in {"going", "body", "refused", "cleartext", "noport", "cancelled", "unreachable",
              "untried", "bug"}
  BY <1>1 DEF FetchInv
<1>. QED  BY <1>1, <1>2, <1>4, <1>5, <1>6, <1>7, <1>8, <1>9, <1>10 DEF FetchInv

(* Nothing begins: routes end, or the clock or the verdict moves.            *)
LEMMA EndsInv ==
  ASSUME FetchInv, UNCHANGED <<ask, rest>>, racing' \subseteq racing, working' \subseteq working,
             working' \subseteq racing',
         results' \in Results, \A i \in DOMAIN results' : results'[i].of \in racing' \ working',
         \A i, j \in DOMAIN results' : results'[i].of = results'[j].of => i = j,
         elapsed' \in 0..(Deadline + 1), expires' \in 0..Deadline, held' \in BOOLEAN, cancelled' \in BOOLEAN,
         held' => rest = <<>> /\ "proxy" \notin racing', ~held' => expires' = Deadline,
         verdict' \in {"going", "body", "refused", "cleartext", "noport", "cancelled", "unreachable",
             "untried", "bug"}
  PROVE  FetchInv'
<1>1. /\ rest' # <<>> => "proxy" \notin racing'
      /\ rest' \in {<<"direct">>, <<"direct", "proxy">>} => racing' = {}
  BY DEF FetchInv
<1>2. racing' \subseteq Routes  BY DEF FetchInv
<1>3. /\ (ask'.open => "direct" \notin racing' /\ rest' \in {<<>>, <<"proxy">>})
      /\ (~ask'.port => "proxy" \notin racing' /\ rest' \in {<<>>, <<"direct">>})
  BY DEF FetchInv
<1>4. /\ ask' \in [mode : {"auto", "direct", "proxy"}, port : BOOLEAN, open : BOOLEAN]
      /\ rest' \in {<<>>, <<"direct">>, <<"proxy">>, <<"direct", "proxy">>}
  BY DEF FetchInv
<1>. QED  BY <1>1, <1>2, <1>3, <1>4 DEF FetchInv

LEMMA FetchTypes ==
  ASSUME FetchInv
  PROVE  /\ working \subseteq racing /\ results \in Results
            /\ (\A i \in DOMAIN results : results[i].of \in racing \ working)
         /\ (\A i, j \in DOMAIN results : results[i].of = results[j].of => i = j)
         /\ elapsed \in 0..(Deadline + 1) /\ expires \in 0..Deadline
         /\ held \in BOOLEAN /\ cancelled \in BOOLEAN
         /\ (held => rest = <<>> /\ "proxy" \notin racing) /\ (~held => expires = Deadline)
         /\ verdict \in {"going", "body", "refused", "cleartext", "noport", "cancelled", "unreachable",
                "untried", "bug"}
BY DEF FetchInv

LEMMA FetchBeginsInv == ASSUME FetchInv, FetchBegins PROVE FetchInv'
<1>1. CASE rest = <<>>
  <2>1. /\ verdict' \in {"cleartext", "noport"}
        /\ UNCHANGED <<ask, rest, racing, working, results, elapsed, expires, held, cancelled>>
    BY <1>1 DEF FetchBegins
  <2>. QED  BY <2>1, FetchTypes, EndsInv
<1>2. CASE rest # <<>>
  <2>1. /\ rest' = Tail(rest) /\ racing' = racing \cup {Head(rest)} /\ working' = working \cup {Head(rest)}
        /\ UNCHANGED <<ask, results, elapsed, expires, held, cancelled, verdict>>
    BY <1>2 DEF FetchBegins, StartNext
  <2>2. racing' = (racing \ {}) \cup {Head(rest)}  BY <2>1
  <2>3. {} \in SUBSET Routes /\ {} \cap working = {}  OBVIOUS
  <2>. QED  BY <1>2, <2>1, <2>2, <2>3, FetchTypes, BeginsInv
<1>. QED  BY <1>1, <1>2

LEMMA SecondRouteInv == ASSUME FetchInv, SecondRoute PROVE FetchInv'
<1>1. /\ rest # <<>> /\ rest' = Tail(rest) /\ racing' = racing \cup {Head(rest)}
             /\ working' = working \cup {Head(rest)}
      /\ UNCHANGED <<ask, results, elapsed, expires, held, cancelled, verdict>>
  BY DEF SecondRoute, Started, StartNext
<1>2. racing' = (racing \ {}) \cup {Head(rest)}  BY <1>1
<1>3. {} \in SUBSET Routes /\ {} \cap working = {}  OBVIOUS
<1>. QED  BY <1>1, <1>2, <1>3, FetchTypes, BeginsInv

LEMMA GivenUpInv == ASSUME FetchInv, FetchCancelled \/ Expired \/ CancelFetch PROVE FetchInv'
<1>1. /\ UNCHANGED <<ask, rest, racing, working, results, elapsed, expires, held>>
      /\ cancelled' \in {TRUE, cancelled}
      /\ verdict' \in {verdict, "cancelled", "refused", "untried", "unreachable"}
  BY DEF FetchCancelled, Expired, CancelFetch, Unanswered
<1>. QED  BY <1>1, FetchTypes, EndsInv

LEMMA ClockInv == ASSUME FetchInv, Time PROVE FetchInv'
<1>1. /\ elapsed <= Deadline /\ elapsed' = elapsed + 1
      /\ UNCHANGED <<ask, rest, racing, working, results, expires, held, cancelled, verdict>>
  BY DEF Time
<1>2. elapsed' \in 0..(Deadline + 1)  BY <1>1, FetchAssumption, FetchTypes
<1>. QED  BY <1>1, <1>2, FetchTypes, EndsInv

LEMMA RouteEndsInv == ASSUME FetchInv, NEW r \in Routes, NEW o \in Outcomes, RouteEnds(r, o) PROVE FetchInv'
<1>1. /\ r \in working /\ working' = working \ {r}
      /\ results' = IF r \in racing THEN Append(results, [of |-> r, is |-> o]) ELSE results
      /\ UNCHANGED <<ask, rest, racing, elapsed, expires, held, cancelled, verdict>>
  BY DEF RouteEnds
<1> DEFINE n == [of |-> r, is |-> o]
<1>2. n \in Entry /\ n.of = r  BY DEF Entry
<1>3. results' = Append(results, n)  BY <1>1, FetchTypes
<1> HIDE DEF n
<1>4. /\ results' \in Results /\ DOMAIN results' = DOMAIN results \cup {Len(results) + 1}
             /\ DOMAIN results = 1..Len(results)
      /\ results'[Len(results) + 1] = n /\ (\A i \in DOMAIN results : results'[i] = results[i])
             /\ Len(results) \in Nat
  BY <1>2, <1>3, FetchTypes DEF Results
<1>5. \A i \in DOMAIN results' : results'[i].of \in racing' \ working'
  <2>1. \A i \in DOMAIN results : results'[i].of \in racing' \ working'  BY <1>1, <1>4, FetchTypes
  <2>2. r \in racing' \ working'  BY <1>1, FetchTypes
  <2>. QED  BY <2>1, <2>2, <1>2, <1>4
<1>6. \A i, j \in DOMAIN results' : results'[i].of = results'[j].of => i = j
  <2>1. \A i \in DOMAIN results : results'[i].of # r /\ results'[i] = results[i]  BY <1>1, <1>4, FetchTypes
  <2>2. \A i, j \in DOMAIN results : results[i].of = results[j].of => i = j  BY FetchTypes
  <2>3. \A i \in DOMAIN results' : i \in DOMAIN results \/ i = Len(results) + 1  BY <1>4
  <2>. QED  BY <2>1, <2>2, <2>3, <1>2, <1>4
<1>. QED  BY <1>1, <1>4, <1>5, <1>6, FetchTypes, EndsInv

(* The first outcome of the queue: its route ran, and no other is its.       *)
LEMMA OutcomeIs ==
  ASSUME FetchInv, results # <<>>
  PROVE  /\ Head(results) \in [of : Routes, is : Outcomes] /\ Head(results).of \in racing \ working
         /\ Tail(results) \in Results
         /\ \A i \in DOMAIN Tail(results) : Tail(results)[i].of \in (racing \ {Head(results).of}) \ working
         /\ \A i, j \in DOMAIN Tail(results) : Tail(results)[i].of = Tail(results)[j].of => i = j
<1>1. results \in Results /\ Len(results) \in Nat \ {0} /\ DOMAIN results = 1..Len(results)
  BY FetchTypes DEF Results
<1>2. /\ Head(results) = results[1] /\ 1 \in DOMAIN results /\ Tail(results) \in Results
      /\ \A i \in DOMAIN Tail(results) : Tail(results)[i] = results[i + 1] /\ i + 1 \in DOMAIN results
             /\ i + 1 # 1 /\ i \in Nat
  BY <1>1 DEF Results
<1>3. /\ \A i \in DOMAIN results : results[i].of \in racing \ working
      /\ \A i, j \in DOMAIN results : results[i].of = results[j].of => i = j
  BY FetchTypes
<1>4. Head(results) \in [of : Routes, is : Outcomes]
  <2>1. results[1] \in Entry  BY <1>1, <1>2 DEF Results
  <2>. QED  BY <2>1, <1>2 DEF Entry
<1>5. \A i \in DOMAIN Tail(results) : Tail(results)[i].of \in (racing \ {Head(results).of}) \ working
  <2> SUFFICES ASSUME NEW i \in DOMAIN Tail(results)
               PROVE  Tail(results)[i].of \in (racing \ {Head(results).of}) \ working
    OBVIOUS
  <2>1. Tail(results)[i] = results[i + 1] /\ i + 1 \in DOMAIN results /\ i + 1 # 1  BY <1>2
  <2>2. results[i + 1].of \in racing \ working  BY <2>1, <1>3
  <2>3. results[i + 1].of # results[1].of  BY <2>1, <1>2, <1>3
  <2>. QED  BY <2>1, <2>2, <2>3, <1>2
<1>6. \A i, j \in DOMAIN Tail(results) : Tail(results)[i].of = Tail(results)[j].of => i = j
  <2>1. \A i, j \in DOMAIN Tail(results) : Tail(results)[i].of = Tail(results)[j].of => i + 1 = j + 1
    BY <1>2, <1>3
  <2>2. \A i, j \in Nat : i + 1 = j + 1 => i = j  OBVIOUS
  <2>. QED  BY <2>1, <2>2, <1>2
<1>. QED  BY <1>2, <1>3, <1>4, <1>5, <1>6

LEMMA OutcomeInv == ASSUME FetchInv, Outcome PROVE FetchInv'
<1> DEFINE r == Head(results)
<1>1. /\ results # <<>> /\ results' = Tail(results) /\ UNCHANGED <<ask, elapsed, cancelled>>
             /\ elapsed < expires
      /\ racing # {}
  BY DEF Outcome, Awake
<1>2. /\ r \in [of : Routes, is : Outcomes] /\ r.of \in racing \ working /\ results' \in Results
      /\ \A i \in DOMAIN results' : results'[i].of \in (racing \ {r.of}) \ working
      /\ \A i, j \in DOMAIN results' : results'[i].of = results'[j].of => i = j
  BY <1>1, OutcomeIs
<1>3. CASE Outranked(r)
  <2>1. /\ racing' = racing \ {r.of} /\ held' = TRUE
        /\ expires' = IF elapsed + Grace < expires THEN elapsed + Grace ELSE expires
        /\ UNCHANGED <<rest, working, verdict>>
    BY <1>3 DEF Outcome
  <2>2. r.of = "proxy"  BY <1>3 DEF Outranked
  <2>3. rest = <<>>  BY <2>2, <1>2 DEF FetchInv
  <2>4. expires' \in 0..Deadline
    <3>1. Grace \in Nat /\ Deadline \in Nat  BY FetchAssumption
    <3>2. elapsed \in Nat /\ expires \in 0..Deadline  BY FetchTypes
    <3>3. CASE elapsed + Grace < expires  BY <2>1, <3>1, <3>2, <3>3
    <3>4. CASE ~(elapsed + Grace < expires)  BY <2>1, <3>2, <3>4
    <3>. QED  BY <3>3, <3>4
  <2>5. "proxy" \notin racing' /\ racing' \subseteq racing /\ working \subseteq racing'
    BY <2>1, <2>2, <1>2, FetchTypes
  <2> HIDE DEF r
  <2>. QED  BY <1>1, <1>2, <2>1, <2>3, <2>4, <2>5, FetchTypes, EndsInv
<1>4. CASE ~Outranked(r) /\ r.is = "network"
  <2>1. NextAfter(r) /\ UNCHANGED <<held, expires>>  BY <1>4 DEF Outcome
  <2>2. CASE rest # <<>>
    <3>1. /\ rest' = Tail(rest) /\ UNCHANGED verdict /\ racing' = (racing \ {r.of}) \cup {Head(rest)}
          /\ working' = working \cup {Head(rest)}
      BY <2>1, <2>2 DEF NextAfter
    <3>2. {r.of} \in SUBSET Routes /\ {r.of} \cap working = {} /\ r.of \in racing  BY <1>2
    <3> HIDE DEF r
    <3>3. {r.of} = {} \/ \E x \in {r.of} : {r.of} = {x} /\ x \in racing  BY <3>2
    <3>. QED  BY <1>1, <1>2, <2>1, <2>2, <3>1, <3>2, <3>3, BeginsInv
  <2>3. CASE rest = <<>>
    <3>1. /\ racing' = racing \ {r.of} /\ UNCHANGED <<rest, working>>
          /\ verdict' \in {"refused", "untried", "unreachable", "going"}
      BY <2>1, <2>3 DEF NextAfter, Unanswered
    <3>2. racing' \subseteq racing /\ working \subseteq racing'  BY <3>1, <1>2, FetchTypes
    <3>3. held' => rest = <<>> /\ "proxy" \notin racing'  BY <3>2, <2>1, FetchTypes
    <3> HIDE DEF r
    <3>. QED  BY <1>1, <1>2, <2>1, <3>1, <3>2, <3>3, FetchTypes, EndsInv
  <2>. QED  BY <2>2, <2>3
<1>5. CASE ~Outranked(r) /\ r.is # "network"
  <2>1. verdict' = r.is /\ racing' = racing \ {r.of} /\ UNCHANGED <<rest, working, held, expires>>
    BY <1>5 DEF Outcome
  <2>2. verdict' \in {"body", "refused", "bug"}  BY <2>1, <1>2, <1>5 DEF Outcomes
  <2>3. racing' \subseteq racing /\ working \subseteq racing'  BY <2>1, <1>2, FetchTypes
  <2>4. held' => rest = <<>> /\ "proxy" \notin racing'  BY <2>1, <2>3, FetchTypes
  <2> HIDE DEF r
  <2>. QED  BY <1>1, <1>2, <2>1, <2>2, <2>3, <2>4, FetchTypes, EndsInv
<1>. QED  BY <1>3, <1>4, <1>5

LEMMA FetchStep == ASSUME FetchInv, [FetchNext]_fetchVars PROVE FetchInv'
<1>1. CASE FetchLoop
  <2>1. FetchBegins \/ (FetchCancelled \/ Expired) \/ SecondRoute \/ Outcome  BY <1>1 DEF FetchLoop
  <2>. QED  BY <2>1, FetchBeginsInv, GivenUpInv, SecondRouteInv, OutcomeInv
<1>2. CASE CancelFetch  BY <1>2, GivenUpInv
<1>3. CASE Time  BY <1>3, ClockInv
<1>4. CASE \E r \in Routes, o \in Outcomes : RouteEnds(r, o)  BY <1>4, RouteEndsInv
<1>5. CASE UNCHANGED fetchVars  BY <1>5 DEF FetchInv, fetchVars
<1>. QED  BY <1>1, <1>2, <1>3, <1>4, <1>5 DEF FetchNext

LEMMA FetchTyped == FetchInv => FetchTypeOK
<1> SUFFICES ASSUME FetchInv  PROVE FetchTypeOK  OBVIOUS
<1>1. rest \in BoundedSeq(Routes, 2)
  <2>1. rest \in {<<>>, <<"direct">>, <<"proxy">>, <<"direct", "proxy">>}  BY DEF FetchInv
  <2>2. \E m \in 0..2 : rest \in [1..m -> Routes]
    <3>1. CASE rest = <<>>
      <4>1. rest \in [1..0 -> Routes] /\ 0 \in 0..2  BY <3>1
      <4>. QED  BY <4>1
    <3>2. CASE rest \in {<<"direct">>, <<"proxy">>}
      <4>1. rest \in [1..1 -> Routes] /\ 1 \in 0..2  BY <3>2 DEF Routes
      <4>. QED  BY <4>1
    <3>3. CASE rest = <<"direct", "proxy">>
      <4>1. rest \in [1..2 -> Routes] /\ 2 \in 0..2  BY <3>3 DEF Routes
      <4>. QED  BY <4>1
    <3>. QED  BY <2>1, <3>1, <3>2, <3>3
  <2>. QED  BY <2>2 DEF BoundedSeq, SeqOf
<1>2. \A i \in DOMAIN results : results[i] \in [of : racing, is : Outcomes]
  <2> SUFFICES ASSUME NEW i \in DOMAIN results  PROVE results[i] \in [of : racing, is : Outcomes]  OBVIOUS
  <2>1. results[i] \in Entry  BY FetchTypes DEF Results
  <2>2. results[i].of \in racing  BY FetchTypes
  <2>. QED  BY <2>1, <2>2 DEF Entry
<1>3. /\ ask \in [mode : {"auto", "direct", "proxy"}, port : BOOLEAN, open : BOOLEAN]
      /\ working \subseteq racing /\ racing \subseteq Routes /\ elapsed \in 0..(Deadline + 1)
             /\ expires \in 0..Deadline
      /\ (held => "proxy" \notin racing) /\ cancelled \in BOOLEAN /\ (ask.open => "direct" \notin racing)
      /\ verdict \in {"going", "body", "refused", "cleartext", "noport", "cancelled", "unreachable",
             "untried", "bug"}
  BY DEF FetchInv
<1>. QED  BY <1>1, <1>2, <1>3 DEF FetchTypeOK

(* How a download ends: before anything began, cancelled, at its deadline,   *)
(* or with the outcome that is looked at.                                    *)
LEMMA EndsHow ==
  ASSUME FetchInv, [FetchNext]_fetchVars, verdict = "going", verdict' # "going"
  PROVE  \/ verdict' \in {"cleartext", "noport", "cancelled"}
         \/ elapsed >= expires /\ verdict' = Unanswered(held)
         \/ /\ results # <<>> /\ ~Outranked(Head(results)) /\ Head(results).is # "network" /\ verdict' = Head(results).is
         \/ /\ results # <<>> /\ rest = <<>> /\ racing \ {Head(results).of} = {} /\ verdict' = Unanswered(held)
<1>1. CASE FetchBegins  BY <1>1 DEF FetchBegins
<1>2. CASE FetchCancelled  BY <1>2 DEF FetchCancelled
<1>3. CASE Expired  BY <1>3 DEF Expired
<1>4. CASE Outcome
  <2>1. CASE Outranked(Head(results))  BY <1>4, <2>1 DEF Outcome
  <2>2. CASE ~Outranked(Head(results)) /\ Head(results).is = "network"
    <3>1. results # <<>> /\ NextAfter(Head(results))  BY <1>4, <2>2 DEF Outcome
    <3>2. rest = <<>>  BY <3>1 DEF NextAfter
    <3>. QED  BY <3>1, <3>2 DEF NextAfter
  <2>3. CASE ~Outranked(Head(results)) /\ Head(results).is # "network"  BY <1>4, <2>3 DEF Outcome
  <2>. QED  BY <2>1, <2>2, <2>3
<1>5. CASE SecondRoute \/ CancelFetch \/ Time \/ UNCHANGED fetchVars
  BY <1>5 DEF SecondRoute, CancelFetch, Time, fetchVars
<1>6. CASE \E r \in Routes, o \in Outcomes : RouteEnds(r, o)  BY <1>6 DEF RouteEnds
<1>. QED  BY <1>1, <1>2, <1>3, <1>4, <1>5, <1>6 DEF FetchNext, FetchLoop

LEMMA UnansweredIs ==
  ASSUME FetchInv
  PROVE  /\ Unanswered(held) \in {"refused", "untried", "unreachable"}
         /\ (Unanswered(held) = "refused" <=> held)
         /\ (Unanswered(held) = "untried" => "proxy" \notin racing /\ ask.mode = "auto")
<1>1. Untried => "proxy" \notin racing /\ ask.mode = "auto"  BY DEF Untried, FetchInv
<1>. QED  BY <1>1 DEF Unanswered

LEMMA FetchMoves ==
  ASSUME FetchInv, [FetchNext]_fetchVars
  PROVE  /\ Over("refused") => \/ "direct" \notin racing \/ elapsed >= expires
                               \/ results # <<>> /\ Head(results).of = "direct"
         /\ \A v \in {"unreachable", "untried"} : Over(v) => (rest = <<>> /\ ~held) \/ elapsed >= Deadline
         /\ Over("untried") => "proxy" \notin racing /\ ask.mode = "auto"
<1>1. ASSUME Over("refused")
      PROVE  "direct" \notin racing \/ elapsed >= expires \/ (results # <<>> /\ Head(results).of = "direct")
  <2>1. verdict = "going" /\ verdict' = "refused"  BY <1>1 DEF Over
  <2>2. \/ elapsed >= expires
        \/ results # <<>> /\ ~Outranked(Head(results)) /\ verdict' = Head(results).is
        \/ results # <<>> /\ racing \ {Head(results).of} = {}
    BY <2>1, EndsHow
  <2>3. results # <<>> => Head(results).of \in Routes  BY OutcomeIs
  <2>4. CASE elapsed >= expires  BY <2>4
  <2>5. CASE results # <<>> /\ ~Outranked(Head(results)) /\ verdict' = Head(results).is
    <3>1. Head(results).is = "refused" /\ Head(results).of \in {"direct", "proxy"}
      BY <2>1, <2>3, <2>5 DEF Routes
    <3>2. Head(results).of # "proxy" \/ "direct" \notin racing  BY <2>5, <3>1 DEF Outranked
    <3>. QED  BY <2>5, <3>1, <3>2
  <2>6. CASE results # <<>> /\ racing \ {Head(results).of} = {}
    <3>1. "direct" \in racing => Head(results).of = "direct"  BY <2>6
    <3>. QED  BY <2>6, <3>1
  <2>. QED  BY <2>2, <2>4, <2>5, <2>6
<1>2. ASSUME NEW v \in {"unreachable", "untried"}, Over(v)
      PROVE  ((rest = <<>> /\ ~held) \/ elapsed >= Deadline) /\ (v = "untried" => "proxy" \notin racing /\ ask.mode = "auto")
  <2>1. verdict = "going" /\ verdict' = v
            /\ v \notin {"refused", "going", "body", "bug", "cleartext", "noport", "cancelled"}
    BY <1>2 DEF Over
  <2>2. results # <<>> => Head(results).is \in Outcomes  BY OutcomeIs
  <2>3. verdict' = Unanswered(held) /\ (elapsed >= expires \/ rest = <<>>)
    <3>1. ~(results # <<>> /\ Head(results).is # "network" /\ verdict' = Head(results).is)
      BY <2>1, <2>2 DEF Outcomes
    <3>. QED  BY <2>1, <3>1, EndsHow
  <2>4. ~held  BY <2>1, <2>3, UnansweredIs
  <2>5. expires = Deadline  BY <2>4 DEF FetchInv
  <2>. QED  BY <2>1, <2>3, <2>4, <2>5, UnansweredIs
<1>. QED  BY <1>1, <1>2

-----------------------------------------------------------------------------
(* The match of an update. Each server of it that was given a place shares   *)
(* the address of what is there.                                             *)
NearTo(a, b) == a.key = b.key \/ Addr[a.key] = Addr[b.key]

MatchTyped ==
  /\ old \in Seq(Record) /\ coming \in Seq(Record) /\ IsInjective(old) /\ IsInjective(coming)
  /\ match \in Seq(0..Len(old)) /\ Len(match) <= Len(coming)

MatchInv ==
  /\ MatchTyped
  /\ \A i, j \in DOMAIN match : match[i] = match[j] /\ i # j => match[i] = 0
  /\ \A i \in DOMAIN match : match[i] # 0 => NearTo(coming[i], old[match[i]])
  /\ SameKept

LEMMA LowestNumber == ASSUME NEW T, T \subseteq Nat, T # {} PROVE \E x \in T : \A y \in T : x <= y
<1> DEFINE R == {ss \in Nat \X Nat : ss[1] < ss[2]}
<1>1. R = OpToRel(<, Nat)  BY Zenon DEF OpToRel
<1>2. IsWellFoundedOn(R, Nat)  BY Zenon, <1>1, NatLessThanWellFounded
<1>3. \A x, y \in Nat : y < x => <<y, x>> \in R  OBVIOUS
<1> HIDE DEF R
<1>4. PICK x \in T : \A y \in T : ~ (<<y, x>> \in R)  BY Zenon, <1>2, WFMin
<1>5. \A y \in T : x <= y
  <2> TAKE y \in T
  <2>1. x \in Nat /\ y \in Nat  OBVIOUS
  <2>2. ~ (y < x)  BY <1>3, <1>4, <2>1
  <2>. QED  BY <2>1, <2>2
<1>. QED  BY <1>5

LEMMA MinIs == ASSUME NEW T, T \subseteq Nat, T # {} PROVE Min(T) \in T
<1>1. \E x \in T : \A y \in T : x =< y  BY LowestNumber
<1>. QED  BY <1>1 DEF Min

LEMMA ListsAre ==
  ASSUME NEW l \in Lists
  PROVE  l \in Seq(Record) /\ IsInjective(l)
<1>1. PICK m \in 0..MaxServers : l \in [1..m -> Record]  BY DEF Lists, BoundedSeq, SeqOf
<1>2. m \in Nat  BY MatchAssumption
<1>3. l \in Seq(Record)  BY <1>1, <1>2
<1>. QED  BY <1>3 DEF Lists

LEMMA MatchInitInv == MatchInit => MatchInv
<1> SUFFICES ASSUME MatchInit  PROVE MatchInv  OBVIOUS
<1>1. old \in Seq(Record) /\ coming \in Seq(Record) /\ IsInjective(old) /\ IsInjective(coming)
  BY ListsAre DEF MatchInit
<1>2. match = <<>> /\ DOMAIN match = {} /\ Len(match) = 0 /\ match \in Seq(0..Len(old))  BY DEF MatchInit
<1>3. Len(coming) \in Nat  BY <1>1
<1>4. 0 <= Len(coming)  BY <1>3
<1>. QED  BY <1>1, <1>2, <1>4 DEF MatchInv, MatchTyped, SameKept

LEMMA FoundIs ==
  ASSUME MatchTyped, NEW c \in Record
  PROVE  /\ Found(c) \in 0..Len(old)
         /\ Found(c) # 0 => Found(c) \in Unused /\ NearTo(c, old[Found(c)])
         /\ \A o \in Unused : old[o] = c => Found(c) = o
<1>1. old \in Seq(Record) /\ Len(old) \in Nat /\ DOMAIN old = 1..Len(old) /\ IsInjective(old)  BY DEF MatchTyped
<1>2. Unused \subseteq 1..Len(old)  BY <1>1 DEF Unused
<1>3. /\ Exact(c) \subseteq Named(c) /\ Named(c) \subseteq Partners(c) /\ Partners(c) \subseteq Unused
      /\ Fallback(c) \subseteq Unused
  BY DEF Exact, Named, Partners, Fallback
<1>4. \A T : T \subseteq Unused /\ T # {} => Min(T) \in T
  <2> SUFFICES ASSUME NEW T, T \subseteq Unused, T # {}  PROVE Min(T) \in T  OBVIOUS
  <2>1. T \subseteq Nat  BY <1>1, <1>2
  <2>. QED  BY <2>1, MinIs
<1>5. \/ Exact(c) # {} /\ Found(c) \in Exact(c)
      \/ Exact(c) = {} /\ Found(c) \in Partners(c)
      \/ Exact(c) = {} /\ Found(c) \in Fallback(c)
      \/ Exact(c) = {} /\ Found(c) = 0
  <2>1. CASE Exact(c) # {}
    <3>1. Found(c) = Min(Exact(c))  BY <2>1 DEF Found
    <3>. QED  BY <2>1, <3>1, <1>3, <1>4
  <2>2. CASE Exact(c) = {} /\ Named(c) # {}
    <3>1. Found(c) = Min(Named(c))  BY <2>2 DEF Found
    <3>. QED  BY <2>2, <3>1, <1>3, <1>4
  <2>3. CASE Exact(c) = {} /\ Named(c) = {} /\ Partners(c) # {}
    <3>1. Found(c) = Min(Partners(c))  BY <2>3 DEF Found
    <3>. QED  BY <2>3, <3>1, <1>3, <1>4
  <2>4. CASE Exact(c) = {} /\ Named(c) = {} /\ Partners(c) = {}
    <3>1. Found(c) = IF \E o \in Fallback(c) : Fallback(c) = {o} THEN Min(Fallback(c)) ELSE 0  BY <2>4 DEF Found
    <3>2. CASE \E o \in Fallback(c) : Fallback(c) = {o}
      <4>1. Found(c) = Min(Fallback(c)) /\ Fallback(c) # {}  BY <3>1, <3>2
      <4>. QED  BY <2>4, <4>1, <1>3, <1>4
    <3>3. CASE ~ \E o \in Fallback(c) : Fallback(c) = {o}  BY <2>4, <3>1, <3>3
    <3>. QED  BY <3>2, <3>3
  <2>. QED  BY <2>1, <2>2, <2>3, <2>4
<1>6. Found(c) # 0 => Found(c) \in Unused /\ NearTo(c, old[Found(c)])
  <2>1. \A o \in Exact(c) : o \in Unused /\ old[o].key = c.key  BY DEF Exact, Named, Partners
  <2>2. \A o \in Partners(c) : o \in Unused /\ old[o].key = c.key  BY DEF Partners
  <2>3. \A o \in Fallback(c) : o \in Unused /\ Addr[old[o].key] = Addr[c.key]  BY DEF Fallback
  <2> DEFINE f == Found(c)
  <2>4. f # 0 => f \in Exact(c) \/ f \in Partners(c) \/ f \in Fallback(c)  BY <1>5
  <2> HIDE DEF f
  <2>5. f # 0 => f \in Unused /\ (old[f].key = c.key \/ Addr[old[f].key] = Addr[c.key])
    BY <2>1, <2>2, <2>3, <2>4
  <2>6. f # 0 => f \in Unused /\ (c.key = old[f].key \/ Addr[c.key] = Addr[old[f].key])  BY <2>5
  <2>. QED  BY <2>6 DEF NearTo, f
<1>7. Found(c) \in 0..Len(old)
  <2> DEFINE f == Found(c)
  <2>1. f = 0 \/ f \in 1..Len(old)  BY <1>2, <1>6
  <2> HIDE DEF f
  <2>2. f \in 0..Len(old)  BY <1>1, <2>1
  <2>. QED  BY <2>2 DEF f
<1>8. ASSUME NEW o \in Unused, old[o] = c  PROVE Found(c) = o
  <2>1. o \in Exact(c)  BY <1>8 DEF Exact, Named, Partners
  <2>2. ASSUME NEW x \in Exact(c)  PROVE x = o
    <3>1. x \in DOMAIN old /\ o \in DOMAIN old  BY <1>1, <1>2, <1>3
    <3>2. old[x] \in Record /\ old[x].key = c.key /\ old[x].name = c.name /\ old[x].mark = c.mark
      BY <3>1, <1>1 DEF Exact, Named, Partners
    <3>3. old[x] = c  BY <3>2 DEF Record
    <3>. QED  BY <3>1, <3>3, <1>1, <1>8 DEF IsInjective
  <2>. QED  BY <1>5, <2>1, <2>2
<1>. QED  BY <1>6, <1>7, <1>8

LEMMA MatchStep == ASSUME MatchInv, [MatchNext]_matchVars PROVE MatchInv'
<1>1. CASE UNCHANGED matchVars
  <2>1. UNCHANGED <<old, coming, match>>  BY <1>1 DEF matchVars
  <2>2. SameKept' <=> SameKept  BY <2>1 DEF SameKept, Still
  <2>. QED  BY <2>1, <2>2 DEF MatchInv, MatchTyped
<1>2. CASE MatchOne
  <2> DEFINE n == Len(match) + 1
             c == coming[n]
             f == Found(c)
  <2>1. Len(match) < Len(coming) /\ match' = Append(match, f) /\ UNCHANGED <<old, coming>>  BY <1>2 DEF MatchOne
  <2>2. /\ old \in Seq(Record) /\ coming \in Seq(Record) /\ IsInjective(old) /\ IsInjective(coming)
        /\ match \in Seq(0..Len(old)) /\ Len(match) <= Len(coming) /\ MatchTyped
    BY DEF MatchInv, MatchTyped
  <2>3. Len(match) \in Nat /\ DOMAIN match = 1..Len(match) /\ n \in 1..Len(coming) /\ n \in DOMAIN coming
            /\ c \in Record
    BY <2>1, <2>2
  <2>4. /\ f \in 0..Len(old) /\ (f # 0 => f \in Unused /\ NearTo(c, old[f]))
        /\ \A o \in Unused : old[o] = c => f = o
    BY <2>2, <2>3, FoundIs
  <2> HIDE DEF f
  <2>5. /\ match' \in Seq(0..Len(old)) /\ Len(match') = n /\ DOMAIN match' = DOMAIN match \cup {n}
               /\ n \notin DOMAIN match
        /\ match'[n] = f /\ \A i \in DOMAIN match : match'[i] = match[i]
    BY <2>1, <2>2, <2>3, <2>4
  <2> HIDE DEF n
  <2>6. MatchTyped'
    <3>1. Len(match') <= Len(coming)  BY <2>3, <2>5, <2>2
    <3>. QED  BY <2>1, <2>2, <2>5, <3>1 DEF MatchTyped
  <2>7. f # 0 => \A i \in DOMAIN match : match[i] # f  BY <2>4 DEF Unused, UsedIds
  <2>8. \A i, j \in DOMAIN match' : match'[i] = match'[j] /\ i # j => match'[i] = 0
    <3>1. \A i, j \in DOMAIN match : match[i] = match[j] /\ i # j => match[i] = 0  BY DEF MatchInv
    <3>2. \A i \in DOMAIN match' : i \in DOMAIN match \/ i = n  BY <2>5
    <3>. QED  BY <3>1, <3>2, <2>5, <2>7
  <2>9. \A i \in DOMAIN match' : match'[i] # 0 => NearTo(coming'[i], old'[match'[i]])
    <3>1. \A i \in DOMAIN match : match[i] # 0 => NearTo(coming[i], old[match[i]])  BY DEF MatchInv
    <3>2. \A i \in DOMAIN match' : i \in DOMAIN match \/ i = n  BY <2>5
    <3>. QED  BY <3>1, <3>2, <2>1, <2>4, <2>5
  <2>10. ASSUME NEW i \in DOMAIN match', NEW o \in DOMAIN old, coming[i] = old[o],
                \A d \in {coming[k] : k \in 1..i} : d.key = coming[i].key \/ Addr[d.key] = Addr[coming[i].key] => Still(d)
         PROVE  match'[i] = o
    <3>1. CASE i \in DOMAIN match
      <4>1. match[i] = o  BY <3>1, <2>10 DEF MatchInv, SameKept
      <4>. QED  BY <3>1, <4>1, <2>5
    <3>2. CASE i = n
      <4>1. ASSUME NEW k \in DOMAIN match, match[k] = o  PROVE FALSE
        <5>1. k \in 1..n /\ k # n /\ k \in DOMAIN coming /\ k \in Nat  BY <2>2, <2>3 DEF n
        <5>2. NearTo(coming[k], old[o])
          <6>1. o # 0  BY <2>2
          <6>. QED  BY <4>1, <6>1 DEF MatchInv
        <5>3. Addr[coming[k].key] = Addr[c.key]  BY <5>2, <2>10, <3>2 DEF NearTo
        <5>4. \A d \in {coming[m] : m \in 1..i} : Addr[d.key] = Addr[c.key] => Still(d)  BY <2>10, <3>2
        <5>5. Still(coming[k])  BY <5>1, <5>3, <5>4, <3>2
        <5>6. PICK p \in DOMAIN old : old[p] = coming[k]  BY <5>5 DEF Still
        <5>7. ASSUME NEW d \in {coming[m] : m \in 1..k},
                     d.key = coming[k].key \/ Addr[d.key] = Addr[coming[k].key]
              PROVE  Still(d)
          <6>1. PICK m \in 1..k : d = coming[m]  OBVIOUS
          <6>2. m \in 1..i  BY <5>1, <3>2, <2>3
          <6>3. Addr[d.key] = Addr[c.key]  BY <5>7, <5>3
          <6>. QED  BY <6>1, <6>2, <6>3, <5>4
        <5>8. match[k] = p  BY <5>6, <5>7 DEF MatchInv, SameKept
        <5>9. coming[k] = coming[n]  BY <5>6, <5>8, <4>1, <2>10, <3>2
        <5>. QED  BY <5>1, <5>9, <2>2, <2>3 DEF IsInjective
      <4>2. o \in Unused  BY <4>1 DEF Unused, UsedIds
      <4>3. old[o] = c  BY <2>10, <3>2
      <4>. QED  BY <4>2, <4>3, <2>4, <2>5, <3>2
    <3>3. i \in DOMAIN match \/ i = n  BY <2>5
    <3>. QED  BY <3>1, <3>2, <3>3
  <2>11. SameKept'
    <3>1. \A d : Still(d)' <=> Still(d)  BY <2>1 DEF Still
    <3>. QED  BY <2>1, <2>10, <3>1 DEF SameKept
  <2>. QED  BY <2>6, <2>8, <2>9, <2>11 DEF MatchInv
<1>. QED  BY <1>1, <1>2 DEF MatchNext

-----------------------------------------------------------------------------
(* The pings. A row waits for one endpoint, and an endpoint for which one    *)
(* waits is in one place: queued, under way, or once in the mail.            *)
RoundRec == [pending : SUBSET Row, done : Nat, total : Nat, shown : BOOLEAN]
Mailed(m, e) == \E i \in DOMAIN m : m[i] = e

OnePlace(q, end, w, m) ==
  /\ \A e \in q : end # e /\ ~Mailed(m, e)
  /\ ~Mailed(m, end)
  /\ \A i, j \in DOMAIN m : m[i] = m[j] => i = j
  /\ \A e \in Endpoint : w[e] # {} <=> e \in q \/ end = e \/ Mailed(m, e)

Waits(w, pending) ==
  /\ w \in [Endpoint -> SUBSET Row] /\ \A e \in Endpoint : w[e] \subseteq pending
  /\ \A e, f \in Endpoint, r \in Row : r \in w[e] /\ r \in w[f] => e = f

PingInv ==
  /\ rows \in [Row -> Endpoint \cup {NoEnd}]
  /\ round \in RoundRec /\ round.total = round.done + Cardinality(round.pending)
  /\ (~shut => (round.shown <=> round.pending # {}))
  /\ Waits(wait, round.pending) /\ queued \subseteq Endpoint
  /\ probe \in [state : {"none", "idle", "busy"}, end : Endpoint \cup {NoEnd}]
  /\ (probe.state = "busy" <=> probe.end # NoEnd)
  /\ pause \in BOOLEAN /\ shut \in BOOLEAN /\ mail \in Seq(Endpoint)
  /\ known \in [Row -> Endpoint \cup {NoEnd}]
  /\ (~shut => OnePlace(queued, probe.end, wait, mail))

LEMMA RowsFinite ==
  ASSUME NEW S \in SUBSET Row
  PROVE  IsFiniteSet(S) /\ Cardinality(S) \in Nat
<1>1. IsFiniteSet(S)  BY FS_Subset, PingAssumption
<1>. QED  BY <1>1, FS_CardinalityType

LEMMA PingInitInv == PingInit => PingInv
<1> SUFFICES ASSUME PingInit  PROVE PingInv  OBVIOUS
<1>1. /\ rows = EndOf /\ round = [pending |-> {}, done |-> 0, total |-> 0, shown |-> FALSE]
      /\ wait = [e \in Endpoint |-> {}] /\ queued = {} /\ probe = [state |-> "none", end |-> NoEnd]
      /\ pause = FALSE /\ mail = <<>> /\ shut = FALSE /\ known = [r \in Row |-> NoEnd]
  BY DEF PingInit
<1>2. /\ round \in RoundRec /\ round.pending = {} /\ round.done = 0 /\ round.total = 0 /\ ~round.shown
  BY <1>1 DEF RoundRec
<1>3. Cardinality(round.pending) = 0  BY <1>2, FS_EmptySet
<1>4. Waits(wait, round.pending) /\ \A e \in Endpoint : wait[e] = {}  BY <1>1 DEF Waits
<1>5. probe \in [state : {"none", "idle", "busy"}, end : Endpoint \cup {NoEnd}] /\ probe.end = NoEnd
          /\ probe.state = "none"
  BY <1>1
<1>6. mail \in Seq(Endpoint) /\ DOMAIN mail = {}  BY <1>1
<1>7. OnePlace(queued, probe.end, wait, mail)  BY <1>1, <1>4, <1>5, <1>6, PingAssumption DEF OnePlace, Mailed
<1>8. rows \in [Row -> Endpoint \cup {NoEnd}] /\ known \in [Row -> Endpoint \cup {NoEnd}]
  BY <1>1, PingAssumption
<1>9. round.total = round.done + Cardinality(round.pending)  BY <1>2, <1>3
<1>10. round.shown <=> round.pending # {}  BY <1>2
<1>11. probe.state = "busy" <=> probe.end # NoEnd  BY <1>5
<1>12. queued \subseteq Endpoint /\ pause \in BOOLEAN /\ shut \in BOOLEAN /\ ~shut  BY <1>1
<1>. QED  BY <1>2, <1>4, <1>5, <1>6, <1>7, <1>8, <1>9, <1>10, <1>11, <1>12 DEF PingInv

LEMMA RequestInv == ASSUME PingInv, NEW S \in SUBSET Row, Request(S) PROVE PingInv'
<1> DEFINE fresh == {r \in S : rows[r] # NoEnd /\ r \notin round.pending}
           ends == {rows[r] : r \in fresh}
           begun == {e \in ends : wait[e] = {}}
<1>1. /\ fresh # {} /\ ~shut
      /\ wait' = [e \in Endpoint |-> wait[e] \cup {r \in fresh : rows[r] = e}]
      /\ queued' = queued \cup begun /\ probe' = Spawned(queued \cup begun)
      /\ round' = [pending |-> round.pending \cup fresh, done |-> round.done,
                   total |-> round.total + Cardinality(fresh), shown |-> TRUE]
      /\ UNCHANGED <<rows, pause, mail, shut, known>>
  BY DEF Request
<1>2. /\ rows \in [Row -> Endpoint \cup {NoEnd}] /\ round \in RoundRec
      /\ round.total = round.done + Cardinality(round.pending) /\ Waits(wait, round.pending)
             /\ queued \subseteq Endpoint
      /\ probe \in [state : {"none", "idle", "busy"}, end : Endpoint \cup {NoEnd}]
      /\ (probe.state = "busy" <=> probe.end # NoEnd) /\ OnePlace(queued, probe.end, wait, mail)
  BY <1>1 DEF PingInv
<1>3. fresh \in SUBSET Row /\ round.pending \in SUBSET Row /\ fresh \cap round.pending = {}
  BY <1>2 DEF RoundRec
<1>4. ends \subseteq Endpoint /\ begun \subseteq Endpoint
  <2>1. \A r \in fresh : rows[r] \in Endpoint  BY <1>2
  <2>. QED  BY <2>1
<1>5. ends \subseteq Endpoint /\ \A e \in Endpoint : e \in ends <=> \E r \in fresh : rows[r] = e  BY <1>4
<1>6. \A e \in Endpoint : e \in begun <=> e \in ends /\ wait[e] = {}  OBVIOUS
<1> HIDE DEF fresh, ends, begun
<1>7. \A e \in Endpoint : wait'[e] = wait[e] \cup {r \in fresh : rows[r] = e}  BY <1>1
<1>8. /\ round'.pending = round.pending \cup fresh /\ round'.done = round.done
      /\ round'.total = round.total + Cardinality(fresh) /\ round'.shown = TRUE
  BY <1>1
<1>9. /\ Cardinality(fresh) \in Nat /\ Cardinality(round.pending) \in Nat
      /\ Cardinality(round.pending \cup fresh) = Cardinality(round.pending) + Cardinality(fresh)
  <2>1. IsFiniteSet(fresh) /\ IsFiniteSet(round.pending) /\ Cardinality(fresh) \in Nat
            /\ Cardinality(round.pending) \in Nat
    BY <1>3, RowsFinite
  <2>2. Cardinality(round.pending \cup fresh)
          = Cardinality(round.pending) + Cardinality(fresh) - Cardinality(round.pending \cap fresh)
    BY <2>1, FS_Union
  <2>3. Cardinality(round.pending \cap fresh) = 0
    <3>1. round.pending \cap fresh = {}  BY <1>3
    <3>. QED  BY <3>1, FS_EmptySet
  <2>. QED  BY <2>1, <2>2, <2>3
<1>10. round' \in RoundRec /\ round'.total = round'.done + Cardinality(round'.pending)
  <2>1. round.done \in Nat /\ round.total \in Nat  BY <1>2 DEF RoundRec
  <2>2. round.total + Cardinality(fresh) \in Nat  BY <2>1, <1>9
  <2>3. \A a, b, c, d \in Nat : a = b + c => a + d = b + (c + d)  OBVIOUS
  <2>4. round'.total = round'.done + Cardinality(round'.pending)
    <3>1. Cardinality(round'.pending) = Cardinality(round.pending) + Cardinality(fresh)  BY <1>8, <1>9
    <3>. QED  BY <1>2, <1>8, <1>9, <2>1, <2>3, <3>1
  <2>5. round' \in RoundRec  BY <1>1, <1>3, <2>1, <2>2 DEF RoundRec
  <2>. QED  BY <2>4, <2>5
<1>11. Waits(wait', round'.pending)
  <2>1. wait \in [Endpoint -> SUBSET Row] /\ (\A e \in Endpoint : wait[e] \subseteq round.pending)
        /\ \A e, f \in Endpoint, r \in Row : r \in wait[e] /\ r \in wait[f] => e = f
    BY <1>2 DEF Waits
  <2>2. wait' \in [Endpoint -> SUBSET Row]  BY <1>1, <1>3, <2>1
  <2>3. \A e \in Endpoint : wait'[e] \subseteq round'.pending  BY <1>7, <1>8, <2>1
  <2>4. ASSUME NEW e \in Endpoint, NEW f \in Endpoint, NEW r \in Row, r \in wait'[e],
            r \in wait'[f]  PROVE e = f
    <3>1. CASE r \in fresh
      <4>1. r \notin wait[e] /\ r \notin wait[f]  BY <3>1, <2>1, <1>3
      <4>. QED  BY <4>1, <2>4, <1>7
    <3>2. CASE r \notin fresh  BY <3>2, <2>1, <2>4, <1>7
    <3>. QED  BY <3>1, <3>2
  <2>. QED  BY <2>2, <2>3, <2>4 DEF Waits
<1>12. /\ probe' \in [state : {"none", "idle", "busy"}, end : Endpoint \cup {NoEnd}]
       /\ (probe'.state = "busy" <=> probe'.end # NoEnd) /\ probe'.end = probe.end
  <2>1. CASE probe.state = "none" /\ queued \cup begun # {}
    <3>1. probe' = [probe EXCEPT !.state = "idle"]  BY <1>1, <2>1 DEF Spawned
    <3>. QED  BY <1>2, <2>1, <3>1
  <2>2. CASE ~(probe.state = "none" /\ queued \cup begun # {})
    <3>1. probe' = probe  BY <1>1, <2>2 DEF Spawned
    <3>. QED  BY <1>2, <3>1
  <2>. QED  BY <2>1, <2>2
<1>13. \A e : Mailed(mail', e) <=> Mailed(mail, e)  BY <1>1
<1>14. OnePlace(queued', probe'.end, wait', mail')
  <2>1. \A e \in begun : e \in Endpoint /\ wait[e] = {}  BY <1>4, <1>6
  <2>2. \A e \in begun : e \notin queued /\ probe.end # e /\ ~Mailed(mail, e)  BY <2>1, <1>2 DEF OnePlace
  <2>3. \A e \in queued' : probe'.end # e /\ ~Mailed(mail', e)  BY <2>2, <1>1, <1>2, <1>12, <1>13 DEF OnePlace
  <2>4. ~Mailed(mail, probe.end)  BY <1>2 DEF OnePlace
  <2>5. \A i, j \in DOMAIN mail' : mail'[i] = mail'[j] => i = j  BY <1>1, <1>2 DEF OnePlace
  <2>6. ASSUME NEW e \in Endpoint  PROVE wait'[e] # {} <=> e \in queued' \/ probe'.end = e \/ Mailed(mail', e)
    <3>1. wait[e] # {} <=> e \in queued \/ probe.end = e \/ Mailed(mail, e)  BY <1>2 DEF OnePlace
    <3>2. wait'[e] # {} <=> wait[e] # {} \/ e \in ends  BY <1>5, <1>7
    <3>3. e \in queued' <=> e \in queued \/ (e \in ends /\ wait[e] = {})  BY <1>1, <1>6
    <3>. QED  BY <3>1, <3>2, <3>3, <1>12, <1>13
  <2>7. ~Mailed(mail', probe'.end)  BY <2>4, <1>1, <1>12
  <2>. QED  BY <2>3, <2>5, <2>6, <2>7 DEF OnePlace
<1>15. round'.pending # {}  BY <1>1, <1>8
<1>16. UNCHANGED <<rows, pause, mail, shut, known>> /\ queued' \subseteq Endpoint  BY <1>1, <1>2, <1>4
<1>. QED  BY <1>8, <1>10, <1>11, <1>12, <1>14, <1>15, <1>16 DEF PingInv

LEMMA ToldOk ==
  ASSUME NEW r \in RoundRec, r.total = r.done + Cardinality(r.pending), r.shown
  PROVE  /\ Told(r) \in RoundRec /\ Told(r).pending = r.pending
         /\ Told(r).total = Told(r).done + Cardinality(Told(r).pending)
         /\ (Told(r).shown <=> Told(r).pending # {})
<1>1. CASE r.pending = {}
  <2>1. Told(r) = [pending |-> {}, done |-> 0, total |-> 0, shown |-> FALSE]  BY <1>1 DEF Told
  <2>2. /\ Told(r) \in RoundRec /\ Told(r).pending = {} /\ Told(r).total = 0 /\ Told(r).done = 0
               /\ ~Told(r).shown
    BY <2>1 DEF RoundRec
  <2>3. Cardinality(Told(r).pending) = 0  BY <2>2, FS_EmptySet
  <2>4. Told(r).total = Told(r).done + Cardinality(Told(r).pending)  BY <2>2, <2>3
  <2>. QED  BY <1>1, <2>2, <2>4
<1>2. CASE r.pending # {}
  <2>1. Told(r) = r  BY <1>2 DEF Told
  <2>. QED  BY <1>2, <2>1
<1>. QED  BY <1>1, <1>2

(* Rows leave a round: dropped from the total, or counted as done.           *)
LEMMA RowsLeave ==
  ASSUME NEW gone \in SUBSET round.pending, round \in RoundRec,
             round.total = round.done + Cardinality(round.pending)
  PROVE  /\ Cardinality(gone) \in Nat
         /\ round.total - Cardinality(gone) \in Nat
         /\ round.total - Cardinality(gone) = round.done + Cardinality(round.pending \ gone)
         /\ round.total = (round.done + Cardinality(gone)) + Cardinality(round.pending \ gone)
<1> DEFINE kept == round.pending \ gone
<1>1. gone \in SUBSET Row /\ kept \in SUBSET Row /\ round.done \in Nat /\ round.total \in Nat  BY DEF RoundRec
<1>2. gone \cup kept = round.pending /\ gone \cap kept = {}  OBVIOUS
<1> HIDE DEF kept
<1>3. /\ IsFiniteSet(gone) /\ IsFiniteSet(kept) /\ Cardinality(gone) \in Nat /\ Cardinality(kept) \in Nat
  BY <1>1, RowsFinite
<1>4. Cardinality(gone \cup kept) = Cardinality(gone) + Cardinality(kept) - Cardinality(gone \cap kept)
  BY <1>3, FS_Union
<1>5. Cardinality(gone \cap kept) = 0  BY <1>2, FS_EmptySet
<1>6. \A a, b, c, d, t \in Nat : c = a + b - 0 /\ t = d + c => t - a \in Nat /\ t - a = d + b /\ t = (d + a) + b
  OBVIOUS
<1>7. Cardinality(round.pending) = Cardinality(gone) + Cardinality(kept) - 0  BY <1>2, <1>4, <1>5
<1>8. Cardinality(round.pending) \in Nat  BY <1>3, <1>7
<1>9. /\ round.total - Cardinality(gone) \in Nat
      /\ round.total - Cardinality(gone) = round.done + Cardinality(kept)
      /\ round.total = (round.done + Cardinality(gone)) + Cardinality(kept)
  BY <1>1, <1>3, <1>6, <1>7, <1>8
<1>. QED  BY <1>3, <1>9 DEF kept

LEMMA PingTypes ==
  ASSUME PingInv
  PROVE  /\ rows \in [Row -> Endpoint \cup {NoEnd}] /\ round \in RoundRec
         /\ round.total = round.done + Cardinality(round.pending)
         /\ wait \in [Endpoint -> SUBSET Row] /\ (\A e \in Endpoint : wait[e] \subseteq round.pending)
         /\ (\A e, f \in Endpoint, r \in Row : r \in wait[e] /\ r \in wait[f] => e = f)
         /\ queued \subseteq Endpoint
         /\ probe \in [state : {"none", "idle", "busy"}, end : Endpoint \cup {NoEnd}]
         /\ (probe.state = "busy" <=> probe.end # NoEnd) /\ pause \in BOOLEAN /\ shut \in BOOLEAN
         /\ mail \in Seq(Endpoint) /\ known \in [Row -> Endpoint \cup {NoEnd}]
         /\ (~shut => OnePlace(queued, probe.end, wait, mail))
BY DEF PingInv, Waits

LEMMA CancelInv == ASSUME PingInv, Cancel PROVE PingInv'
<1> DEFINE gone == UNION {wait[e] : e \in queued}
           less == [round EXCEPT !.pending = @ \ gone, !.total = @ - Cardinality(gone)]
<1>1. /\ round.shown /\ ~shut /\ queued' = {} /\ pause' = FALSE
      /\ wait' = [e \in Endpoint |-> IF e \in Kept THEN wait[e] ELSE {}]
      /\ round' = IF gone = {} THEN round ELSE Told(less)
      /\ UNCHANGED <<rows, probe, mail, shut, known>>
  BY DEF Cancel, Dropped
<1>2. gone \subseteq round.pending  BY PingTypes
<1>3. \A e \in queued : wait[e] \subseteq gone  OBVIOUS
<1>4. \A r \in gone : \E e \in queued : r \in wait[e]  OBVIOUS
<1>5. round \in RoundRec /\ round.total = round.done + Cardinality(round.pending)  BY PingTypes
<1> HIDE DEF gone
<1>6. /\ less \in RoundRec /\ less.pending = round.pending \ gone /\ less.done = round.done
             /\ less.shown = round.shown
      /\ less.total = round.total - Cardinality(gone)
  <2>1. round.total - Cardinality(gone) \in Nat  BY <1>2, <1>5, RowsLeave
  <2>. QED  BY <2>1, <1>5 DEF RoundRec
<1>7. less.total = less.done + Cardinality(less.pending)  BY <1>2, <1>5, <1>6, RowsLeave
<1> HIDE DEF less
<1>8. /\ round' \in RoundRec /\ round'.total = round'.done + Cardinality(round'.pending)
      /\ round'.pending = round.pending \ gone /\ (round'.shown <=> round'.pending # {})
  <2>1. CASE gone = {}
    <3>1. round' = round  BY <1>1, <2>1
    <3>2. round.shown <=> round.pending # {}  BY <1>1 DEF PingInv
    <3>. QED  BY <2>1, <3>1, <3>2, <1>5
  <2>2. CASE gone # {}
    <3>1. round' = Told(less)  BY <1>1, <2>2
    <3>2. less.shown  BY <1>1, <1>6
    <3>. QED  BY <3>1, <3>2, <1>6, <1>7, ToldOk
  <2>. QED  BY <2>1, <2>2
<1>9. \A e \in Endpoint : wait'[e] = IF e \in queued THEN {} ELSE wait[e]  BY <1>1 DEF Kept
<1>10. Waits(wait', round'.pending)
  <2>1. wait' \in [Endpoint -> SUBSET Row]  BY <1>1, PingTypes
  <2>2. ASSUME NEW e \in Endpoint  PROVE wait'[e] \subseteq round'.pending
    <3>1. CASE e \in queued  BY <3>1, <1>9
    <3>2. CASE e \notin queued
      <4>1. wait'[e] = wait[e] /\ wait[e] \subseteq round.pending /\ wait[e] \subseteq Row
        BY <3>2, <1>9, PingTypes
      <4>2. ASSUME NEW r \in wait[e]  PROVE r \notin gone
        <5> SUFFICES ASSUME r \in gone  PROVE FALSE  OBVIOUS
        <5>1. PICK f \in queued : r \in wait[f]  BY <1>4
        <5>. QED  BY <5>1, <4>1, <4>2, <3>2, PingTypes
      <4>. QED  BY <4>1, <4>2, <1>8
    <3>. QED  BY <3>1, <3>2
  <2>3. ASSUME NEW e \in Endpoint, NEW f \in Endpoint, NEW r \in Row, r \in wait'[e],
            r \in wait'[f]  PROVE e = f
    <3>1. r \in wait[e] /\ r \in wait[f]  BY <2>3, <1>9
    <3>. QED  BY <3>1, PingTypes
  <2>. QED  BY <2>1, <2>2, <2>3 DEF Waits
<1>11. OnePlace(queued', probe'.end, wait', mail')
  <2>1. OnePlace(queued, probe.end, wait, mail)  BY <1>1 DEF PingInv
  <2>2. \A e \in Endpoint : wait'[e] # {} <=> probe.end = e \/ Mailed(mail, e)  BY <2>1, <1>9 DEF OnePlace
  <2>. QED  BY <2>1, <2>2, <1>1 DEF OnePlace
<1>12. /\ UNCHANGED <<rows, probe, mail, shut, known>> /\ queued' \subseteq Endpoint /\ pause' \in BOOLEAN
  BY <1>1
<1>. QED  BY <1>8, <1>10, <1>11, <1>12 DEF PingInv

LEMMA CloseInv == ASSUME PingInv, Close PROVE PingInv'
<1>1. /\ shut' = TRUE /\ queued' = {} /\ wait' = [e \in Endpoint |-> {}]
      /\ round' = [round EXCEPT !.pending = {}, !.done = 0, !.total = 0]
      /\ UNCHANGED <<rows, probe, pause, mail, known>>
  BY DEF Close
<1>2. round' \in RoundRec /\ round'.pending = {} /\ round'.done = 0 /\ round'.total = 0
  BY <1>1, PingTypes DEF RoundRec
<1>3. Cardinality(round'.pending) = 0  BY <1>2, FS_EmptySet
<1>4. round'.total = round'.done + Cardinality(round'.pending)  BY <1>2, <1>3
<1>5. Waits(wait', round'.pending)  BY <1>1 DEF Waits
<1>6. queued' \subseteq Endpoint /\ shut' \in BOOLEAN /\ shut'  BY <1>1
<1>. QED  BY <1>1, <1>2, <1>4, <1>5, <1>6 DEF PingInv

LEMMA EditRowInv == ASSUME PingInv, NEW r \in Row, NEW e \in Endpoint \cup {NoEnd}, EditRow(r, e) PROVE PingInv'
<1>1. rows' = [rows EXCEPT ![r] = e] /\ UNCHANGED <<round, wait, queued, probe, pause, mail, shut, known>>
  BY DEF EditRow
<1>2. rows' \in [Row -> Endpoint \cup {NoEnd}]  BY <1>1, PingTypes
<1>. QED  BY <1>1, <1>2 DEF PingInv

LEMMA ArriveInv == ASSUME PingInv, Arrive PROVE PingInv'
<1> DEFINE h == Head(mail)
           got == wait[h] \cap round.pending
           more == [round EXCEPT !.pending = @ \ got, !.done = @ + Cardinality(got)]
<1>1. /\ mail # <<>> /\ mail' = Tail(mail) /\ wait' = [wait EXCEPT ![h] = {}]
      /\ round' = IF got = {} THEN round ELSE Told(more)
      /\ known' = [r \in Row |-> IF r \in got /\ Written(r, h) THEN h ELSE known[r]]
      /\ UNCHANGED <<rows, queued, probe, pause, shut>>
  BY DEF Arrive, Counted
<1>2. /\ h \in Endpoint /\ mail' \in Seq(Endpoint) /\ h = mail[1] /\ 1 \in DOMAIN mail
      /\ \A i \in DOMAIN mail' : mail'[i] = mail[i + 1] /\ i + 1 \in DOMAIN mail /\ i + 1 # 1 /\ i \in Nat
  <2>1. mail \in Seq(Endpoint) /\ Len(mail) \in Nat \ {0} /\ DOMAIN mail = 1..Len(mail)  BY <1>1, PingTypes
  <2>. QED  BY <1>1, <2>1
<1>3. \A i \in DOMAIN mail : i # 1 => i - 1 \in DOMAIN mail' /\ mail'[i - 1] = mail[i]
  <2>1. mail \in Seq(Endpoint) /\ Len(mail) \in Nat \ {0} /\ DOMAIN mail = 1..Len(mail)  BY <1>1, PingTypes
  <2>2. DOMAIN mail' = 1..(Len(mail) - 1)  BY <1>1, <2>1
  <2>3. \A i \in DOMAIN mail : i # 1 => i - 1 \in DOMAIN mail'  BY <2>1, <2>2
  <2>4. \A i \in DOMAIN mail : (i - 1) + 1 = i  BY <2>1
  <2>. QED  BY <2>3, <2>4, <1>2
<1>4. round \in RoundRec /\ round.total = round.done + Cardinality(round.pending)
          /\ got \subseteq round.pending /\ got = wait[h]
  BY <1>2, PingTypes
<1> HIDE DEF h, got
<1>5. /\ more \in RoundRec /\ more.pending = round.pending \ got /\ more.total = round.total
             /\ more.shown = round.shown
      /\ more.done = round.done + Cardinality(got)
  <2>1. Cardinality(got) \in Nat  BY <1>4, RowsLeave
  <2>2. round.done + Cardinality(got) \in Nat  BY <2>1, <1>4 DEF RoundRec
  <2>. QED  BY <2>2, <1>4 DEF RoundRec
<1>6. more.total = more.done + Cardinality(more.pending)  BY <1>4, <1>5, RowsLeave
<1> HIDE DEF more
<1>7. /\ round' \in RoundRec /\ round'.total = round'.done + Cardinality(round'.pending)
      /\ round'.pending = round.pending \ got /\ (~shut' => (round'.shown <=> round'.pending # {}))
  <2>1. CASE got = {}
    <3>1. round' = round /\ shut' = shut  BY <1>1, <2>1
    <3>2. ~shut => (round.shown <=> round.pending # {})  BY DEF PingInv
    <3>. QED  BY <2>1, <3>1, <3>2, <1>4
  <2>2. CASE got # {}
    <3>1. round' = Told(more) /\ shut' = shut  BY <1>1, <2>2
    <3>2. CASE round.shown
      <4>1. more.shown  BY <3>2, <1>5
      <4>. QED  BY <3>1, <4>1, <1>5, <1>6, ToldOk
    <3>3. CASE ~round.shown
      <4>1. shut  BY <2>2, <3>3, <1>4 DEF PingInv
      <4>2. Told(more) = more \/ Told(more) = [pending |-> {}, done |-> 0, total |-> 0, shown |-> FALSE]
        BY DEF Told
      <4>3. CASE more.pending # {}
        <5>1. Told(more) = more  BY <4>3 DEF Told
        <5>. QED  BY <3>1, <4>1, <5>1, <1>5, <1>6
      <4>4. CASE more.pending = {}
        <5>1. Told(more) = [pending |-> {}, done |-> 0, total |-> 0, shown |-> FALSE]  BY <4>4 DEF Told
        <5>2. round' \in RoundRec /\ round'.pending = {} /\ round'.total = 0 /\ round'.done = 0
          BY <3>1, <5>1 DEF RoundRec
        <5>3. Cardinality(round'.pending) = 0  BY <5>2, FS_EmptySet
        <5>. QED  BY <3>1, <4>1, <4>4, <5>2, <5>3, <1>5
      <4>. QED  BY <4>3, <4>4
    <3>. QED  BY <3>2, <3>3
  <2>. QED  BY <2>1, <2>2
<1>8. wait' \in [Endpoint -> SUBSET Row] /\ wait'[h] = {} /\ \A e \in Endpoint \ {h} : wait'[e] = wait[e]
  BY <1>1, <1>2, PingTypes
<1>9. Waits(wait', round'.pending)
  <2>1. ASSUME NEW e \in Endpoint  PROVE wait'[e] \subseteq round'.pending
    <3>1. CASE e = h  BY <3>1, <1>8
    <3>2. CASE e # h
      <4>1. wait'[e] = wait[e] /\ wait[e] \subseteq round.pending /\ wait[e] \subseteq Row
        BY <3>2, <1>8, PingTypes
      <4>2. \A r \in wait[e] : r \notin got  BY <3>2, <4>1, <1>2, <1>4, PingTypes
      <4>. QED  BY <4>1, <4>2, <1>7
    <3>. QED  BY <3>1, <3>2
  <2>2. ASSUME NEW e \in Endpoint, NEW f \in Endpoint, NEW r \in Row, r \in wait'[e],
            r \in wait'[f]  PROVE e = f
    <3>1. e # h /\ f # h  BY <2>2, <1>8
    <3>2. r \in wait[e] /\ r \in wait[f]  BY <2>2, <3>1, <1>8
    <3>. QED  BY <3>2, PingTypes
  <2>. QED  BY <2>1, <2>2, <1>8 DEF Waits
<1>10. ~shut' => OnePlace(queued', probe'.end, wait', mail')
  <2> SUFFICES ASSUME ~shut'  PROVE OnePlace(queued', probe'.end, wait', mail')  OBVIOUS
  <2>1. OnePlace(queued, probe.end, wait, mail)  BY <1>1 DEF PingInv
  <2>2. /\ \A e \in queued : probe.end # e /\ ~Mailed(mail, e)
        /\ ~Mailed(mail, probe.end) /\ \A i, j \in DOMAIN mail : mail[i] = mail[j] => i = j
        /\ \A e \in Endpoint : wait[e] # {} <=> e \in queued \/ probe.end = e \/ Mailed(mail, e)
    BY <2>1 DEF OnePlace
  <2>3. Mailed(mail, h)  BY <1>2 DEF Mailed
  <2>4. ~Mailed(mail', h)
    <3> SUFFICES ASSUME NEW i \in DOMAIN mail', mail'[i] = h  PROVE FALSE  BY DEF Mailed
    <3>. QED  BY <1>2, <2>2
  <2>5. ASSUME NEW e, e # h  PROVE Mailed(mail', e) <=> Mailed(mail, e)
    <3>1. ASSUME NEW i \in DOMAIN mail', mail'[i] = e  PROVE Mailed(mail, e)  BY <3>1, <1>2 DEF Mailed
    <3>2. ASSUME NEW i \in DOMAIN mail, mail[i] = e  PROVE Mailed(mail', e)
      <4>1. i # 1  BY <3>2, <2>5, <1>2
      <4>. QED  BY <3>2, <4>1, <1>3 DEF Mailed
    <3>. QED  BY <3>1, <3>2 DEF Mailed
  <2>6. h \notin queued /\ probe.end # h  BY <2>2, <2>3
  <2>7. \A e \in queued : probe.end # e /\ ~Mailed(mail', e)  BY <2>2, <2>5, <2>6
  <2>8. ~Mailed(mail', probe.end)  BY <2>2, <2>5, <2>6
  <2>9. \A i, j \in DOMAIN mail' : mail'[i] = mail'[j] => i = j
    <3>1. \A i, j \in DOMAIN mail' : mail'[i] = mail'[j] => i + 1 = j + 1 /\ i \in Nat /\ j \in Nat
      BY <1>2, <2>2
    <3>2. \A i, j \in Nat : i + 1 = j + 1 => i = j  OBVIOUS
    <3>. QED  BY <3>1, <3>2
  <2>10. ASSUME NEW e \in Endpoint  PROVE wait'[e] # {} <=> e \in queued \/ probe.end = e \/ Mailed(mail', e)
    <3>1. CASE e = h  BY <3>1, <1>8, <2>4, <2>6
    <3>2. CASE e # h  BY <3>2, <1>8, <2>2, <2>5
    <3>. QED  BY <3>1, <3>2
  <2>. QED  BY <1>1, <2>7, <2>8, <2>9, <2>10 DEF OnePlace
<1>11. known' \in [Row -> Endpoint \cup {NoEnd}]
  <2>1. \A r \in Row : known[r] \in Endpoint \cup {NoEnd}  BY PingTypes
  <2>. QED  BY <1>1, <1>2, <2>1
<1>12. UNCHANGED <<rows, queued, probe, pause, shut>>  BY <1>1
<1>. QED  BY <1>2, <1>7, <1>9, <1>10, <1>11, <1>12 DEF PingInv

LEMMA ConnectInv == ASSUME PingInv, NEW e \in Endpoint, Connect(e) PROVE PingInv'
<1>1. /\ probe.state = "idle" /\ e \in queued /\ ~shut
      /\ queued' = queued \ {e} /\ probe' = [state |-> "busy", end |-> e]
      /\ UNCHANGED <<rows, round, wait, pause, mail, shut, known>>
  BY DEF Connect
<1>2. probe'.state = "busy" /\ probe'.end = e
          /\ probe' \in [state : {"none", "idle", "busy"}, end : Endpoint \cup {NoEnd}]
  BY <1>1
<1>3. e # NoEnd  BY PingAssumption
<1>4. probe.end = NoEnd  BY <1>1, PingTypes
<1>5. /\ \A f \in queued : probe.end # f /\ ~Mailed(mail, f)
      /\ \A i, j \in DOMAIN mail : mail[i] = mail[j] => i = j
      /\ \A f \in Endpoint : wait[f] # {} <=> f \in queued \/ probe.end = f \/ Mailed(mail, f)
  BY <1>1 DEF PingInv, OnePlace
<1>6. \A f \in Endpoint : f \in queued \/ probe.end = f <=> f \in queued' \/ probe'.end = f
  BY <1>1, <1>2, <1>4, PingAssumption
<1>7. \A f \in queued' : probe'.end # f /\ ~Mailed(mail, f)  BY <1>1, <1>2, <1>5
<1>8. ~Mailed(mail, probe'.end)  BY <1>1, <1>2, <1>5
<1>9. OnePlace(queued', probe'.end, wait', mail')  BY <1>1, <1>5, <1>6, <1>7, <1>8 DEF OnePlace
<1>10. queued' \subseteq Endpoint  BY <1>1, PingTypes
<1>. QED  BY <1>1, <1>2, <1>3, <1>9, <1>10 DEF PingInv

LEMMA MeasureInv == ASSUME PingInv, Measure PROVE PingInv'
<1> DEFINE e == probe.end
<1>1. /\ probe.state = "busy" /\ probe' = [state |-> "idle", end |-> NoEnd] /\ pause' = (queued # {})
      /\ mail' = IF shut THEN mail ELSE Append(mail, e)
      /\ UNCHANGED <<rows, round, wait, queued, shut, known>>
  BY DEF Measure
<1>2. probe'.state = "idle" /\ probe'.end = NoEnd
          /\ probe' \in [state : {"none", "idle", "busy"}, end : Endpoint \cup {NoEnd}]
  BY <1>1
<1>3. e \in Endpoint /\ mail \in Seq(Endpoint)  BY <1>1, PingTypes
<1> HIDE DEF e
<1>4. mail' \in Seq(Endpoint)
  <2>1. CASE shut  BY <2>1, <1>1, <1>3
  <2>2. CASE ~shut
    <3>1. mail' = Append(mail, e)  BY <2>2, <1>1
    <3>. QED  BY <3>1, <1>3
  <2>. QED  BY <2>1, <2>2
<1>5. pause' \in BOOLEAN  BY <1>1
<1>6. ~shut' => OnePlace(queued', probe'.end, wait', mail')
  <2> SUFFICES ASSUME ~shut'  PROVE OnePlace(queued', probe'.end, wait', mail')  OBVIOUS
  <2>1. ~shut /\ mail' = Append(mail, e)  BY <1>1
  <2>2. OnePlace(queued, e, wait, mail)  BY <2>1 DEF PingInv, e
  <2>3. /\ \A f \in queued : e # f /\ ~Mailed(mail, f)
        /\ ~Mailed(mail, e) /\ \A i, j \in DOMAIN mail : mail[i] = mail[j] => i = j
        /\ \A f \in Endpoint : wait[f] # {} <=> f \in queued \/ e = f \/ Mailed(mail, f)
    BY <2>2 DEF OnePlace
  <2> DEFINE n == Len(mail)
  <2>4. /\ n \in Nat /\ DOMAIN mail = 1..n /\ DOMAIN mail' = 1..(n + 1) /\ mail'[n + 1] = e
        /\ \A i \in 1..n : mail'[i] = mail[i]
    BY <2>1, <1>3
  <2>5. \A i \in DOMAIN mail' : i = n + 1 \/ i \in DOMAIN mail  BY <2>4
  <2>6. n + 1 \in DOMAIN mail' /\ DOMAIN mail \subseteq DOMAIN mail'
            /\ \A i \in DOMAIN mail : mail'[i] = mail[i]
    BY <2>4
  <2>7. mail'[n + 1] = e  BY <2>4
  <2> HIDE DEF n
  <2>8. \A f : Mailed(mail', f) <=> Mailed(mail, f) \/ f = e
    <3> SUFFICES ASSUME NEW f  PROVE Mailed(mail', f) <=> Mailed(mail, f) \/ f = e  OBVIOUS
    <3>1. Mailed(mail, f) => Mailed(mail', f)  BY <2>6 DEF Mailed
    <3>2. f = e => Mailed(mail', f)  BY <2>6, <2>7 DEF Mailed
    <3>3. ASSUME NEW i \in DOMAIN mail', mail'[i] = f  PROVE Mailed(mail, f) \/ f = e
      BY <2>5, <2>6, <2>7, <3>3 DEF Mailed
    <3>. QED  BY <3>1, <3>2, <3>3 DEF Mailed
  <2>9. \A i, j \in DOMAIN mail' : mail'[i] = mail'[j] => i = j
    <3>1. \A i \in DOMAIN mail : mail[i] # e  BY <2>3 DEF Mailed
    <3>. QED  BY <2>3, <2>5, <2>6, <2>7, <3>1
  <2>10. \A f \in queued : NoEnd # f /\ ~Mailed(mail', f)  BY <2>3, <2>8, PingTypes, PingAssumption
  <2>11. ~Mailed(mail', NoEnd)
    <3>1. \A i \in DOMAIN mail' : mail'[i] \in Endpoint  BY <1>4
    <3>. QED  BY <3>1, PingAssumption DEF Mailed
  <2>12. \A f \in Endpoint : wait[f] # {} <=> f \in queued \/ NoEnd = f \/ Mailed(mail', f)
    BY <2>3, <2>8, PingAssumption
  <2>. QED  BY <1>1, <1>2, <2>9, <2>10, <2>11, <2>12 DEF OnePlace
<1>. QED  BY <1>1, <1>2, <1>4, <1>5, <1>6 DEF PingInv

LEMMA LeavesInv == ASSUME PingInv, ThreadLeaves PROVE PingInv'
<1>1. /\ probe.state = "idle" /\ probe' = [state |-> "none", end |-> NoEnd]
      /\ UNCHANGED <<rows, round, wait, queued, pause, mail, shut, known>>
  BY DEF ThreadLeaves
<1>2. probe.end = NoEnd  BY <1>1, PingTypes
<1>3. probe'.state = "none" /\ probe'.end = NoEnd
          /\ probe' \in [state : {"none", "idle", "busy"}, end : Endpoint \cup {NoEnd}]
  BY <1>1
<1>. QED  BY <1>1, <1>2, <1>3 DEF PingInv

LEMMA PingStep == PingInv /\ [PingNext]_pingVars => PingInv'
<1> SUFFICES ASSUME PingInv, [PingNext]_pingVars  PROVE PingInv'  OBVIOUS
<1>1. CASE \E S \in SUBSET Row : Request(S)  BY <1>1, RequestInv
<1>2. CASE Cancel  BY <1>2, CancelInv
<1>3. CASE Close  BY <1>3, CloseInv
<1>4. CASE Arrive  BY <1>4, ArriveInv
<1>5. CASE \E r \in Row, e \in Endpoint \cup {NoEnd} : EditRow(r, e)  BY <1>5, EditRowInv
<1>6. CASE \E e \in Endpoint : Connect(e)  BY <1>6, ConnectInv
<1>7. CASE PauseEnds
  <2>1. pause' = FALSE /\ UNCHANGED <<rows, round, wait, queued, probe, mail, shut, known>>
    BY <1>7 DEF PauseEnds
  <2>2. pause' \in BOOLEAN  BY <2>1
  <2>. QED  BY <2>1, <2>2 DEF PingInv
<1>8. CASE Measure  BY <1>8, MeasureInv
<1>9. CASE ThreadLeaves  BY <1>9, LeavesInv
<1>10. CASE UNCHANGED pingVars
  <2>1. UNCHANGED <<rows, round, wait, queued, probe, pause, mail, shut, known>>  BY <1>10 DEF pingVars
  <2>. QED  BY <2>1 DEF PingInv
<1>. QED  BY <1>1, <1>2, <1>3, <1>4, <1>5, <1>6, <1>7, <1>8, <1>9, <1>10 DEF PingNext

(* What the invariant says of the places of an endpoint, counted.            *)
LEMMA OneIsCounted == PingInv => NoTwin
<1> SUFFICES ASSUME PingInv, NEW e \in Endpoint, ~shut
             PROVE  LET places == (IF e \in queued THEN 1 ELSE 0) + (IF probe.end = e THEN 1 ELSE 0)
                                  + Cardinality({i \in 1..Len(mail) : mail[i] = e}) IN
                    /\ places <= 1
                    /\ wait[e] # {} <=> places = 1
  BY DEF NoTwin
<1> DEFINE at == {i \in 1..Len(mail) : mail[i] = e}
           inQueue == IF e \in queued THEN 1 ELSE 0
           inHand == IF probe.end = e THEN 1 ELSE 0
<1>1. /\ \A f \in queued : probe.end # f /\ ~Mailed(mail, f)
      /\ ~Mailed(mail, probe.end) /\ \A i, j \in DOMAIN mail : mail[i] = mail[j] => i = j
      /\ \A f \in Endpoint : wait[f] # {} <=> f \in queued \/ probe.end = f \/ Mailed(mail, f)
  BY DEF PingInv, OnePlace
<1>2. DOMAIN mail = 1..Len(mail)  BY PingTypes
<1>3. CASE Mailed(mail, e)
  <2>1. PICK i \in DOMAIN mail : mail[i] = e  BY <1>3 DEF Mailed
  <2>2. at = {i}  BY <2>1, <1>1, <1>2
  <2>3. Cardinality(at) = 1  BY <2>2, FS_Singleton
  <2>4. inQueue = 0 /\ inHand = 0 /\ wait[e] # {}  BY <1>1, <1>3
  <2> HIDE DEF at, inQueue, inHand
  <2>5. inQueue + inHand + Cardinality(at) <= 1 /\ (wait[e] # {} <=> inQueue + inHand + Cardinality(at) = 1)
    BY <2>3, <2>4
  <2>. QED  BY <2>5 DEF at, inQueue, inHand
<1>4. CASE ~Mailed(mail, e)
  <2>1. at = {}  BY <1>4, <1>2 DEF Mailed
  <2>2. Cardinality(at) = 0  BY <2>1, FS_EmptySet
  <2>3. \/ inQueue = 1 /\ inHand = 0 /\ wait[e] # {}
        \/ inQueue = 0 /\ inHand = 1 /\ wait[e] # {}
        \/ inQueue = 0 /\ inHand = 0 /\ wait[e] = {}
    BY <1>1, <1>4
  <2> HIDE DEF at, inQueue, inHand
  <2>4. inQueue + inHand + Cardinality(at) <= 1 /\ (wait[e] # {} <=> inQueue + inHand + Cardinality(at) = 1)
    BY <2>2, <2>3
  <2>. QED  BY <2>4 DEF at, inQueue, inHand
<1>. QED  BY <1>3, <1>4

LEMMA PingsHold == PingInv => PingTypeOK /\ CountsAgree /\ ShownTrue /\ NoTwin
<1> SUFFICES ASSUME PingInv  PROVE PingTypeOK /\ CountsAgree /\ ShownTrue /\ NoTwin  OBVIOUS
<1>1. PingTypeOK  BY PingTypes DEF PingTypeOK, RoundRec
<1>2. CountsAgree  BY PingTypes DEF CountsAgree
<1>3. ShownTrue  BY DEF PingInv, ShownTrue
<1>. QED  BY <1>1, <1>2, <1>3, OneIsCounted

(* What is written into a row was measured for the address it has.           *)
LEMMA WrittenHere ==
  [PingNext]_pingVars => [\A r \in Row : known'[r] # known[r] => rows[r] # NoEnd
      /\ Address[known'[r]] = Address[rows[r]]]_pingVars
<1> SUFFICES ASSUME [PingNext]_pingVars, NEW r \in Row, known'[r] # known[r]
             PROVE  rows[r] # NoEnd /\ Address[known'[r]] = Address[rows[r]]
  OBVIOUS
<1>1. ASSUME Arrive  PROVE rows[r] # NoEnd /\ Address[known'[r]] = Address[rows[r]]
  <2> DEFINE got == wait[Head(mail)] \cap round.pending
  <2>1. known'[r] = IF r \in got /\ Written(r, Head(mail)) THEN Head(mail) ELSE known[r]  BY <1>1 DEF Arrive
  <2> HIDE DEF got
  <2>2. known'[r] = Head(mail) /\ Written(r, Head(mail))  BY <2>1
  <2>. QED  BY <2>2 DEF Written
<1>2. known' # known  OBVIOUS
<1>3. Arrive
  <2>1. ~\E S \in SUBSET Row : Request(S)  BY <1>2 DEF Request
  <2>2. ~Cancel /\ ~Close /\ ~PauseEnds /\ ~Measure /\ ~ThreadLeaves
    BY <1>2 DEF Cancel, Close, PauseEnds, Measure, ThreadLeaves
  <2>3. ~\E q \in Row, e \in Endpoint \cup {NoEnd} : EditRow(q, e)  BY <1>2 DEF EditRow
  <2>4. ~\E e \in Endpoint : Connect(e)  BY <1>2 DEF Connect
  <2>5. ~UNCHANGED pingVars  BY <1>2 DEF pingVars
  <2>. QED  BY <2>1, <2>2, <2>3, <2>4, <2>5 DEF PingNext
<1>. QED  BY <1>1, <1>3

-----------------------------------------------------------------------------
(* Side by side: whatever moves, each component takes a step of its own or   *)
(* none.                                                                     *)
LEMMA ServersInits == ServersInit => SubsInv /\ FetchInv /\ MatchInv /\ PingInv
BY SubsInitInv, FetchInitInv, MatchInitInv, PingInitInv DEF ServersInit

LEMMA ServersMoves ==
  [ServersNext]_serversVars =>
    [SubsNext]_subsVars /\ [FetchNext]_fetchVars /\ [MatchNext]_matchVars /\ [PingNext]_pingVars
<1>1. ASSUME UNCHANGED serversVars  PROVE UNCHANGED <<subsVars, fetchVars, matchVars, pingVars>>
  BY <1>1 DEF serversVars
<1>. QED  BY <1>1 DEF ServersNext

(* The subscriptions (subscription_service.py): the list has what a tag      *)
(* stands for but for what was hidden, nothing hidden by its name comes      *)
(* back, and a session on a server that is gone or replaced is being ended,  *)
(* whatever is edited, hidden or removed while a worker holds its copy.      *)
THEOREM SubscriptionsAreSafe == ServersSpec => []SubsSafe
<1>1. ServersInit => SubsInv  BY ServersInits
<1>2. SubsInv /\ [ServersNext]_serversVars => SubsInv'  BY SubsStep, ServersMoves
<1>. QED  BY <1>1, <1>2, SubsHold, PTL DEF ServersSpec

(* The list of servers (subscription_http.py, subscription_service.py,       *)
(* ping_service.py): a download is given up for the right reason, every      *)
(* server of an update finds its own place in the list, and a row shows the  *)
(* ping of the address it has.                                               *)
THEOREM ListIsTrue == ServersSpec => ListTrue
<1>1. ServersInit => FetchInv /\ MatchInv /\ PingInv  BY ServersInits
<1>2. FetchInv /\ MatchInv /\ PingInv /\ [ServersNext]_serversVars => FetchInv' /\ MatchInv' /\ PingInv'
  BY FetchStep, MatchStep, PingStep, ServersMoves
<1>3. ServersSpec => [](FetchInv /\ MatchInv /\ PingInv)  BY <1>1, <1>2, PTL DEF ServersSpec
<1>4. FetchInv /\ MatchInv /\ PingInv => FetchTypeOK /\ MatchSafe /\ PingTypeOK /\ CountsAgree
          /\ ShownTrue /\ NoTwin
  BY FetchTyped, PingsHold DEF MatchInv, MatchTyped, MatchSafe, OnceEach
<1>5. FetchInv /\ [ServersNext]_serversVars =>
        [Over("refused") => \/ "direct" \notin racing \/ elapsed >= expires
                            \/ results # <<>> /\ Head(results).of = "direct"]_fetchVars
  BY FetchMoves, ServersMoves
<1>6. FetchInv /\ [ServersNext]_serversVars =>
        [/\ \A v \in {"unreachable", "untried"} : Over(v) => (rest = <<>> /\ ~held) \/ elapsed >= Deadline
         /\ Over("untried") => "proxy" \notin racing /\ ask.mode = "auto"]_fetchVars
  BY FetchMoves, ServersMoves
<1>7. [ServersNext]_serversVars =>
        [\A r \in Row : known'[r] # known[r] => rows[r] # NoEnd
            /\ Address[known'[r]] = Address[rows[r]]]_pingVars
  BY WrittenHere, ServersMoves
<1>8. ServersSpec => FetchFair
  BY <1>3, <1>4, <1>5, <1>6, PTL DEF ServersSpec, FetchFair, DirectOutranks, AllRoutesTried
<1>9. ServersSpec => PingSafe  BY <1>3, <1>4, <1>7, PTL DEF ServersSpec, PingSafe, ShownHere
<1>10. ServersSpec => []MatchSafe  BY <1>3, <1>4, PTL
<1>. QED  BY <1>8, <1>9, <1>10 DEF ListTrue
=============================================================================
