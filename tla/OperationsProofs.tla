-------------------------- MODULE OperationsProofs --------------------------
(***************************************************************************)
(* Proofs about what the daemon runs beside plain fetches.  First, what    *)
(* the orders and parts of Ordered are.  Then Operations: maps, for any    *)
(* number of them, of sources in any order, whatever is found and kept;    *)
(* and answers, extracts and searches, for any chain of providers, any     *)
(* page and any rows; neither changes anything of the other.  Last the     *)
(* content adapters, a machine of their own (AdapterSpec): for any number  *)
(* of fetches, any pages and any order of the answers.                     *)
(***************************************************************************)
EXTENDS Operations, Adapters, FiniteSetTheorems, TLAPS

-----------------------------------------------------------------------------
(***************************************************************************)
(* Parts of a list, in an order (Ordered).                                 *)
(***************************************************************************)
Orders(R, P) ==
  /\ \A i \in P : <<i, i>> \notin R
  /\ \A i, j, k \in P : <<i, j>> \in R /\ <<j, k>> \in R => <<i, k>> \in R
  /\ \A i, j \in P : i # j => <<i, j>> \in R \/ <<j, i>> \in R

Below(R, P, i) == {j \in P : <<j, i>> \in R}

(* A place has as many before it as its rank tells, so that the places in  *)
(* order are a function of the ranks onto them.                            *)
LEMMA Ranks ==
  ASSUME NEW P, IsFiniteSet(P), NEW R, Orders(R, P)
  PROVE  \E order \in [1..Cardinality(P) -> P] :
           /\ \A n \in 1..Cardinality(P), i \in P :
                Cardinality(Below(R, P, i)) = n - 1 <=> i = order[n]
           /\ \A i \in P : \E n \in 1..Cardinality(P) : order[n] = i
           /\ \A m, n \in 1..Cardinality(P) : m < n <=> <<order[m], order[n]>> \in R
<1> DEFINE N == Cardinality(P)
           B(i) == Below(R, P, i)
           rank == [i \in P |-> Cardinality(B(i)) + 1]
<1>1. N \in Nat
  BY FS_CardinalityType
<1>2. ASSUME NEW i \in P
      PROVE  IsFiniteSet(B(i)) /\ Cardinality(B(i)) \in Nat /\ Cardinality(B(i)) < N
  <2>1. B(i) \in SUBSET P /\ B(i) # P
    BY DEF Below, Orders
  <2> QED BY <2>1, FS_Subset, FS_CardinalityType
<1>3. ASSUME NEW i \in P, NEW j \in P, <<i, j>> \in R PROVE rank[i] < rank[j]
  <2>1. B(i) \in SUBSET B(j) /\ i \in B(j) /\ i \notin B(i)
    BY <1>3 DEF Below, Orders
  <2>2. Cardinality(B(i)) <= Cardinality(B(j)) /\ Cardinality(B(i)) # Cardinality(B(j))
    <3>1. Cardinality(B(i)) <= Cardinality(B(j)) /\ (Cardinality(B(j)) = Cardinality(B(i)) => B(j) = B(i))
      BY <1>2, <2>1, FS_Subset
    <3> QED BY <2>1, <3>1
  <2> QED BY <1>2, <2>2
<1>4. rank \in [P -> 1..N]
  BY <1>1, <1>2
<1>5. \A i, j \in P : rank[i] = rank[j] => i = j
  <2> SUFFICES ASSUME NEW i \in P, NEW j \in P, i # j PROVE rank[i] # rank[j]
    OBVIOUS
  <2>1. rank[i] \in Nat /\ rank[j] \in Nat
    BY <1>4
  <2>2. <<i, j>> \in R \/ <<j, i>> \in R
    BY DEF Orders
  <2> QED BY <1>3, <2>1, <2>2
<1>6. rank \in Surjection(P, 1..N)
  <2>1. rank \in Injection(P, 1..N)
    BY <1>4, <1>5 DEF Injection, IsInjective
  <2>2. IsFiniteSet(1..N) /\ Cardinality(1..N) = Cardinality(P)
    BY <1>1, FS_Interval
  <2> QED BY <2>1, <2>2, FS_Injection
<1>7. \A n \in 1..N : \E i \in P : rank[i] = n
  BY <1>6 DEF Surjection
<1> DEFINE order == [n \in 1..N |-> CHOOSE i \in P : rank[i] = n]
<1>8. \A n \in 1..N : order[n] \in P /\ rank[order[n]] = n
  BY <1>7
<1>9. \A n \in 1..N, i \in P : Cardinality(B(i)) = n - 1 <=> i = order[n]
  <2> SUFFICES ASSUME NEW n \in 1..N, NEW i \in P
               PROVE  Cardinality(B(i)) = n - 1 <=> i = order[n]
    OBVIOUS
  <2>1. Cardinality(B(i)) = n - 1 <=> rank[i] = n
    BY <1>2
  <2> QED BY <1>5, <1>8, <2>1
<1>10. \A i \in P : \E n \in 1..N : order[n] = i
  BY <1>4, <1>5, <1>8
<1>11. \A m, n \in 1..N : m < n <=> <<order[m], order[n]>> \in R
  <2> SUFFICES ASSUME NEW m \in 1..N, NEW n \in 1..N
               PROVE  m < n <=> <<order[m], order[n]>> \in R
    OBVIOUS
  <2>1. order[m] \in P /\ order[n] \in P /\ rank[order[m]] = m /\ rank[order[n]] = n
    BY <1>8
  <2>2. <<order[m], order[n]>> \in R => m < n
    BY <1>3, <2>1
  <2>3. <<order[n], order[m]>> \in R => n < m
    BY <1>3, <2>1
  <2>4. order[m] = order[n] => m = n
    BY <2>1
  <2>5. order[m] # order[n] => <<order[m], order[n]>> \in R \/ <<order[n], order[m]>> \in R
    BY <2>1 DEF Orders
  <2> QED BY <2>1, <2>2, <2>3, <2>4, <2>5 DEF Orders
<1>12. order \in [1..N -> P]
  BY <1>8
<1> HIDE DEF order, rank, B
<1> QED BY <1>9, <1>10, <1>11, <1>12 DEF B

(* What Order returns: every place, once, the earlier ones first.          *)
LEMMA Ordering ==
  ASSUME NEW P, IsFiniteSet(P), NEW R, Orders(R, P)
  PROVE  /\ Cardinality(P) \in Nat
         /\ Order(P, R) \in [1..Cardinality(P) -> P]
         /\ \A i \in P : \E n \in 1..Cardinality(P) : Order(P, R)[n] = i
         /\ \A m, n \in 1..Cardinality(P) :
              m < n <=> <<Order(P, R)[m], Order(P, R)[n]>> \in R
<1>1. PICK order \in [1..Cardinality(P) -> P] :
        /\ \A n \in 1..Cardinality(P), i \in P :
             Cardinality(Below(R, P, i)) = n - 1 <=> i = order[n]
        /\ \A i \in P : \E n \in 1..Cardinality(P) : order[n] = i
        /\ \A m, n \in 1..Cardinality(P) : m < n <=> <<order[m], order[n]>> \in R
  BY Ranks
<1>2. ASSUME NEW n \in 1..Cardinality(P) PROVE Order(P, R)[n] = order[n]
  <2>1. \A i \in P : Cardinality({j \in P : <<j, i>> \in R}) = n - 1 <=> i = order[n]
    BY <1>1 DEF Below
  <2>2. (CHOOSE i \in P : Cardinality({j \in P : <<j, i>> \in R}) = n - 1) = order[n]
    BY <2>1
  <2> QED BY <2>2 DEF Order
<1>3. Order(P, R) = order
  BY <1>2 DEF Order
<1> QED BY <1>1, <1>3, FS_CardinalityType

(* Some of the first N numbers are at most N.                              *)
LEMMA Intervals ==
  ASSUME NEW N \in Nat, NEW P \in SUBSET (1..N)
  PROVE  IsFiniteSet(P) /\ Cardinality(P) \in Nat /\ Cardinality(P) <= N
<1>1. IsFiniteSet(1..N) /\ Cardinality(1..N) = N
  BY FS_Interval
<1>2. IsFiniteSet(P) /\ Cardinality(P) <= N
  BY <1>1, FS_Subset
<1> QED BY <1>2, FS_CardinalityType

(* One list has the entries of another one at some places, in the order R. *)
Arranges(entries, P, R, part) ==
  \E order \in [1..Cardinality(P) -> P] :
    /\ part = [n \in 1..Cardinality(P) |-> entries[order[n]]]
    /\ \A i \in P : \E n \in 1..Cardinality(P) : order[n] = i
    /\ \A m, n \in 1..Cardinality(P) : m < n <=> <<order[m], order[n]>> \in R

(* What InOrder and At return. *)
LEMMA InOrderArranges ==
  ASSUME NEW P, IsFiniteSet(P), NEW R, Orders(R, P), NEW entries
  PROVE  Arranges(entries, P, R, InOrder(entries, P, R))
<1>1. InOrder(entries, P, R) = [n \in 1..Cardinality(P) |-> entries[Order(P, R)[n]]]
  BY Ordering DEF InOrder
<1> QED BY <1>1, Ordering DEF Arranges

(* What At returns: the entries as they stand.                             *)
LEMMA AtPlaces ==
  ASSUME NEW N \in Nat, NEW P \in SUBSET (1..N), NEW entries
  PROVE  Arranges(entries, P, Upwards(P), At(entries, P))
<1>1. IsFiniteSet(P)
  BY Intervals
<1>2. \A i, j \in P : <<i, j>> \in Upwards(P) <=> i < j
  BY DEF Upwards
<1>3. Orders(Upwards(P), P)
  BY <1>2 DEF Orders
<1> QED BY <1>1, <1>3, InOrderArranges DEF At

(* Of some places there is a first one. *)
LEMMA FirstPlace ==
  ASSUME NEW N \in Nat, NEW P \in SUBSET (1..N), P # {}
  PROVE  \E i \in P : \A j \in P : i <= j
<1>1. IsFiniteSet(P) /\ Cardinality(P) \in Nat /\ P \subseteq Nat
  <2>1. IsFiniteSet(P) /\ Cardinality(P) \in Nat
    BY Intervals
  <2> QED BY <2>1
<1>2. Arranges(P, P, Upwards(P), At(P, P))
  BY AtPlaces
<1>3. PICK order \in [1..Cardinality(P) -> P] :
        /\ \A i \in P : \E n \in 1..Cardinality(P) : order[n] = i
        /\ \A m, n \in 1..Cardinality(P) : m < n <=> order[m] < order[n]
  BY <1>1, <1>2 DEF Arranges, Upwards
<1>4. PICK i \in P : TRUE
  OBVIOUS
<1>5. PICK k \in 1..Cardinality(P) : order[k] = i
  BY <1>3
<1>6. 1 \in 1..Cardinality(P)
  BY <1>1
<1>7. ASSUME NEW j \in P PROVE order[1] <= j
  <2>1. PICK n \in 1..Cardinality(P) : order[n] = j
    BY <1>3
  <2>2. n = 1 \/ order[1] < order[n]
    BY <1>1, <1>3, <1>6
  <2>3. order[1] \in Nat /\ j \in Nat
    BY <1>1, <1>6
  <2> QED BY <2>1, <2>2, <2>3
<1> QED BY <1>6, <1>7

(* A part of a list is a list: its entries are those at the places, and it *)
(* has as many of them as there are places.                                *)
Holds(entries, P, part) ==
  /\ IsFiniteSet(P) /\ Cardinality(P) \in Nat
  /\ Len(part) = Cardinality(P) /\ DOMAIN part = 1..Cardinality(P)
  /\ \A i \in P : \E n \in 1..Cardinality(P) : part[n] = entries[i]
  /\ \A n \in 1..Cardinality(P) : \E i \in P : part[n] = entries[i]
  /\ P # {} <=> part # <<>>
  /\ \A S : (\A i \in P : entries[i] \in S) => part \in Seq(S)

(* A list that is another one arranged has all its entries, and no others. *)
LEMMA Arranged ==
  ASSUME NEW P, IsFiniteSet(P), NEW entries, NEW R, NEW part, Arranges(entries, P, R, part)
  PROVE  Holds(entries, P, part)
<1> DEFINE C == Cardinality(P)
<1>1. C \in Nat
  BY FS_CardinalityType
<1>2. PICK order \in [1..C -> P] :
        /\ part = [n \in 1..C |-> entries[order[n]]]
        /\ \A i \in P : \E n \in 1..C : order[n] = i
  BY DEF Arranges
<1> HIDE DEF C
<1>3. ASSUME NEW S, \A i \in P : entries[i] \in S PROVE part \in Seq(S) /\ Len(part) = C
  <2>1. part \in [1..C -> S]
    BY <1>2, <1>3
  <2> QED BY <1>1, <2>1
<1>4. DOMAIN part = 1..C /\ Len(part) = C
  <2>1. part \in Seq({entries[i] : i \in P}) /\ Len(part) = C
    BY <1>3
  <2> QED BY <1>2, <2>1
<1>5. \A i \in P : \E n \in 1..C : part[n] = entries[i]
  BY <1>2
<1>6. \A n \in 1..C : \E i \in P : part[n] = entries[i]
  BY <1>2
<1>7. P # {} <=> part # <<>>
  <2>1. C = 0 <=> part = <<>>
    <3>1. part \in Seq({entries[i] : i \in P})
      BY <1>3
    <3> QED BY <1>1, <1>4, <3>1
  <2>2. C = 0 => P = {}
    BY <1>2
  <2>3. P = {} => C = 0
    BY FS_EmptySet DEF C
  <2> QED BY <2>1, <2>2, <2>3
<1> QED BY <1>1, <1>3, <1>4, <1>5, <1>6, <1>7 DEF C, Holds

(* What At, and so Only, keeps.                                            *)
LEMMA PartOf ==
  ASSUME NEW N \in Nat, NEW P \in SUBSET (1..N), NEW entries
  PROVE  Holds(entries, P, At(entries, P))
<1>1. IsFiniteSet(P)
  BY Intervals
<1>2. Arranges(entries, P, Upwards(P), At(entries, P))
  BY AtPlaces
<1> QED BY <1>1, <1>2, Arranged

-----------------------------------------------------------------------------
(***************************************************************************)
(* The maps.                                                               *)
(***************************************************************************)
Walk == [places : Nat, read : Nat, listed : Nat, guessed : Nat,
         found : SUBSET Urls, after : {"crawl", "notice", "end"}]
Files == [kind : Kinds \union {"none"}, of : Origins, fresh : BOOLEAN]
Records == [url : Urls \union {Outline}, source : Sources, body : Bodies]
UrlItems == [kind : {"url"}, url : Urls \union {Outline}, body : Bodies]
EndItems == [kind : {"notice", "end", "error"}]

(* The state of one map, typed. *)
MapTyped(m) ==
  /\ site[m] \in Sites
  /\ at[m] \in {"next", "reading", "done", "failed"}
  /\ turn[m] \in Nat \ {0}
  /\ pump[m] \in Pumps
  /\ walk[m] \in Walk
  /\ batch[m] \in SUBSET Urls
  /\ queue[m] \in Seq(Items)
  /\ seen[m] \in SUBSET (Urls \union {Outline})
  /\ out[m] \in SUBSET Records
  /\ notes[m] \in SUBSET Notes
  /\ late[m] \in BOOLEAN /\ capped[m] \in BOOLEAN

(* Each variable has an entry for every map. *)
Shape ==
  /\ site = [m \in Maps |-> site[m]] /\ at = [m \in Maps |-> at[m]]
  /\ turn = [m \in Maps |-> turn[m]] /\ pump = [m \in Maps |-> pump[m]]
  /\ walk = [m \in Maps |-> walk[m]] /\ batch = [m \in Maps |-> batch[m]]
  /\ queue = [m \in Maps |-> queue[m]] /\ seen = [m \in Maps |-> seen[m]]
  /\ out = [m \in Maps |-> out[m]] /\ notes = [m \in Maps |-> notes[m]]
  /\ late = [m \in Maps |-> late[m]] /\ capped = [m \in Maps |-> capped[m]]
  /\ file \in [Hosts -> Files]

(* What ends a stream is the last thing in its queue, and between two      *)
(* streams there is nothing in it.  A map that reads has a stream to read. *)
PipeInv(m) ==
  /\ \A i \in 1..Len(queue[m]) : queue[m][i].kind \in {"end", "error"} =>
       i = Len(queue[m]) /\ pump[m] = "over"
  /\ at[m] = "next" => queue[m] = <<>> /\ pump[m] \in {"off", "over"}
  /\ at[m] = "reading" => turn[m] <= Len(Streams(m))

(* What the map has merged. *)
MergeInv(m) ==
  /\ IsFiniteSet(out[m]) /\ Cardinality(out[m]) <= site[m].limit
  /\ \A r \in out[m] : r.url \in seen[m] \ site[m].exclude
  /\ \A r, s \in out[m] : r.url = s.url => r = s
  /\ "limit" \notin notes[m] => \A u \in seen[m] \ site[m].exclude : \E r \in out[m] : r.url = u

(* Sitemaps left unread are noted, or about to be. *)
Pending(m) ==
  \/ pump[m] = "emit" /\ walk[m].after = "notice"
  \/ \E i \in 1..Len(queue[m]) : queue[m][i].kind = "notice"
NoteInv(m) ==
  /\ capped[m] => notes[m] # {} \/ at[m] \in {"done", "failed"} \/ Pending(m)
  /\ at[m] = "done" /\ notes[m] = {} /\ Cardinality(out[m]) < site[m].limit =>
       turn[m] > Len(Streams(m)) /\ ~capped[m] /\ pump[m] \in {"off", "over"}

(* No page is handed over, and what is merged has passed the guard. *)
BodyInv(m) ==
  /\ \A i \in 1..Len(queue[m]) : queue[m][i].kind = "url" => queue[m][i].body.kind # "html"
  /\ \A r \in out[m] :
       r.body.kind # "html" /\ (site[m].screened => r.body.kind # "tainted")

Good(m) == MapTyped(m) /\ PipeInv(m) /\ MergeInv(m) /\ NoteInv(m) /\ BodyInv(m)
IInv == Shape /\ \A m \in Maps : Good(m)

-----------------------------------------------------------------------------
(* The frame: nothing of map n changes. *)
Same(n) ==
  /\ site'[n] = site[n] /\ at'[n] = at[n] /\ turn'[n] = turn[n] /\ pump'[n] = pump[n]
  /\ walk'[n] = walk[n] /\ batch'[n] = batch[n] /\ queue'[n] = queue[n] /\ seen'[n] = seen[n]
  /\ out'[n] = out[n] /\ notes'[n] = notes[n] /\ late'[n] = late[n] /\ capped'[n] = capped[n]

LEMMA SameIsGood ==
  ASSUME NEW n \in Maps, Good(n), Same(n) PROVE Good(n)'
<1>1. MapTyped(n)' BY DEF Good, Same, MapTyped
<1>2. PipeInv(n)' BY DEF Good, Same, PipeInv, Streams
<1>3. MergeInv(n)' BY DEF Good, Same, MergeInv
<1>4. NoteInv(n)' BY DEF Good, Same, NoteInv, Pending, Streams
<1>5. BodyInv(n)' BY DEF Good, Same, BodyInv
<1> QED BY <1>1, <1>2, <1>3, <1>4, <1>5 DEF Good

LEMMA Joined ==
  ASSUME NEW q \in Seq(Items), NEW s \in Seq(Items)
  PROVE  /\ q \o s \in Seq(Items) /\ Len(q) \in Nat /\ Len(s) \in Nat
         /\ Len(q \o s) = Len(q) + Len(s)
         /\ \A i \in 1..Len(q) : (q \o s)[i] = q[i]
         /\ \A i \in 1..Len(q \o s) :
              \/ i \in 1..Len(q) /\ (q \o s)[i] = q[i]
              \/ i - Len(q) \in 1..Len(s) /\ (q \o s)[i] = s[i - Len(q)]
OBVIOUS

(* A step of m's thread that puts the items of s. *)
Puts(m, s) ==
  /\ Shape' /\ \A n \in Maps \ {m} : Same(n)
  /\ site'[m] = site[m] /\ at'[m] = at[m] /\ turn'[m] = turn[m] /\ seen'[m] = seen[m]
  /\ out'[m] = out[m] /\ notes'[m] = notes[m] /\ late'[m] = late[m]
  /\ queue'[m] = queue[m] \o s

LEMMA PutsIsGood ==
  ASSUME NEW m \in Maps, NEW s \in Seq(Items), IInv, Puts(m, s),
         pump[m] \notin {"off", "over"}, pump'[m] \in Pumps, walk'[m] \in Walk,
         batch'[m] \in SUBSET Urls, capped'[m] \in BOOLEAN,
         \A i \in 1..Len(s) : s[i].kind \in {"end", "error"} => i = Len(s) /\ pump'[m] = "over",
         \A i \in 1..Len(s) : s[i].kind = "url" => s[i].body.kind # "html",
         capped'[m] => capped[m] \/ Pending(m)',
         pump[m] = "emit" /\ walk[m].after = "notice" => Pending(m)'
  PROVE  IInv'
<1>1. Good(m) /\ queue[m] \in Seq(Items)
  BY DEF IInv, Good, MapTyped
<1>2. queue'[m] = queue[m] \o s
  BY DEF Puts
<1>3. /\ queue'[m] \in Seq(Items) /\ Len(queue[m]) \in Nat /\ Len(s) \in Nat
      /\ Len(queue'[m]) = Len(queue[m]) + Len(s)
      /\ \A i \in 1..Len(queue[m]) : queue'[m][i] = queue[m][i]
      /\ \A i \in 1..Len(queue'[m]) :
           \/ i \in 1..Len(queue[m]) /\ queue'[m][i] = queue[m][i]
           \/ i - Len(queue[m]) \in 1..Len(s) /\ queue'[m][i] = s[i - Len(queue[m])]
  BY <1>1, <1>2, Joined
<1>4. \A i \in 1..Len(queue[m]) : queue[m][i].kind \notin {"end", "error"}
  BY <1>1 DEF Good, PipeInv
<1>5. MapTyped(m)'
  BY <1>1, <1>3 DEF Good, MapTyped, Puts
<1>6. PipeInv(m)'
  <2>1. at'[m] # "next" /\ (at'[m] = "reading" => turn'[m] <= Len(Streams(m)'))
    BY <1>1 DEF Good, PipeInv, Puts, Streams
  <2>2. \A i \in 1..Len(queue'[m]) : queue'[m][i].kind \in {"end", "error"} =>
          i = Len(queue'[m]) /\ pump'[m] = "over"
    <3> SUFFICES ASSUME NEW i \in 1..Len(queue'[m]), queue'[m][i].kind \in {"end", "error"}
                 PROVE  i = Len(queue'[m]) /\ pump'[m] = "over"
      OBVIOUS
    <3>1. i - Len(queue[m]) \in 1..Len(s) /\ queue'[m][i] = s[i - Len(queue[m])]
      BY <1>3, <1>4
    <3>2. i - Len(queue[m]) = Len(s) /\ pump'[m] = "over"
      BY <3>1
    <3> QED BY <1>3, <3>2
  <2> QED BY <2>1, <2>2 DEF PipeInv
<1>7. MergeInv(m)'
  BY <1>1 DEF Good, MergeInv, Puts
<1>8. NoteInv(m)'
  <2>1. Pending(m) => Pending(m)'
    <3>1. CASE pump[m] = "emit" /\ walk[m].after = "notice"
      BY <3>1
    <3>2. ASSUME NEW i \in 1..Len(queue[m]), queue[m][i].kind = "notice" PROVE Pending(m)'
      <4>1. i \in 1..Len(queue'[m]) /\ queue'[m][i].kind = "notice"
        BY <3>2, <1>3
      <4> QED BY <4>1 DEF Pending
    <3> QED BY <3>1, <3>2 DEF Pending
  <2> QED BY <1>1, <2>1 DEF Good, NoteInv, Puts, Streams
<1>9. BodyInv(m)'
  BY <1>1, <1>3 DEF Good, BodyInv, Puts
<1>10. \A n \in Maps : Good(n)'
  BY <1>5, <1>6, <1>7, <1>8, <1>9, SameIsGood DEF Good, Puts, IInv
<1> QED BY <1>10 DEF IInv, Puts

LEMMA Concats ==
  ASSUME NEW q \in Seq(Items), NEW e \in Items
  PROVE  /\ q = q \o <<>> /\ Append(q, e) = q \o <<e>>
         /\ <<>> \in Seq(Items) /\ <<e>> \in Seq(Items) /\ Len(<<>>) = 0
         /\ Len(<<e>>) = 1 /\ <<e>>[1] = e
OBVIOUS

LEMMA ItemsKnown ==
  /\ [kind |-> "end"] \in Items /\ [kind |-> "notice"] \in Items /\ [kind |-> "error"] \in Items
  /\ \A u \in Urls \union {Outline}, b \in Bodies : [kind |-> "url", url |-> u, body |-> b] \in Items
BY DEF Items

(* What the actions of a thread have in common. *)
LEMMA Typed ==
  ASSUME IInv, NEW m \in Maps
  PROVE  /\ Shape /\ site[m] \in Sites /\ pump[m] \in Pumps /\ walk[m] \in Walk
         /\ batch[m] \in SUBSET Urls /\ queue[m] \in Seq(Items) /\ capped[m] \in BOOLEAN
BY DEF IInv, Good, MapTyped

LEMMA PutUrlStep ==
  ASSUME IInv, NEW m \in Maps, NEW u \in Urls, PutUrl(m, u)
  PROVE  IInv'
<1> DEFINE e == [kind |-> "url", url |-> u, body |-> NoBody(m)]
<1>1. e \in Items /\ e.kind = "url" /\ e.body.kind = "none"
  BY Typed, ItemsKnown DEF NoBody, Bodies, Sites
<1> HIDE DEF e
<1>2. queue' = [queue EXCEPT ![m] = Append(@, e)]
  BY DEF PutUrl, Queues, e
<1>3. Puts(m, <<e>>)
  BY <1>1, <1>2, Typed, Concats DEF PutUrl, Puts, Same, Shape, map
<1>4. /\ pump' = pump /\ walk' = walk /\ capped' = capped /\ batch'[m] \in SUBSET Urls
      /\ pump[m] = "emit"
  BY Typed DEF PutUrl, Shape
<1>6. pump[m] = "emit" /\ walk[m].after = "notice" => Pending(m)'
  BY <1>4 DEF Pending
<1> QED
  <2>1. <<e>> \in Seq(Items) /\ Len(<<e>>) = 1 /\ <<e>>[1] = e
    BY <1>1, Typed, Concats
  <2>2. \A i \in 1..Len(<<e>>) : <<e>>[i] = e
    BY <2>1
  <2> HIDE DEF Puts
  <2> QED BY <1>1, <1>3, <1>4, <1>6, <2>1, <2>2, Typed, PutsIsGood

(* A step that puts nothing. *)
LEMMA QuietStep ==
  ASSUME IInv, NEW m \in Maps, Shape', \A n \in Maps \ {m} : Same(n), UNCHANGED <<map, queue>>,
         pump[m] \notin {"off", "over"}, pump'[m] \in Pumps, walk'[m] \in Walk,
         batch'[m] \in SUBSET Urls, capped'[m] \in BOOLEAN,
         capped'[m] => capped[m] \/ Pending(m)',
         pump[m] = "emit" => walk[m].after # "notice"
  PROVE  IInv'
<1>1. queue[m] \in Seq(Items) /\ [kind |-> "end"] \in Items
  BY Typed, ItemsKnown
<1>2. <<>> \in Seq(Items) /\ Len(<<>>) = 0 /\ queue[m] = queue[m] \o <<>>
  BY <1>1, Concats
<1>3. Puts(m, <<>>)
  BY <1>2 DEF Puts, map
<1>4. \A i \in 1..Len(<<>>) : FALSE
  BY <1>2
<1>5. pump[m] = "emit" /\ walk[m].after = "notice" => Pending(m)'
  OBVIOUS
<1> DEFINE s == <<>>
<1>6. s \in Seq(Items) /\ Puts(m, s) /\ \A i \in 1..Len(s) : FALSE
  BY <1>2, <1>3, <1>4
<1> HIDE DEF s
<1> QED BY <1>5, <1>6, PutsIsGood

(* A step that puts one item, which ends the stream. *)
LEMMA EndStep ==
  ASSUME IInv, NEW m \in Maps, Shape', \A n \in Maps \ {m} : Same(n), UNCHANGED map,
         NEW e \in EndItems, queue'[m] = Append(queue[m], e),
         pump[m] \notin {"off", "over"}, pump'[m] = "over", walk'[m] = walk[m],
         batch'[m] = batch[m], capped'[m] = capped[m],
         pump[m] = "emit" => walk[m].after # "notice"
  PROVE  IInv'
<1>1. e \in Items /\ e.kind # "url"
  BY DEF Items, EndItems
<1>2. <<e>> \in Seq(Items) /\ Len(<<e>>) = 1 /\ <<e>>[1] = e /\ queue'[m] = queue[m] \o <<e>>
  BY <1>1, Typed, Concats
<1>3. Puts(m, <<e>>)
  BY <1>2 DEF Puts, map
<1>4. \A i \in 1..Len(<<e>>) : i = Len(<<e>>) /\ <<e>>[i] = e
  BY <1>2
<1> QED BY <1>1, <1>2, <1>3, <1>4, Typed, PutsIsGood DEF Pumps

(* A step that puts two, the second of which ends it. *)
LEMMA LastStep ==
  ASSUME IInv, NEW m \in Maps, Shape', \A n \in Maps \ {m} : Same(n), UNCHANGED map,
         NEW e \in Items, e.kind \notin {"end", "error"}, e.kind = "url" => e.body.kind # "html",
         queue'[m] = queue[m] \o <<e, [kind |-> "end"]>>,
         pump[m] \notin {"off", "over"}, pump'[m] = "over", walk'[m] = walk[m],
         batch'[m] = batch[m], capped'[m] = capped[m],
         pump[m] = "emit" /\ walk[m].after = "notice" => e.kind = "notice"
  PROVE  IInv'
<1> DEFINE f == [kind |-> "end"]
           s == <<e, f>>
<1>1. f \in Items /\ f.kind = "end"
  BY ItemsKnown
<1> HIDE DEF f
<1>2. s \in Seq(Items) /\ Len(s) = 2 /\ s[1] = e /\ s[2] = f
  BY <1>1
<1>3. Puts(m, s)
  BY DEF Puts, map, f
<1>4. \A i \in 1..Len(s) : (i = 1 /\ s[i] = e) \/ (i = Len(s) /\ s[i] = f)
  BY <1>2
<1>5. pump[m] = "emit" /\ walk[m].after = "notice" => Pending(m)'
  <2> SUFFICES ASSUME e.kind = "notice" PROVE Pending(m)'
    OBVIOUS
  <2>1. queue[m] \in Seq(Items)
    BY Typed
  <2>2. /\ Len(queue[m]) + 1 \in 1..Len(queue'[m])
        /\ queue'[m][Len(queue[m]) + 1] = e
    BY <1>2, <1>3, <2>1 DEF Puts
  <2> QED BY <2>2 DEF Pending
<1> HIDE DEF s
<1> QED BY <1>1, <1>2, <1>3, <1>4, <1>5, Typed, PutsIsGood DEF Pumps

LEMMA PutLastStep ==
  ASSUME IInv, NEW m \in Maps, PutLast(m)
  PROVE  IInv'
<1> USE Typed DEF Walk
<1>1. CASE walk[m].after = "crawl"
  <2>1. Shape' /\ (\A n \in Maps \ {m} : Same(n)) /\ UNCHANGED <<map, queue>>
    BY <1>1 DEF PutLast, Does, Shape, Same, map
  <2> QED BY <1>1, <2>1, QuietStep DEF PutLast, Does, Shape, Pumps
<1>2. CASE walk[m].after = "end"
  <2>1. Shape' /\ (\A n \in Maps \ {m} : Same(n)) /\ UNCHANGED map
    BY <1>2 DEF PutLast, Does, Queues, Shape, Same, map
  <2>2. queue'[m] = Append(queue[m], [kind |-> "end"]) /\ pump'[m] = "over"
    BY <1>2 DEF PutLast, Does, Queues, Shape
  <2>3. [kind |-> "end"] \in EndItems
    BY DEF EndItems
  <2> QED BY <1>2, <2>1, <2>2, <2>3, EndStep DEF PutLast
<1>3. CASE walk[m].after = "notice"
  <2>1. Shape' /\ (\A n \in Maps \ {m} : Same(n)) /\ UNCHANGED map
    BY <1>3 DEF PutLast, Does, Shape, Same, map
  <2>2. queue'[m] = queue[m] \o <<[kind |-> "notice"], [kind |-> "end"]>>
    BY <1>3 DEF PutLast, Shape
  <2>3. [kind |-> "notice"] \in Items
    BY ItemsKnown
  <2> QED BY <1>3, <2>1, <2>2, <2>3, LastStep DEF PutLast, Does, Shape
<1> QED BY <1>1, <1>2, <1>3

LEMMA EndsStep ==
  ASSUME IInv, NEW m \in Maps, pump[m] \notin {"off", "over", "emit"}, Ends(m) \/ Raises(m),
         UNCHANGED <<map, walk, batch, capped, file>>
  PROVE  IInv'
<1> USE Typed
<1>1. Shape' /\ (\A n \in Maps \ {m} : Same(n)) /\ UNCHANGED map
  BY DEF Ends, Raises, Does, Queues, Shape, Same, map
<1>2. CASE Ends(m)
  BY <1>1, <1>2, EndStep DEF Ends, Does, Queues, Shape, EndItems
<1>3. CASE Raises(m)
  BY <1>1, <1>3, EndStep DEF Raises, Does, Queues, Shape, EndItems
<1> QED BY <1>2, <1>3

LEMMA YieldsStep ==
  ASSUME IInv, NEW m \in Maps, pump[m] \notin {"off", "over", "emit"},
         NEW kind \in Kinds \ {"html"}, NEW of \in Origins, Yields(m, kind, of),
         file' \in [Hosts -> Files], UNCHANGED <<map, walk, batch, capped>>
  PROVE  IInv'
<1> DEFINE body == [kind |-> kind, of |-> of]
           e == [kind |-> "url", url |-> Outline, body |-> body]
<1>1. e \in Items /\ e.kind = "url" /\ e.body.kind # "html"
  BY ItemsKnown DEF Bodies
<1> HIDE DEF e
<1>2. Shape' /\ (\A n \in Maps \ {m} : Same(n)) /\ UNCHANGED map
  BY Typed DEF Yields, Does, Shape, Same, map
<1>3. queue'[m] = queue[m] \o <<e, [kind |-> "end"]>>
  BY Typed DEF Yields, Shape, e
<1> QED BY <1>1, <1>2, <1>3, Typed, LastStep DEF Yields, Does, Shape

LEMMA OutlineStep ==
  ASSUME IInv, NEW m \in Maps, LookUp(m) \/ Ask(m) \/ NotKept(m)
  PROVE  IInv'
<1> USE Typed
<1>1. Host(m) \in Hosts /\ site[m].origin \in Origins /\ file[Host(m)] \in Files
  BY DEF Host, Sites, Shape
<1>2. file \in [Hosts -> Files]
  BY DEF Shape
<1>3. CASE LookUp(m)
  <2>1. pump[m] = "look" /\ UNCHANGED <<map, walk, batch, capped, file>>
    BY <1>3 DEF LookUp
  <2>2. CASE Yields(m, file[Host(m)].kind, file[Host(m)].of) /\ file[Host(m)].kind \notin {"none", "html"}
    BY <1>1, <1>2, <2>1, <2>2, YieldsStep DEF Files
  <2>3. CASE Raises(m)
    BY <2>1, <2>3, EndsStep
  <2>4. CASE Does(m, "ask") /\ UNCHANGED queue
    <3>1. Shape' /\ (\A n \in Maps \ {m} : Same(n))
      BY <2>1, <2>4 DEF Does, Shape, Same, map
    <3> QED BY <2>1, <2>4, <3>1, QuietStep DEF Does, Shape, Pumps
  <2> QED BY <1>3, <2>2, <2>3, <2>4 DEF LookUp
<1>4. CASE Ask(m)
  <2>1. pump[m] = "ask" /\ UNCHANGED <<map, walk, batch, capped, file>>
    BY <1>4 DEF Ask
  <2>2. CASE Ends(m) \/ Raises(m)
    BY <2>1, <2>2, EndsStep
  <2>3. CASE Does(m, "write") /\ UNCHANGED queue
    <3>1. Shape' /\ (\A n \in Maps \ {m} : Same(n))
      BY <2>1, <2>3 DEF Does, Shape, Same, map
    <3> QED BY <2>1, <2>3, <3>1, QuietStep DEF Does, Shape, Pumps
  <2> QED BY <1>4, <2>2, <2>3 DEF Ask
<1>5. CASE NotKept(m)
  <2>1. PICK kind \in {"text", "tainted"} : Yields(m, kind, site[m].origin)
    BY <1>5 DEF NotKept
  <2> QED BY <1>1, <1>2, <1>5, <2>1, YieldsStep DEF NotKept, Kinds
<1> QED BY <1>3, <1>4, <1>5

LEMMA WriteStep ==
  ASSUME IInv, NEW m \in Maps, Open(m) \/ Fill(m)
  PROVE  IInv'
<1> USE Typed
<1>1. Host(m) \in Hosts /\ site[m].origin \in Origins /\ file \in [Hosts -> Files]
  BY DEF Host, Sites, Shape
<1>2. CASE Open(m)
  <2>1. file' \in [Hosts -> Files]
    BY <1>1, <1>2 DEF Open, Files, Kinds
  <2>2. Shape' /\ (\A n \in Maps \ {m} : Same(n)) /\ UNCHANGED <<map, queue>>
    BY <1>2, <2>1 DEF Open, Does, Shape, Same, map
  <2> QED BY <1>2, <2>2, QuietStep DEF Open, Does, Shape, Pumps
<1>3. CASE Fill(m)
  <2>1. PICK kind \in {"text", "tainted"} :
          /\ \/ file' = [file EXCEPT ![Host(m)] =
                  [kind |-> kind, of |-> site[m].origin, fresh |-> TRUE]]
             \/ UNCHANGED file
          /\ Yields(m, kind, site[m].origin)
    BY <1>3 DEF Fill
  <2>2. [kind |-> kind, of |-> site[m].origin, fresh |-> TRUE] \in Files
    BY <1>1 DEF Files, Kinds
  <2>3. file' \in [Hosts -> Files]
    BY <1>1, <2>1, <2>2
  <2> QED BY <1>1, <1>3, <2>1, <2>3, YieldsStep DEF Fill, Kinds
<1> QED BY <1>2, <1>3

(* What the steps of a walk make of its record. *)
LEMMA Walked ==
  ASSUME NEW w \in Walk, NEW r \in Nat, NEW f \in SUBSET Urls, NEW l \in Nat, NEW g \in Nat,
         NEW a \in {"crawl", "notice", "end"}
  PROVE  /\ [w EXCEPT !.read = r, !.found = f, !.listed = l] \in Walk
         /\ [w EXCEPT !.read = r, !.found = f, !.guessed = g, !.listed = l] \in Walk
         /\ [w EXCEPT !.read = r, !.found = f, !.after = a] \in Walk
BY DEF Walk

LEMMA WalkBegun ==
  ASSUME NEW p \in Nat, NEW l \in 0..1, NEW g \in 0..1
  PROVE  /\ NoWalk \in Walk
         /\ [NoWalk EXCEPT !.places = p, !.listed = l] \in Walk
         /\ [NoWalk EXCEPT !.listed = l, !.guessed = g, !.places = p] \in Walk
<1>1. NoWalk \in Walk
  BY DEF NoWalk, Walk
<1>2. l \in Nat /\ g \in Nat
  OBVIOUS
<1> HIDE DEF NoWalk
<1>3. [NoWalk EXCEPT !.places = p, !.listed = l] \in Walk
  BY <1>1, <1>2 DEF Walk
<1>4. [NoWalk EXCEPT !.listed = l, !.guessed = g, !.places = p] \in Walk
  BY <1>1, <1>2 DEF Walk
<1> QED BY <1>1, <1>3, <1>4

LEMMA WalkStep ==
  ASSUME IInv, NEW m \in Maps, ReadSitemap(m) \/ NextPlace(m)
  PROVE  IInv'
<1> USE Typed
<1>1. pump[m] = "walk" /\ UNCHANGED <<map, pump, batch, queue, capped, file>>
  BY DEF ReadSitemap, NextPlace, WalkOver
<1>2. PICK w : Walks(m, w) /\ w \in Walk
  <2>1. CASE ReadSitemap(m)
    <3>1. PICK found \in SUBSET Urls, more \in 0..1 :
       \/ /\ walk[m].listed > 0
          /\ Walks(m, [walk[m] EXCEPT !.read = @ + 1, !.found = @ \union found,
                                      !.listed = @ - 1 + more])
       \/ /\ walk[m].listed = 0 /\ walk[m].guessed > 0
          /\ Walks(m, [walk[m] EXCEPT !.read = @ + 1, !.found = @ \union found,
                                      !.guessed = @ - 1, !.listed = more])
      BY <2>1 DEF ReadSitemap
    <3>0. walk[m] \in Walk
      OBVIOUS
    <3>2. walk[m].listed > 0 =>
            [walk[m] EXCEPT !.read = @ + 1, !.found = @ \union found, !.listed = @ - 1 + more] \in Walk
      <4>1. /\ walk[m].read + 1 \in Nat /\ walk[m].found \union found \in SUBSET Urls
            /\ walk[m].listed > 0 => walk[m].listed - 1 + more \in Nat
        BY <3>0 DEF Walk
      <4> QED BY <3>0, <4>1, Walked
    <3>3. walk[m].guessed > 0 =>
            [walk[m] EXCEPT !.read = @ + 1, !.found = @ \union found, !.guessed = @ - 1,
                            !.listed = more] \in Walk
      <4>1. /\ walk[m].read + 1 \in Nat /\ walk[m].found \union found \in SUBSET Urls
            /\ walk[m].guessed > 0 => walk[m].guessed - 1 \in Nat
            /\ more \in Nat
        BY <3>0 DEF Walk
      <4> QED BY <3>0, <4>1, Walked
    <3> QED BY <3>1, <3>2, <3>3
  <2>2. CASE NextPlace(m)
    <3>1. [NoWalk EXCEPT !.places = walk[m].places - 1, !.listed = 1] \in Walk
      <4>1. walk[m] \in Walk /\ walk[m].places > 0
        BY <2>2 DEF NextPlace
      <4>2. walk[m].places - 1 \in Nat
        BY <4>1 DEF Walk
      <4>3. 0 \in 0..1 /\ 1 \in 0..1
        OBVIOUS
      <4> QED BY <4>2, <4>3, WalkBegun
    <3> QED BY <2>2, <3>1 DEF NextPlace
  <2> QED BY <2>1, <2>2
<1>3. Shape' /\ (\A n \in Maps \ {m} : Same(n)) /\ walk'[m] \in Walk
  BY <1>1, <1>2 DEF Walks, Shape, Same, map
<1> QED BY <1>1, <1>3, QuietStep DEF map

LEMMA WalkEndsStep ==
  ASSUME IInv, NEW m \in Maps, WalkEnds(m)
  PROVE  IInv'
<1> USE Typed
<1> DEFINE cut == walk[m].found # {} /\ walk[m].listed > 0
           w == [NoWalk EXCEPT !.after = IF cut THEN "notice" ELSE "end"]
<1>1. /\ pump[m] = "walk" /\ Does(m, "emit") /\ batch' = [batch EXCEPT ![m] = walk[m].found]
      /\ Walks(m, w) /\ capped' = [capped EXCEPT ![m] = cut]
      /\ UNCHANGED <<map, queue, file>>
  BY DEF WalkEnds, WalkOver
<1>2. w \in Walk /\ walk[m].found \in SUBSET Urls /\ (cut => w.after = "notice")
  BY DEF Walk, NoWalk
<1>3. cut \in BOOLEAN
  OBVIOUS
<1> HIDE DEF cut, w
<1>4. Shape' /\ \A n \in Maps \ {m} : Same(n)
  BY <1>1 DEF Does, Walks, Shape, Same, map
<1>5. /\ pump'[m] = "emit" /\ walk'[m] = w /\ batch'[m] \in SUBSET Urls /\ capped'[m] = cut
  BY <1>1, <1>2 DEF Does, Walks, Shape
<1>6. capped'[m] => Pending(m)'
  BY <1>2, <1>5 DEF Pending
<1> QED BY <1>1, <1>2, <1>3, <1>4, <1>5, <1>6, QuietStep DEF Pumps, map

LEMMA FindStep ==
  ASSUME IInv, NEW m \in Maps, FindFeeds(m) \/ Crawl(m)
  PROVE  IInv'
<1> USE Typed
<1>1. /\ pump[m] \in {"find", "crawl"} /\ Does(m, "emit") /\ UNCHANGED <<map, queue, capped, file>>
  BY DEF FindFeeds, Crawl
<1>2. PICK w, b : Walks(m, w) /\ w \in Walk /\ batch' = [batch EXCEPT ![m] = b] /\ b \in SUBSET Urls
  <2>1. CASE FindFeeds(m)
    BY <2>1 DEF FindFeeds, Walk, NoWalk
  <2>2. CASE Crawl(m)
    <3>1. PICK found \in SUBSET Urls, more \in BOOLEAN :
            /\ batch' = [batch EXCEPT ![m] = (walk[m].found \union found) \ walk[m].found]
            /\ Walks(m, [walk[m] EXCEPT !.read = @ + Step, !.found = walk[m].found \union found,
                                        !.after = IF more THEN "crawl" ELSE "end"])
      BY <2>2 DEF Crawl
    <3>2. [walk[m] EXCEPT !.read = @ + Step, !.found = walk[m].found \union found,
                          !.after = IF more THEN "crawl" ELSE "end"] \in Walk
      <4> DEFINE a == IF more THEN "crawl" ELSE "end"
                 r == walk[m].read + Step
                 f == walk[m].found \union found
      <4>1. walk[m] \in Walk
        OBVIOUS
      <4>2. r \in Nat /\ f \in SUBSET Urls /\ a \in {"crawl", "notice", "end"}
        BY <4>1 DEF Walk, Step
      <4> HIDE DEF a, r, f
      <4>3. [walk[m] EXCEPT !.read = r, !.found = f, !.after = a] \in Walk
        BY <4>1, <4>2, Walked
      <4> QED BY <4>3 DEF a, r, f
    <3> QED BY <3>1, <3>2
  <2> QED BY <2>1, <2>2
<1>3. Shape' /\ (\A n \in Maps \ {m} : Same(n)) /\ walk'[m] \in Walk /\ batch'[m] \in SUBSET Urls
  BY <1>1, <1>2 DEF Does, Walks, Shape, Same, map
<1> QED BY <1>1, <1>3, QuietStep DEF Does, Shape, Pumps, map

(* Every step of a thread. *)
LEMMA PumpStep ==
  ASSUME IInv, NEW m \in Maps, Pump(m)
  PROVE  IInv'
<1>1. CASE CrawlEnds(m)
  BY <1>1, EndsStep DEF CrawlEnds
<1>2. CASE DiscoveryFails(m)
  BY <1>2, EndsStep DEF DiscoveryFails
<1> QED
  BY <1>1, <1>2, PutUrlStep, PutLastStep, OutlineStep, WriteStep, WalkStep, WalkEndsStep, FindStep
  DEF Pump

-----------------------------------------------------------------------------
(* A step of the map that leaves the other maps alone. *)
LEMMA MergeFrame ==
  ASSUME IInv, NEW m \in Maps, Shape', \A n \in Maps \ {m} : Same(n), Good(m)'
  PROVE  IInv'
BY SameIsGood DEF IInv

LEMMA StartStep ==
  ASSUME IInv, NEW m \in Maps, StartStream(m)
  PROVE  IInv'
<1> USE Typed
<1>0. Good(m)
  BY DEF IInv
<1>1. /\ at[m] = "next" /\ turn[m] <= Len(Streams(m)) /\ at' = [at EXCEPT ![m] = "reading"]
      /\ Does(m, Begins(Source(m)))
      /\ UNCHANGED <<site, turn, batch, queue, seen, out, notes, late, capped, file>>
  BY DEF StartStream
<1>2. Source(m) \in Sources
  BY <1>0, <1>1 DEF Good, MapTyped, Sites, Streams, Source
<1>3. Begins(Source(m)) \in Pumps \ {"off", "over", "emit"}
  BY <1>2 DEF Begins, Sources, Pumps
<1>4. PICK listed \in 0..1, guessed \in 0..1 :
        Walks(m, [NoWalk EXCEPT !.listed = listed, !.guessed = guessed, !.places = site[m].places])
  BY DEF StartStream
<1>5. [NoWalk EXCEPT !.listed = listed, !.guessed = guessed, !.places = site[m].places] \in Walk
  <2>1. site[m].places \in Nat
    BY DEF Sites
  <2> QED BY <2>1, WalkBegun
<1>6. Shape' /\ \A n \in Maps \ {m} : Same(n)
  BY <1>1, <1>4 DEF Does, Walks, Shape, Same
<1>7. walk'[m] \in Walk /\ pump'[m] \in Pumps \ {"off", "over", "emit"} /\ at'[m] = "reading"
  BY <1>1, <1>3, <1>4, <1>5 DEF Does, Walks, Shape
<1>8. MapTyped(m)'
  BY <1>0, <1>1, <1>7 DEF Good, MapTyped
<1>9. queue'[m] = <<>> /\ PipeInv(m)'
  BY <1>0, <1>1, <1>7 DEF Good, PipeInv, Streams
<1>10. MergeInv(m)' /\ BodyInv(m)'
  BY <1>0, <1>1 DEF Good, MergeInv, BodyInv
<1>11. NoteInv(m)'
  <2>1. ~Pending(m)
    BY <1>0, <1>1 DEF Good, PipeInv, Pending
  <2> QED BY <1>0, <1>1, <1>7, <2>1 DEF Good, NoteInv
<1> QED BY <1>6, <1>8, <1>9, <1>10, <1>11, MergeFrame DEF Good

LEMMA NoStreamStep ==
  ASSUME IInv, NEW m \in Maps, NoStreamLeft(m)
  PROVE  IInv'
<1> USE Typed
<1>0. Good(m)
  BY DEF IInv
<1>1. /\ at[m] = "next" /\ turn[m] > Len(Streams(m)) /\ at' = [at EXCEPT ![m] = "done"]
      /\ UNCHANGED <<site, turn, pump, walk, batch, queue, seen, out, notes, late, capped, file>>
  BY DEF NoStreamLeft
<1>2. Shape' /\ (\A n \in Maps \ {m} : Same(n)) /\ at'[m] = "done"
  BY <1>1 DEF Shape, Same
<1>3. MapTyped(m)' /\ PipeInv(m)'
  BY <1>0, <1>1, <1>2 DEF Good, MapTyped, PipeInv
<1>4. MergeInv(m)' /\ BodyInv(m)'
  BY <1>0, <1>1 DEF Good, MergeInv, BodyInv
<1>5. NoteInv(m)'
  <2>1. ~Pending(m) /\ pump[m] \in {"off", "over"}
    BY <1>0, <1>1 DEF Good, PipeInv, Pending
  <2> QED BY <1>0, <1>1, <1>2, <2>1 DEF Good, NoteInv, Streams
<1> QED BY <1>2, <1>3, <1>4, <1>5, MergeFrame DEF Good

(* What it takes from the queue. *)
LEMMA Popped ==
  ASSUME NEW q \in Seq(Items), q # <<>>
  PROVE  /\ Head(q) \in Items /\ Head(q) = q[1] /\ 1 \in 1..Len(q)
         /\ Tail(q) \in Seq(Items) /\ Len(Tail(q)) = Len(q) - 1
         /\ \A i \in 1..Len(Tail(q)) : i + 1 \in 1..Len(q) /\ Tail(q)[i] = q[i + 1]
         /\ \A i \in 1..Len(q) : i = 1 \/ (i - 1 \in 1..Len(Tail(q)) /\ Tail(q)[i - 1] = q[i])
OBVIOUS

LEMMA TakenFrom ==
  ASSUME IInv, NEW m \in Maps, NEW kind, Taking(m, kind)
  PROVE  /\ Good(m) /\ at[m] = "reading" /\ Head(queue[m]) \in Items /\ Head(queue[m]).kind = kind
         /\ queue[m] \in Seq(Items) /\ queue[m] # <<>>
         /\ queue'[m] = Tail(queue[m]) /\ queue'[m] \in Seq(Items)
         /\ site' = site /\ pump' = pump /\ walk' = walk /\ batch' = batch
         /\ late' = late /\ capped' = capped /\ file' = file
         /\ queue' = [n \in Maps |-> queue'[n]]
         /\ \A n \in Maps \ {m} : queue'[n] = queue[n]
         /\ \A i \in 1..Len(queue'[m]) : queue'[m][i].kind \in {"end", "error"} =>
               i = Len(queue'[m]) /\ pump'[m] = "over"
         /\ \A i \in 1..Len(queue'[m]) : queue'[m][i].kind = "url" => queue'[m][i].body.kind # "html"
         /\ kind # "notice" => (Pending(m) => Pending(m)')
         /\ kind = "url" => Head(queue[m]).body.kind # "html"
         /\ kind \in {"end", "error"} => queue'[m] = <<>> /\ pump[m] = "over"
<1>1. Good(m) /\ queue[m] \in Seq(Items) /\ queue[m] # <<>> /\ Shape
  BY DEF IInv, Good, MapTyped, Taking
<1>2. /\ queue'[m] = Tail(queue[m]) /\ queue' = [n \in Maps |-> queue'[n]]
      /\ \A n \in Maps \ {m} : queue'[n] = queue[n]
  BY <1>1 DEF Taking, Shape
<1>3. /\ Head(queue[m]) \in Items /\ Head(queue[m]) = queue[m][1] /\ 1 \in 1..Len(queue[m])
      /\ queue'[m] \in Seq(Items) /\ Len(queue'[m]) = Len(queue[m]) - 1
      /\ \A i \in 1..Len(queue'[m]) : i + 1 \in 1..Len(queue[m]) /\ queue'[m][i] = queue[m][i + 1]
      /\ \A i \in 1..Len(queue[m]) :
            i = 1 \/ (i - 1 \in 1..Len(queue'[m]) /\ queue'[m][i - 1] = queue[m][i])
  BY <1>1, <1>2, Popped
<1>4. pump' = pump /\ walk' = walk /\ queue[m][1].kind = kind
  BY <1>3 DEF Taking
<1>5. Len(queue[m]) \in Nat
  BY <1>1
<1>6. \A i \in 1..Len(queue[m]) : queue[m][i].kind \in {"end", "error"} =>
        i = Len(queue[m]) /\ pump[m] = "over"
  BY <1>1 DEF Good, PipeInv
<1>7. \A i \in 1..Len(queue'[m]) : queue'[m][i].kind \in {"end", "error"} =>
        i = Len(queue'[m]) /\ pump'[m] = "over"
  BY <1>3, <1>4, <1>5, <1>6
<1>8. \A i \in 1..Len(queue'[m]) : queue'[m][i].kind = "url" => queue'[m][i].body.kind # "html"
  BY <1>1, <1>3 DEF Good, BodyInv
<1>9. kind # "notice" => (Pending(m) => Pending(m)')
  BY <1>3, <1>4 DEF Pending
<1>10. kind = "url" => Head(queue[m]).body.kind # "html"
  BY <1>1, <1>3, <1>4 DEF Good, BodyInv
<1>11. kind \in {"end", "error"} => queue'[m] = <<>> /\ pump[m] = "over"
  <2> SUFFICES ASSUME kind \in {"end", "error"} PROVE queue'[m] = <<>> /\ pump[m] = "over"
    OBVIOUS
  <2>1. Len(queue[m]) = 1 /\ pump[m] = "over"
    BY <1>3, <1>4, <1>6
  <2>2. Len(queue'[m]) = 0
    BY <1>3, <2>1
  <2> QED BY <1>3, <2>1, <2>2
<1> QED BY <1>1, <1>2, <1>3, <1>4, <1>7, <1>8, <1>9, <1>10, <1>11 DEF Taking

LEMMA TakeUrlStep ==
  ASSUME IInv, NEW m \in Maps, TakeUrl(m)
  PROVE  IInv'
<1> DEFINE item == Head(queue[m])
           new == item.url \notin seen[m] /\ item.url \notin site[m].exclude
           record == [url |-> item.url, source |-> Source(m), body |-> Guarded(m, item.body)]
<1>1. /\ Taking(m, "url") /\ turn' = turn
      /\ seen' = [seen EXCEPT ![m] = @ \union {item.url}]
      /\ \/ ~new /\ UNCHANGED <<at, out, notes>>
         \/ /\ new /\ ~Full(m)
            /\ out' = [out EXCEPT ![m] = @ \union {record}]
            /\ UNCHANGED <<at, notes>>
         \/ /\ new /\ Full(m)
            /\ notes' = [notes EXCEPT ![m] = @ \union {"limit"}]
            /\ at' = [at EXCEPT ![m] = "done"]
            /\ UNCHANGED out
  BY DEF TakeUrl
<1>2. Good(m) /\ MapTyped(m) /\ PipeInv(m) /\ MergeInv(m) /\ NoteInv(m) /\ BodyInv(m) /\ Shape
  BY Typed, <1>1, TakenFrom DEF Good
<1>3. /\ item \in Items /\ item.kind = "url" /\ at[m] = "reading"
      /\ site' = site /\ pump' = pump /\ walk' = walk /\ batch' = batch
      /\ late' = late /\ capped' = capped /\ file' = file /\ queue'[m] \in Seq(Items)
      /\ queue' = [n \in Maps |-> queue'[n]] /\ \A n \in Maps \ {m} : queue'[n] = queue[n]
  BY <1>1, TakenFrom
<1>4. /\ \A i \in 1..Len(queue'[m]) : queue'[m][i].kind \in {"end", "error"} =>
           i = Len(queue'[m]) /\ pump'[m] = "over"
      /\ \A i \in 1..Len(queue'[m]) : queue'[m][i].kind = "url" => queue'[m][i].body.kind # "html"
      /\ Pending(m) => Pending(m)'
      /\ item.body.kind # "html"
  BY <1>1, TakenFrom
<1>5. item.url \in Urls \union {Outline} /\ item.body \in Bodies
  BY <1>3 DEF Items
<1>6. Source(m) \in Sources
  BY <1>2, <1>3 DEF MapTyped, PipeInv, Sites, Streams, Source
<1>7. /\ Guarded(m, item.body) \in Bodies /\ Guarded(m, item.body).kind # "html"
      /\ site[m].screened => Guarded(m, item.body).kind # "tainted"
  BY <1>4, <1>5 DEF Guarded, Bodies, Kinds
<1>8. record \in Records /\ record.url = item.url /\ record.body = Guarded(m, item.body)
  BY <1>5, <1>6, <1>7 DEF Records
<1> HIDE DEF record
<1>9. seen'[m] = seen[m] \union {item.url}
  BY <1>1, <1>2 DEF Shape
<1>10. \/ ~new /\ at'[m] = at[m] /\ out'[m] = out[m] /\ notes'[m] = notes[m]
       \/ new /\ ~Full(m) /\ at'[m] = at[m] /\ out'[m] = out[m] \union {record} /\ notes'[m] = notes[m]
       \/ new /\ at'[m] = "done" /\ out'[m] = out[m] /\ notes'[m] = notes[m] \union {"limit"}
  BY <1>1, <1>2 DEF Shape
<1>11. Shape' /\ \A n \in Maps \ {m} : Same(n)
  BY <1>1, <1>2, <1>3 DEF Shape, Same
<1>12. MapTyped(m)'
  BY <1>1, <1>2, <1>3, <1>5, <1>8, <1>9, <1>10 DEF MapTyped, Notes
<1>13. PipeInv(m)'
  BY <1>1, <1>2, <1>3, <1>4, <1>10 DEF PipeInv, Streams
<1>14. NoteInv(m)'
  BY <1>2, <1>3, <1>4, <1>10 DEF NoteInv
<1>15. BodyInv(m)'
  BY <1>2, <1>3, <1>4, <1>7, <1>8, <1>10 DEF BodyInv
<1>16. MergeInv(m)'
  <2>1. CASE ~new /\ out'[m] = out[m] /\ notes'[m] = notes[m]
    BY <1>2, <1>3, <1>9, <2>1 DEF MergeInv
  <2>2. CASE out'[m] = out[m] /\ notes'[m] = notes[m] \union {"limit"}
    BY <1>2, <1>3, <1>9, <2>2 DEF MergeInv
  <2>3. CASE new /\ ~Full(m) /\ out'[m] = out[m] \union {record} /\ notes'[m] = notes[m]
    <3>1. IsFiniteSet(out[m]) /\ Cardinality(out[m]) \in Nat /\ site[m].limit \in Nat
      BY <1>2, FS_CardinalityType DEF MergeInv, MapTyped, Sites
    <3>2. /\ IsFiniteSet(out'[m])
          /\ Cardinality(out'[m]) = Cardinality(out[m]) \/ Cardinality(out'[m]) = Cardinality(out[m]) + 1
      <4>1. /\ IsFiniteSet(out[m] \union {record})
            /\ Cardinality(out[m] \union {record}) =
                 IF record \in out[m] THEN Cardinality(out[m]) ELSE Cardinality(out[m]) + 1
        BY <3>1, FS_AddElement, Zenon
      <4> QED BY <2>3, <4>1
    <3>3. Cardinality(out'[m]) <= site'[m].limit
      BY <1>3, <2>3, <3>1, <3>2 DEF Full
    <3>4. \A r \in out'[m] : r = record \/ (r \in out[m] /\ r.url \in seen[m] \ site[m].exclude)
      BY <1>2, <2>3 DEF MergeInv
    <3>5. \A r \in out'[m] : r.url \in seen'[m] \ site'[m].exclude
      BY <1>3, <1>8, <1>9, <2>3, <3>4
    <3>6. \A r, s \in out'[m] : r.url = s.url => r = s
      BY <1>2, <1>8, <2>3, <3>4 DEF MergeInv
    <3>7. "limit" \notin notes'[m] =>
            \A u \in seen'[m] \ site'[m].exclude : \E r \in out'[m] : r.url = u
      BY <1>2, <1>3, <1>8, <1>9, <2>3 DEF MergeInv
    <3> QED BY <3>2, <3>3, <3>5, <3>6, <3>7 DEF MergeInv
  <2> QED BY <1>10, <2>1, <2>2, <2>3
<1> QED BY <1>11, <1>12, <1>13, <1>14, <1>15, <1>16, MergeFrame DEF Good

LEMMA TakeNoticeStep ==
  ASSUME IInv, NEW m \in Maps, TakeNotice(m)
  PROVE  IInv'
<1>1. /\ Taking(m, "notice") /\ notes' = [notes EXCEPT ![m] = @ \union {"sitemaps"}]
      /\ UNCHANGED <<at, turn, seen, out>>
  BY DEF TakeNotice
<1>2. Good(m) /\ Shape
  BY Typed, <1>1, TakenFrom
<1>3. notes'[m] = notes[m] \union {"sitemaps"}
  BY <1>1, <1>2 DEF Shape
<1>4. Shape' /\ \A n \in Maps \ {m} : Same(n)
  BY <1>1, <1>2, TakenFrom DEF Shape, Same
<1>5. MapTyped(m)'
  BY <1>1, <1>2, <1>3, TakenFrom DEF Good, MapTyped, Notes
<1>6. PipeInv(m)'
  BY <1>1, <1>2, TakenFrom DEF Good, PipeInv, Streams
<1>7. MergeInv(m)'
  BY <1>1, <1>2, <1>3, TakenFrom DEF Good, MergeInv
<1>8. NoteInv(m)'
  BY <1>3 DEF NoteInv
<1>9. BodyInv(m)'
  BY <1>1, <1>2, TakenFrom DEF Good, BodyInv
<1> QED BY <1>4, <1>5, <1>6, <1>7, <1>8, <1>9, MergeFrame DEF Good

LEMMA TakeLastStep ==
  ASSUME IInv, NEW m \in Maps, TakeEnd(m) \/ TakeError(m)
  PROVE  IInv'
<1>1. PICK kind \in {"end", "error"} : Taking(m, kind)
  BY DEF TakeEnd, TakeError
<1>2. Good(m) /\ Shape
  BY Typed, <1>1, TakenFrom
<1>3. /\ site' = site /\ pump' = pump /\ walk' = walk /\ batch' = batch
      /\ late' = late /\ capped' = capped /\ file' = file
      /\ queue'[m] = <<>> /\ pump[m] = "over" /\ queue'[m] \in Seq(Items)
      /\ queue' = [n \in Maps |-> queue'[n]] /\ \A n \in Maps \ {m} : queue'[n] = queue[n]
      /\ Pending(m) => Pending(m)'
  BY <1>1, TakenFrom
<1>4. /\ UNCHANGED <<seen, out, notes>>
      /\ turn' = [n \in Maps |-> turn'[n]] /\ at' = [n \in Maps |-> at'[n]]
      /\ \A n \in Maps \ {m} : turn'[n] = turn[n] /\ at'[n] = at[n]
      /\ turn'[m] = turn[m] \/ turn'[m] = turn[m] + 1
      /\ \/ at'[m] = "done" /\ Full(m)
         \/ at'[m] = "next"
         \/ at'[m] = "failed"
  BY <1>2 DEF TakeEnd, TakeError, Shape
<1>5. Shape' /\ \A n \in Maps \ {m} : Same(n)
  BY <1>2, <1>3, <1>4 DEF Shape, Same
<1>6. turn'[m] \in Nat \ {0}
  BY <1>2, <1>4 DEF Good, MapTyped
<1>7. MapTyped(m)'
  BY <1>2, <1>3, <1>4, <1>6 DEF Good, MapTyped
<1>8. PipeInv(m)'
  <2>1. Len(queue'[m]) = 0
    BY <1>3
  <2> QED BY <1>3, <1>4, <2>1 DEF PipeInv
<1>9. MergeInv(m)' /\ BodyInv(m)'
  <2>1. Len(queue'[m]) = 0
    BY <1>3
  <2> QED BY <1>2, <1>3, <1>4, <2>1 DEF Good, MergeInv, BodyInv
<1>10. NoteInv(m)'
  <2>1. Full(m) => ~ Cardinality(out[m]) < site[m].limit
    <3>1. Cardinality(out[m]) \in Nat /\ site[m].limit \in Nat
      BY <1>2, FS_CardinalityType DEF Good, MergeInv, MapTyped, Sites
    <3> QED BY <3>1 DEF Full
  <2>2. capped'[m] => notes'[m] # {} \/ at'[m] \in {"done", "failed"} \/ Pending(m)'
    <3>1. at[m] = "reading"
      BY <1>1, TakenFrom
    <3> QED BY <1>2, <1>3, <1>4, <3>1 DEF Good, NoteInv
  <2> QED BY <1>3, <1>4, <2>1, <2>2 DEF NoteInv
<1> QED BY <1>5, <1>7, <1>8, <1>9, <1>10, MergeFrame DEF Good

LEMMA ClockStep ==
  ASSUME IInv, NEW m \in Maps, OutOfTime(m) \/ Deadline(m)
  PROVE  IInv'
<1>1. Good(m) /\ Shape
  BY DEF IInv
<1>2. CASE OutOfTime(m)
  <2>1. Shape' /\ (\A n \in Maps \ {m} : Same(n)) /\ at'[m] = "done"
        /\ notes'[m] = notes[m] \union {"budget"}
    BY <1>1, <1>2 DEF OutOfTime, Shape, Same
  <2>2. UNCHANGED <<site, turn, pump, walk, batch, queue, seen, out, late, capped, file>>
    BY <1>2 DEF OutOfTime
  <2>3. MapTyped(m)'
    BY <1>1, <2>1, <2>2 DEF Good, MapTyped, Notes
  <2>4. PipeInv(m)'
    BY <1>1, <2>1, <2>2 DEF Good, PipeInv
  <2>5. MergeInv(m)'
    BY <1>1, <2>1, <2>2 DEF Good, MergeInv
  <2>6. NoteInv(m)' /\ BodyInv(m)'
    BY <1>1, <2>1, <2>2 DEF Good, NoteInv, BodyInv
  <2> QED BY <2>1, <2>3, <2>4, <2>5, <2>6, MergeFrame DEF Good
<1>3. CASE Deadline(m)
  <2>1. Shape' /\ (\A n \in Maps \ {m} : Same(n)) /\ late'[m] = TRUE
    BY <1>1, <1>3 DEF Deadline, Shape, Same
  <2>2. UNCHANGED <<site, at, turn, pump, walk, batch, queue, seen, out, notes, capped, file>>
    BY <1>3 DEF Deadline
  <2>3. MapTyped(m)'
    BY <1>1, <2>1, <2>2 DEF Good, MapTyped
  <2>4. PipeInv(m)' /\ MergeInv(m)' /\ BodyInv(m)'
    BY <1>1, <2>2 DEF Good, PipeInv, MergeInv, BodyInv, Streams
  <2>5. NoteInv(m)'
    BY <1>1, <2>2 DEF Good, NoteInv, Pending, Streams
  <2> QED BY <2>1, <2>3, <2>4, <2>5, MergeFrame DEF Good
<1> QED BY <1>2, <1>3

LEMMA ExpiresStep ==
  ASSUME IInv, NEW h \in Hosts, Expires(h)
  PROVE  IInv'
<1>1. Shape /\ file' = [file EXCEPT ![h].fresh = FALSE]
      /\ UNCHANGED <<map, pump, walk, batch, queue, capped>>
  BY DEF IInv, Expires
<1>2. file' \in [Hosts -> Files]
  BY <1>1 DEF Shape, Files
<1>3. Shape' /\ \A n \in Maps : Same(n)
  BY <1>1, <1>2 DEF Shape, Same, map
<1> QED BY <1>3, SameIsGood DEF IInv

-----------------------------------------------------------------------------
LEMMA Initially ==
  ASSUME MapInit PROVE IInv
<1>1. site \in [Maps -> Sites]
  BY MapMixesAssumption DEF MapInit
<1>2. file \in [Hosts -> Files]
  BY DEF MapInit, Files
<1>3. Shape
  BY <1>1, <1>2 DEF MapInit, Shape
<1>4. ASSUME NEW m \in Maps PROVE Good(m)
  <2>1. /\ site[m] \in Sites /\ site[m].limit \in Nat
        /\ at[m] = IF site[m].limit = 0 THEN "done" ELSE "next"
        /\ turn[m] = 1 /\ pump[m] = "off" /\ walk[m] = NoWalk /\ batch[m] = {} /\ queue[m] = <<>>
        /\ seen[m] = {} /\ out[m] = {} /\ notes[m] = {} /\ late[m] = FALSE /\ capped[m] = FALSE
    BY <1>1 DEF MapInit, Sites
  <2>2. MapTyped(m)
    <3>1. NoWalk \in Walk
      BY DEF NoWalk, Walk
    <3>2. queue[m] \in Seq(Items) /\ seen[m] \subseteq Urls /\ out[m] \subseteq Records /\ notes[m] \subseteq Notes
      BY <2>1
    <3>3. walk[m] \in Walk /\ batch[m] \in SUBSET Urls /\ pump[m] \in Pumps
      BY <2>1, <3>1 DEF Pumps
    <3>4. at[m] \in {"next", "reading", "done", "failed"} /\ turn[m] \in Nat \ {0}
      BY <2>1
    <3>5. late[m] \in BOOLEAN /\ capped[m] \in BOOLEAN
      BY <2>1
    <3> QED BY <2>1, <3>2, <3>3, <3>4, <3>5 DEF MapTyped
  <2>3. PipeInv(m) /\ BodyInv(m)
    BY <2>1 DEF PipeInv, BodyInv
  <2>4. IsFiniteSet(out[m]) /\ Cardinality(out[m]) = 0
    BY <2>1, FS_EmptySet
  <2>5. MergeInv(m)
    BY <2>1, <2>4 DEF MergeInv
  <2>6. NoteInv(m)
    <3>1. site[m].limit = 0 \/ at[m] # "done"
      BY <2>1
    <3> QED BY <2>1, <2>4, <3>1 DEF NoteInv
  <2> QED BY <2>2, <2>3, <2>5, <2>6 DEF Good
<1> QED BY <1>3, <1>4 DEF IInv

LEMMA Steps ==
  ASSUME IInv, MapNext PROVE IInv'
<1>1. ASSUME NEW m \in Maps, Merge(m) PROVE IInv'
  BY <1>1, StartStep, NoStreamStep, TakeUrlStep, TakeNoticeStep, TakeLastStep, ClockStep DEF Merge
<1> QED BY <1>1, PumpStep, ClockStep, ExpiresStep DEF MapNext

(* Beside maps, the other operations change nothing of theirs. *)
LEMMA Invariance == Spec => []IInv
<1>1. IInv /\ UNCHANGED mapVars => IInv'
  <2> SUFFICES ASSUME IInv, UNCHANGED mapVars PROVE IInv'
    OBVIOUS
  <2>1. Shape' /\ \A n \in Maps : Same(n)
    BY DEF mapVars, Shape, Same, IInv
  <2> QED BY <2>1, SameIsGood DEF IInv
<1>2. Init => IInv
  BY Initially DEF Init
<1>3. IInv /\ [Next]_vars => IInv'
  <2>1. [Next]_vars => MapNext \/ UNCHANGED mapVars
    BY Zenon DEF Next, vars
  <2> QED BY <1>1, <2>1, Steps
<1> QED BY <1>2, <1>3, PTL DEF Spec

(* Every variable of the maps keeps its type.                              *)
THEOREM MapTypes == Spec => []MapTypeOK
<1>1. IInv => MapTypeOK
  BY DEF IInv, Shape, Good, MapTyped, MapTypeOK, Walk, Files, Records
<1> QED BY <1>1, Invariance, PTL

(* A map that ends without a notice and below its limit has read every     *)
(* source to its end and dropped nothing (the merge of map_site).          *)
THEOREM WholeMaps == Spec => []MapIsWhole
<1>1. ASSUME IInv, NEW m \in Maps, at[m] = "done", notes[m] = {},
             Cardinality(out[m]) < site[m].limit
      PROVE  {r.url : r \in out[m]} = seen[m] \ site[m].exclude
  BY <1>1 DEF IInv, Good, MergeInv
<1>2. IInv => MapIsWhole
  <2> SUFFICES ASSUME IInv PROVE MapIsWhole
    OBVIOUS
  <2> QED BY <1>1 DEF IInv, Good, MergeInv, NoteInv, MapIsWhole
<1> QED BY <1>2, Invariance, PTL

(* No body that a map hands over is a page, or tainted while the guard is  *)
(* on, whichever map kept it and whatever was on the disk before           *)
(* (_fetch_llmstxt and _guard_llmstxt).                                    *)
THEOREM ScreenedBodies == Spec => []BodiesAreScreened
<1>1. IInv => BodiesAreScreened
  BY DEF IInv, Good, BodyInv, BodiesAreScreened
<1> QED BY <1>1, Invariance, PTL

-----------------------------------------------------------------------------
(***************************************************************************)
(* The answers.                                                            *)
(***************************************************************************)
(* PassagesAreBest of the places of some passages of one page. *)
Hits(rank, page) == {i \in DOMAIN page : Matches(rank, page[i])}
BestOf(rank, page, top, best) ==
  /\ \A i, j \in DOMAIN best : i < j =>
       best[i] # best[j] /\ page[best[i]].score >= page[best[j]].score
  /\ \A i \in DOMAIN best : best[i] \in Hits(rank, page)
  /\ \A i \in DOMAIN best, h \in Hits(rank, page) : page[h].score > page[best[i]].score =>
       \E j \in DOMAIN best : best[j] = h
  /\ LET all == Cardinality(Hits(rank, page)) IN
     /\ top >= 0 => Len(best) = Clip(top, all)
     /\ top < 0 => Len(best) = IF rank = "bm25" THEN Clip(all + top, all) ELSE 0

(* The passages that come first when they are ranked are the best ones. *)
LEMMA BestAreFirst ==
  ASSUME NEW rank, NEW page \in Pages, NEW top \in Int
  PROVE  BestOf(rank, page, top, TopOf(rank, Ranked(rank, page), top))
<1> DEFINE P == Hits(rank, page)
           N == Cardinality(P)
           R == {p \in P \X P :
                   Before(Judged(rank, page[p[1]]), Judged(rank, page[p[2]]), p[1], p[2])}
           order == Ranked(rank, page)
           c == Clip(IF top < 0 /\ rank = "bm25" THEN N + top ELSE top, N)
           best == TopOf(rank, order, top)
<1>1. /\ P \in SUBSET (1..Len(page)) /\ Len(page) \in Nat
      /\ \A i \in P : page[i].score \in Int /\ page[i].shared \in Nat
  <2>1. /\ Len(page) \in Nat /\ DOMAIN page = 1..Len(page)
        /\ \A i \in 1..Len(page) : page[i] \in Passages
    BY DEF Pages
  <2> QED BY <2>1 DEF Hits, Passages
<1>2. ASSUME NEW i \in P
      PROVE  /\ Judged(rank, page[i]).score = page[i].score
             /\ Judged(rank, page[i]).shared \in Nat
  <2>1. page[i] \in Passages
    BY DEF Hits, Pages
  <2> QED BY <2>1 DEF Judged, Passages
<1>3. IsFiniteSet(P) /\ N \in Nat
  BY <1>1, Intervals
<1> DEFINE Earlier(i, j) == Before(Judged(rank, page[i]), Judged(rank, page[j]), i, j)
<1>4. /\ \A i, j \in P : <<i, j>> \in R <=> Earlier(i, j)
      /\ \A i, j \in P : Earlier(i, j) => page[i].score >= page[j].score
      /\ \A i, j \in P : page[i].score > page[j].score => Earlier(i, j)
      /\ \A i \in P : ~Earlier(i, i)
  <2>1. \A i, j \in P : <<i, j>> \in R <=> Earlier(i, j)
    OBVIOUS
  <2> HIDE DEF P
  <2> QED BY <1>1, <1>2, <2>1 DEF Before
<1>5. Orders(R, P)
  <2>1. \A i, j, k \in P : Earlier(i, j) /\ Earlier(j, k) => Earlier(i, k)
    <3> SUFFICES ASSUME NEW i \in P, NEW j \in P, NEW k \in P, Earlier(i, j), Earlier(j, k)
                 PROVE  Earlier(i, k)
      OBVIOUS
    <3> DEFINE J(n) == Judged(rank, page[n])
    <3>1. /\ J(i).score \in Int /\ J(j).score \in Int /\ J(k).score \in Int
          /\ J(i).shared \in Nat /\ J(j).shared \in Nat /\ J(k).shared \in Nat
          /\ i \in Nat /\ j \in Nat /\ k \in Nat
      BY <1>1, <1>2
    <3>2. Before(J(i), J(j), i, j) /\ Before(J(j), J(k), j, k)
      OBVIOUS
    <3> HIDE DEF J
    <3>3. Before(J(i), J(k), i, k)
      BY <3>1, <3>2 DEF Before
    <3> QED BY <3>3 DEF J
  <2>2. \A i, j \in P : i # j => Earlier(i, j) \/ Earlier(j, i)
    <3> SUFFICES ASSUME NEW i \in P, NEW j \in P, i # j PROVE Earlier(i, j) \/ Earlier(j, i)
      OBVIOUS
    <3> DEFINE J(n) == Judged(rank, page[n])
    <3>1. /\ J(i).score \in Int /\ J(j).score \in Int
          /\ J(i).shared \in Nat /\ J(j).shared \in Nat
          /\ i \in Nat /\ j \in Nat
      BY <1>1, <1>2
    <3> HIDE DEF J
    <3>2. Before(J(i), J(j), i, j) \/ Before(J(j), J(i), j, i)
      BY <3>1 DEF Before
    <3> QED BY <3>2 DEF J
  <2> HIDE DEF R, Earlier
  <2> QED BY <1>4, <2>1, <2>2 DEF Orders
<1>6. order = Order(P, R)
  BY DEF Ranked, Hits
<1>7. /\ order \in [1..N -> P]
      /\ \A i \in P : \E n \in 1..N : order[n] = i
      /\ \A m, n \in 1..N : m < n <=> <<order[m], order[n]>> \in R
  <2> HIDE DEF P, R, order
  <2> QED BY <1>3, <1>5, <1>6, Ordering
<1> HIDE DEF P, N, R, order, Earlier
<1>8. Len(order) = N /\ DOMAIN order = 1..N
  BY <1>3, <1>7
<1>9. /\ c \in 0..N
      /\ top >= 0 => c = Clip(top, N)
      /\ top < 0 => c = IF rank = "bm25" THEN Clip(N + top, N) ELSE 0
  BY <1>3 DEF Clip
<1>10. best = SubSeq(order, 1, c)
  BY <1>8 DEF TopOf
<1> HIDE DEF c, best
<1>11. /\ DOMAIN best = 1..c /\ Len(best) = c
       /\ \A i \in 1..c : best[i] = order[i] /\ i \in 1..N
  <2>1. order \in Seq(P)
    BY <1>3, <1>7
  <2> QED BY <1>3, <1>8, <1>9, <1>10, <2>1
<1>12. \A i, j \in DOMAIN best : i < j =>
         best[i] # best[j] /\ page[best[i]].score >= page[best[j]].score
  <2> SUFFICES ASSUME NEW i \in 1..c, NEW j \in 1..c, i < j
               PROVE  best[i] # best[j] /\ page[best[i]].score >= page[best[j]].score
    BY <1>11
  <2>1. best[i] \in P /\ best[j] \in P /\ Earlier(best[i], best[j])
    BY <1>4, <1>7, <1>11
  <2> QED BY <1>4, <2>1
<1>13. \A i \in DOMAIN best : best[i] \in P
  BY <1>7, <1>11
<1>14. \A i \in DOMAIN best, h \in P : page[h].score > page[best[i]].score =>
         \E j \in DOMAIN best : best[j] = h
  <2> SUFFICES ASSUME NEW i \in 1..c, NEW h \in P, page[h].score > page[best[i]].score
               PROVE  \E j \in 1..c : best[j] = h
    BY <1>11
  <2>1. PICK n \in 1..N : order[n] = h
    BY <1>7
  <2>2. n < i
    <3>1. <<h, best[i]>> \in R
      BY <1>4, <1>11, <1>13
    <3> QED BY <1>7, <1>11, <2>1, <3>1
  <2>3. n \in 1..c
    BY <1>3, <1>9, <2>2
  <2> QED BY <1>11, <2>1, <2>3
<1>15. /\ top >= 0 => Len(best) = Clip(top, N)
       /\ top < 0 => Len(best) = IF rank = "bm25" THEN Clip(N + top, N) ELSE 0
  BY <1>9, <1>11
<1> QED BY <1>12, <1>13, <1>14, <1>15 DEF BestOf, P, N, best, order

(* What a search keeps of the rows of an engine; only DuckDuckGo's are     *)
(* counted.                                                                *)
RowsKept(a, rows) ==
  /\ Len(rows) \in Nat /\ DOMAIN rows = 1..Len(rows)
  /\ ask[a].engine = "ddg" => Len(rows) <= ask[a].most
  /\ \A i \in DOMAIN rows : rows[i] \in Rows /\ rows[i].leads # "nowhere"

(* The first entries of a list, at most so many.                           *)
LEMMA Clipped ==
  ASSUME NEW S, NEW s \in Seq(S), NEW most \in Nat
  PROVE  LET cut == SubSeq(s, 1, Clip(most, Len(s)))
         IN  /\ cut \in Seq(S) /\ Len(cut) <= most /\ Len(cut) \in Nat /\ DOMAIN cut = 1..Len(cut)
             /\ \A i \in DOMAIN cut : i \in DOMAIN s /\ cut[i] = s[i]
<1>1. Clip(most, Len(s)) \in 0..Len(s) /\ Clip(most, Len(s)) <= most
  BY DEF Clip
<1> DEFINE n == Clip(most, Len(s))
<1>2. n \in 0..Len(s) /\ n <= most
  BY <1>1
<1> HIDE DEF n
<1>3. LET cut == SubSeq(s, 1, n)
      IN  /\ cut \in Seq(S) /\ Len(cut) <= most /\ Len(cut) \in Nat /\ DOMAIN cut = 1..Len(cut)
          /\ \A i \in DOMAIN cut : i \in DOMAIN s /\ cut[i] = s[i]
  BY <1>2
<1> QED BY <1>3 DEF n

(* What either engine keeps leads somewhere, and what DuckDuckGo keeps is  *)
(* no more than asked for.                                                 *)
LEMMA KeptOfRows ==
  ASSUME NEW a, ask[a].most \in Nat, NEW rows \in Seq(Rows)
  PROVE  RowsKept(a, Kept(a, rows))
<1>1. CASE ask[a].engine = "brave"
  <2> DEFINE P == {i \in DOMAIN rows : rows[i].leads # "nowhere"}
             kept == At(rows, P)
  <2>1. Kept(a, rows) = kept /\ P \in SUBSET (1..Len(rows)) /\ Len(rows) \in Nat
    BY <1>1 DEF Kept, Only
  <2>2. Holds(rows, P, kept)
    <3> HIDE DEF P
    <3> QED BY <2>1, PartOf
  <2>3. \A i \in P : rows[i] \in Rows /\ rows[i].leads # "nowhere"
    OBVIOUS
  <2> HIDE DEF P, kept
  <2>4. /\ Len(kept) = Cardinality(P) /\ DOMAIN kept = 1..Cardinality(P) /\ Cardinality(P) \in Nat
        /\ \A n \in 1..Cardinality(P) : \E i \in P : kept[n] = rows[i]
    BY <2>2 DEF Holds
  <2>5. \A n \in DOMAIN kept : kept[n] \in Rows /\ kept[n].leads # "nowhere"
    BY <2>3, <2>4
  <2> QED BY <1>1, <2>1, <2>4, <2>5 DEF RowsKept
<1>2. CASE ask[a].engine # "brave"
  <2> DEFINE P == {i \in DOMAIN rows : rows[i].leads = "page"}
             all == Only(rows, LAMBDA r : r.leads = "page")
  <2>1. all = At(rows, P) /\ P \in SUBSET (1..Len(rows)) /\ Len(rows) \in Nat
    BY DEF Only
  <2>2. Holds(rows, P, all)
    <3> HIDE DEF P, all
    <3> QED BY <2>1, PartOf
  <2>3. \A i \in P : rows[i] \in {r \in Rows : r.leads = "page"}
    OBVIOUS
  <2>4. Kept(a, rows) = SubSeq(all, 1, Clip(ask[a].most, Len(all)))
    BY <1>2 DEF Kept, UpToMost
  <2> HIDE DEF P, all
  <2> DEFINE Leading == {r \in Rows : r.leads = "page"}
  <2>5. all \in Seq(Leading) /\ ask[a].most \in Nat
    BY <2>2, <2>3 DEF Holds
  <2> DEFINE kept == Kept(a, rows)
  <2>6. /\ kept \in Seq(Leading) /\ Len(kept) <= ask[a].most
        /\ Len(kept) \in Nat /\ DOMAIN kept = 1..Len(kept)
    <3> DEFINE most == ask[a].most
    <3> HIDE DEF Leading, most
    <3>1. LET cut == SubSeq(all, 1, Clip(most, Len(all)))
          IN  cut \in Seq(Leading) /\ Len(cut) <= most /\ Len(cut) \in Nat /\ DOMAIN cut = 1..Len(cut)
      BY <2>5, Clipped DEF most
    <3> QED BY <2>4, <3>1 DEF most
  <2> HIDE DEF kept
  <2>7. RowsKept(a, kept)
    BY <2>6 DEF RowsKept
  <2> QED BY <2>7 DEF kept
<1> QED BY <1>1, <1>2

(* RetryIsABonus of one search. *)
Bonus(a) ==
  \/ result[a].is = "error" /\ first[a] # "nothing"
  \/ /\ result[a].is = "rows"
     /\ ask[a].engine = "ddg" => Len(result[a].of) <= ask[a].most
     /\ \A i \in DOMAIN result[a].of :
          result[a].of[i].leads # "nowhere" /\ (ask[a].screened => ~result[a].of[i].tainted)

(* The rows that are served are the rows kept, screened. *)
LEMMA RowsServed ==
  ASSUME NEW a, NEW rows, RowsKept(a, rows)
  PROVE  LET r == Screened(a, rows) IN
         /\ ask[a].engine = "ddg" => Len(r) <= ask[a].most
         /\ \A i \in DOMAIN r : r[i].leads # "nowhere" /\ (ask[a].screened => ~r[i].tainted)
<1> DEFINE r == Screened(a, rows)
<1>1. DOMAIN r = 1..Len(rows) /\ r \in Seq(Rows) /\ Len(r) = Len(rows)
  <2>1. r \in [1..Len(rows) -> Rows]
    BY DEF Screened, RowsKept, Rows
  <2> HIDE DEF r
  <2> QED BY <2>1 DEF RowsKept
<1>2. ASSUME NEW i \in DOMAIN r
      PROVE  r[i].leads # "nowhere" /\ (ask[a].screened => ~r[i].tainted)
  <2>1. i \in DOMAIN rows /\ rows[i] \in Rows /\ rows[i].leads # "nowhere"
    BY DEF Screened, RowsKept
  <2>2. r[i] = IF ask[a].screened THEN [rows[i] EXCEPT !.tainted = FALSE] ELSE rows[i]
    BY <2>1 DEF Screened
  <2> QED BY <2>1, <2>2 DEF Rows
<1> QED BY <1>1, <1>2 DEF RowsKept

AskShape ==
  /\ ask \in [Asks -> AskJobs]
  /\ where = [a \in Asks |-> where[a]] /\ nth = [a \in Asks |-> nth[a]]
  /\ first = [a \in Asks |-> first[a]] /\ ready = [a \in Asks |-> ready[a]]
  /\ tried = [a \in Asks |-> tried[a]] /\ text = [a \in Asks |-> text[a]]
  /\ result = [a \in Asks |-> result[a]]

Outcomes ==
  {"skipped", "text", "cut", "empty", "refusal", "max_tokens", "error", "timeout", "exit",
   "no_success", "malformed"}
Texts == {"text", "cut"}

(* How far an answer came: each provider before the next one was skipped   *)
(* or gave no text, and what the first one lacked is remembered.           *)
Trying(a) ==
  /\ nth[a] \in Nat \ {0} /\ nth[a] <= Len(Chain(a)) + 1
  /\ tried[a] \in Seq(Outcomes) /\ Len(tried[a]) = nth[a] - 1
  /\ \A i \in 1..Len(tried[a]) : tried[a][i] \notin Texts
  /\ ready[a] <=> \E i \in 1..Len(tried[a]) : tried[a][i] # "skipped"
  /\ first[a] = IF nth[a] = 1 THEN "none" ELSE Chain(a)[1].lacks

(* AnswerIsServed of one answer. *)
AnswerServed(a) ==
  LET r == result[a] IN
  \/ /\ r.is = "answer"
     /\ Len(tried[a]) = r.by /\ tried[a][r.by] \in Texts
     /\ ~\E i \in 1..(r.by - 1) : tried[a][i] \in Texts
     /\ r.fellBack = (r.by # 1)
  \/ /\ r.is = "error"
     /\ ~\E i \in DOMAIN tried[a] : tried[a][i] \in Texts
     /\ AnyAsked(a) => r.code = "answer_failed"
     /\ r.code = "answer_failed" => AnyAsked(a) \/ text[a] = <<>>
     /\ r.code \in Lacks =>
          /\ Len(tried[a]) = Len(Chain(a))
          /\ r.code = IF Chain(a) = <<>> THEN "answer_not_configured" ELSE Chain(a)[1].lacks

AnswerGood(a) ==
  Op(a) = "answer" =>
    /\ where[a] \in {"start", "provider", "done"}
    /\ where[a] # "done" => Trying(a)
    /\ where[a] = "start" => nth[a] = 1
    /\ where[a] = "done" => AnswerServed(a)
ExtractGood(a) ==
  Op(a) = "extract" =>
    /\ where[a] \in {"start", "rank", "done"} /\ text[a] \in Pages
    /\ where[a] = "done" /\ result[a].is = "passages" =>
         BestOf(ask[a].rank, text[a], ask[a].top, result[a].of)
SearchGood(a) ==
  Op(a) = "search" =>
    /\ where[a] \in {"start", "search", "done"}
    /\ where[a] = "start" => first[a] = "none"
    /\ where[a] = "done" => Bonus(a)
AskGood(a) == AnswerGood(a) /\ ExtractGood(a) /\ SearchGood(a)

AskInv == AskShape /\ \A a \in Asks : AskGood(a)

SameAsk(a) ==
  /\ ask'[a] = ask[a] /\ where'[a] = where[a] /\ nth'[a] = nth[a] /\ first'[a] = first[a]
  /\ ready'[a] = ready[a] /\ tried'[a] = tried[a] /\ text'[a] = text[a] /\ result'[a] = result[a]

LEMMA AskFrame ==
  ASSUME AskInv, NEW a \in Asks, AskShape', \A b \in Asks \ {a} : SameAsk(b), AskGood(a)'
  PROVE  AskInv'
<1>1. ASSUME NEW b \in Asks, SameAsk(b) PROVE AskGood(b)'
  <2>1. AskGood(b)
    BY DEF AskInv
  <2>2. AnswerGood(b)'
    BY <1>1, <2>1 DEF AskGood, AnswerGood, SameAsk, Trying, AnswerServed, AnyAsked, Op, Chain
  <2>3. ExtractGood(b)'
    BY <1>1, <2>1 DEF AskGood, ExtractGood, SameAsk, BestOf, Op
  <2>4. SearchGood(b)'
    BY <1>1, <2>1 DEF AskGood, SearchGood, SameAsk, Bonus, Op
  <2> QED BY <2>2, <2>3, <2>4 DEF AskGood
<1> QED BY <1>1 DEF AskInv

(* Every step changes the entries of one call, and never what it asks. *)
LEMMA AskStepShape ==
  ASSUME AskInv, NEW a \in Asks, AskStep(a)
  PROVE  AskShape' /\ \A b \in Asks \ {a} : SameAsk(b)
<1> USE DEF AskInv, AskShape, SameAsk
<1>1. CASE Refuse(a) \/ FetchFails(a) \/ FetchPage(a)
  BY <1>1 DEF Refuse, FetchFails, FetchPage, Concludes, Moves
<1>2. CASE NothingToAnswer(a) \/ NotConfigured(a) \/ NobodyAnswers(a) \/ RankPassages(a)
  BY <1>2 DEF NothingToAnswer, NotConfigured, NobodyAnswers, RankPassages, Concludes, Moves
<1>3. CASE Skip(a)
  BY <1>3 DEF Skip, Asking
<1>4. CASE Provide(a)
  BY <1>4 DEF Provide, Asking, Concludes, Moves
<1>5. CASE OpenSearch(a)
  BY <1>5 DEF OpenSearch, Concludes, Moves
<1>6. CASE SearchAnswers(a) \/ SearchFails(a)
  BY <1>6 DEF SearchAnswers, SearchFails, Served, Retry, Concludes, Moves
<1> QED BY <1>1, <1>2, <1>3, <1>4, <1>5, <1>6 DEF AskStep

LEMMA Appended ==
  ASSUME NEW s \in Seq(Outcomes), NEW e \in Outcomes
  PROVE  /\ Append(s, e) \in Seq(Outcomes) /\ Len(Append(s, e)) = Len(s) + 1 /\ Len(s) \in Nat
         /\ Append(s, e)[Len(s) + 1] = e
         /\ \A i \in 1..Len(s) : Append(s, e)[i] = s[i]
         /\ \A i \in 1..Len(Append(s, e)) : i \in 1..Len(s) \/ i = Len(s) + 1
         /\ DOMAIN Append(s, e) = 1..(Len(s) + 1) /\ DOMAIN s = 1..Len(s)
OBVIOUS

(* A provider that has replied, or was skipped, is behind. *)
LEMMA AnswerGoesOn ==
  ASSUME AskInv, NEW a \in Asks, Op(a) = "answer", Asking(a), AskShape', ask' = ask,
         NEW e \in Outcomes \ Texts, tried'[a] = Append(tried[a], e),
         nth'[a] = nth[a] + 1, where'[a] = where[a],
         ready'[a] <=> ready[a] \/ e # "skipped"
  PROVE  AnswerGood(a)'
<1>1. where[a] = "provider" /\ Trying(a) /\ nth[a] <= Len(Chain(a))
  BY DEF AskInv, AskGood, AnswerGood, Asking
<1>2. first'[a] = IF first[a] = "none" THEN Chain(a)[nth[a]].lacks ELSE first[a]
  BY DEF Asking, Provider, AskInv, AskShape
<1>3. /\ Chain(a)' = Chain(a) /\ Op(a)' = Op(a)
  BY DEF Chain, Op
<1>4. Chain(a) \in Seq(Providers)
  BY DEF AskInv, AskShape, AskJobs, Op, Chain
<1>5. Chain(a)[1].lacks # "none"
  <2>1. 1 \in 1..Len(Chain(a)) /\ Chain(a)[1] \in Providers
    BY <1>1, <1>4 DEF Trying
  <2> QED BY <2>1 DEF Providers, Lacks
<1>6. first'[a] = Chain(a)[1].lacks
  BY <1>1, <1>2, <1>5 DEF Trying
<1>7. nth'[a] \in Nat \ {0} /\ nth'[a] # 1 /\ nth'[a] <= Len(Chain(a)) + 1
  BY <1>1, <1>4 DEF Trying
<1>8. /\ tried'[a] \in Seq(Outcomes) /\ Len(tried'[a]) = nth'[a] - 1
      /\ \A i \in 1..Len(tried'[a]) : tried'[a][i] \notin Texts
      /\ ready'[a] <=> \E i \in 1..Len(tried'[a]) : tried'[a][i] # "skipped"
  <2>1. tried[a] \in Seq(Outcomes) /\ Len(tried[a]) = nth[a] - 1 /\ nth[a] \in Nat
    BY <1>1 DEF Trying
  <2>2. \A i \in 1..Len(tried'[a]) :
          (i \in 1..Len(tried[a]) /\ tried'[a][i] = tried[a][i]) \/ tried'[a][i] = e
    BY <2>1, Appended
  <2>3. /\ tried'[a] \in Seq(Outcomes) /\ Len(tried'[a]) = nth'[a] - 1
        /\ tried'[a][nth[a]] = e /\ nth[a] \in 1..Len(tried'[a])
        /\ \A i \in 1..Len(tried[a]) : i \in 1..Len(tried'[a]) /\ tried'[a][i] = tried[a][i]
    BY <2>1, Appended
  <2>4. \A i \in 1..Len(tried'[a]) : tried'[a][i] \notin Texts
    BY <1>1, <2>2 DEF Trying
  <2>5. ready'[a] <=> \E i \in 1..Len(tried'[a]) : tried'[a][i] # "skipped"
    BY <1>1, <2>2, <2>3 DEF Trying
  <2> QED BY <2>3, <2>4, <2>5
<1> QED BY <1>1, <1>3, <1>6, <1>7, <1>8 DEF AnswerGood, Trying

LEMMA AnswerStep ==
  ASSUME AskInv, NEW a \in Asks, AskStep(a), AskShape'
  PROVE  AnswerGood(a)'
<1> SUFFICES ASSUME Op(a) = "answer" PROVE AnswerGood(a)'
  BY DEF AskStep, Refuse, FetchFails, FetchPage, NothingToAnswer, NotConfigured, Skip, Provide,
         NobodyAnswers, RankPassages, OpenSearch, SearchAnswers, SearchFails, AnswerGood, Op
<1>1. where[a] \in {"start", "provider", "done"} /\ (where[a] # "done" => Trying(a))
      /\ (where[a] = "start" => nth[a] = 1)
  BY DEF AskInv, AskGood, AnswerGood
<1>2. Chain(a) \in Seq(Providers)
  BY DEF AskInv, AskShape, AskJobs, Op, Chain
<1>3. CASE FetchPage(a)
  <2>1. where'[a] = "provider" /\ Trying(a)
    BY <1>1, <1>3 DEF FetchPage, Moves, AskInv, AskShape
  <2> QED BY <1>3, <2>1 DEF FetchPage, AnswerGood, Trying, Op, Chain
<1>4. CASE FetchFails(a) \/ NothingToAnswer(a) \/ NotConfigured(a) \/ NobodyAnswers(a)
  <2>1. /\ UNCHANGED <<ask, nth, first, ready, tried, text>> /\ Trying(a) /\ where'[a] = "done"
    BY <1>1, <1>4 DEF FetchFails, NothingToAnswer, NotConfigured, NobodyAnswers, Concludes, Moves,
                      AskInv, AskShape
  <2>2. PICK code : /\ result'[a] = Error(code)
                    /\ \/ code = "failure" /\ nth[a] = 1
                       \/ code = "answer_failed" /\ text[a] = <<>>
                       \/ code = "answer_not_configured" /\ Chain(a) = <<>>
                       \/ code = "answer_failed" /\ ready[a]
                       \/ code = first[a] /\ ~ready[a] /\ nth[a] > Len(Chain(a)) /\ Chain(a) # <<>>
    <3>1. CASE FetchFails(a) \/ NothingToAnswer(a) \/ NotConfigured(a)
      BY <1>1, <3>1 DEF FetchFails, NothingToAnswer, NotConfigured, Concludes, AskInv, AskShape
    <3>2. CASE NobodyAnswers(a)
      BY <3>2 DEF NobodyAnswers, Concludes, AskInv, AskShape
    <3> QED BY <1>4, <3>1, <3>2
  <2>3. /\ DOMAIN tried[a] = 1..(nth[a] - 1) /\ Len(tried[a]) = nth[a] - 1
        /\ nth[a] \in Nat /\ nth[a] >= 1 /\ nth[a] <= Len(Chain(a)) + 1 /\ Len(Chain(a)) \in Nat
        /\ Chain(a) = <<>> <=> Len(Chain(a)) = 0
    BY <1>2, <2>1 DEF Trying
  <2>4. ready[a] <=> AnyAsked(a)
    BY <2>1, <2>3 DEF Trying, AnyAsked
  <2>5. ~\E i \in DOMAIN tried[a] : tried[a][i] \in Texts
    BY <2>1, <2>3 DEF Trying
  <2>6. /\ AnyAsked(a) => code = "answer_failed"
        /\ code = "answer_failed" => AnyAsked(a) \/ text[a] = <<>>
        /\ code \in Lacks =>
             /\ Len(tried[a]) = Len(Chain(a))
             /\ code = IF Chain(a) = <<>> THEN "answer_not_configured" ELSE Chain(a)[1].lacks
    <3>1. CASE code = "failure" /\ nth[a] = 1
      BY <2>3, <3>1 DEF AnyAsked, Lacks
    <3>2. CASE code = "answer_failed" /\ (text[a] = <<>> \/ ready[a])
      BY <2>4, <3>2 DEF Lacks
    <3>3. CASE code = "answer_not_configured" /\ Chain(a) = <<>>
      BY <2>3, <3>3 DEF AnyAsked
    <3>4. CASE code = first[a] /\ ~ready[a] /\ nth[a] > Len(Chain(a)) /\ Chain(a) # <<>>
      <4>1. nth[a] # 1 /\ Len(tried[a]) = Len(Chain(a)) /\ code = Chain(a)[1].lacks
        BY <2>1, <2>3, <3>4 DEF Trying
      <4>2. code # "answer_failed"
        <5>1. Chain(a)[1] \in Providers
          BY <1>2, <2>3, <3>4
        <5> QED BY <4>1, <5>1 DEF Providers, Lacks
      <4> QED BY <2>4, <3>4, <4>1, <4>2
    <3> QED BY <2>2, <3>1, <3>2, <3>3, <3>4
  <2>7. AnswerServed(a)'
    BY <2>1, <2>2, <2>5, <2>6 DEF AnswerServed, Error, Chain, AnyAsked
  <2> QED BY <2>1, <2>7 DEF AnswerGood, Op
<1>5. CASE Skip(a)
  <2>1. Trying(a) /\ tried'[a] = Append(tried[a], "skipped") /\ nth'[a] = nth[a] + 1
        /\ Asking(a) /\ UNCHANGED <<ask, where, ready>>
    BY <1>1, <1>5 DEF Skip, Asking, AskInv, AskShape
  <2>2. "skipped" \in Outcomes \ Texts
    BY DEF Outcomes, Texts
  <2>3. ready'[a] <=> ready[a]
    BY <2>1
  <2> QED BY <2>1, <2>2, <2>3, AnswerGoesOn
<1>6. CASE Provide(a)
  <2>1. PICK reply \in Replies(Provider(a).kind) :
          /\ tried' = [tried EXCEPT ![a] = Append(@, reply)]
          /\ \/ /\ Usable(reply)
                /\ Concludes(a, [is |-> "answer", by |-> nth[a], fellBack |-> nth[a] > 1])
                /\ UNCHANGED nth
             \/ /\ ~Usable(reply)
                /\ nth' = [nth EXCEPT ![a] = @ + 1]
                /\ UNCHANGED <<where, result>>
    BY <1>6 DEF Provide
  <2>2. /\ Asking(a) /\ ask' = ask /\ ready'[a] = TRUE /\ tried'[a] = Append(tried[a], reply)
        /\ Trying(a)
    BY <1>1, <1>6, <2>1 DEF Provide, Asking, AskInv, AskShape
  <2>3. reply \in Outcomes \ {"skipped"}
    <3>1. Provider(a).kind \in {"claude", "claude_cli", "deepseek"}
      <4>1. nth[a] \in 1..Len(Chain(a)) /\ Provider(a) \in Providers
        BY <1>2, <2>2 DEF Provider, Trying, Asking
      <4> QED BY <4>1 DEF Providers
    <3> QED BY <3>1 DEF Replies, Outcomes
  <2>4. CASE Usable(reply)
    <3>1. /\ reply \in Texts /\ nth'[a] = nth[a] /\ where'[a] = "done"
          /\ result'[a] = [is |-> "answer", by |-> nth[a], fellBack |-> nth[a] > 1]
      BY <2>1, <2>4 DEF Usable, Texts, Concludes, Moves, AskInv, AskShape
    <3>2. nth[a] \in Nat \ {0} /\ tried[a] \in Seq(Outcomes) /\ Len(tried[a]) = nth[a] - 1
      BY <2>2 DEF Trying
    <3>3. /\ tried'[a][nth[a]] \in Texts /\ Len(tried'[a]) = nth[a]
          /\ \A i \in 1..(nth[a] - 1) : tried'[a][i] = tried[a][i]
      BY <2>2, <2>3, <3>1, <3>2, Appended
    <3>4. ~\E i \in 1..(nth[a] - 1) : tried'[a][i] \in Texts
      BY <2>2, <3>2, <3>3 DEF Trying
    <3>5. (nth[a] > 1) = (nth[a] # 1)
      BY <3>2
    <3>6. AnswerServed(a)'
      BY <3>1, <3>3, <3>4, <3>5 DEF AnswerServed
    <3> QED BY <3>1, <3>6 DEF AnswerGood
  <2>5. CASE ~Usable(reply)
    <3>1. /\ nth'[a] = nth[a] + 1 /\ where'[a] = where[a] /\ reply \in Outcomes \ Texts
      BY <2>1, <2>3, <2>5 DEF Usable, Texts, AskInv, AskShape
    <3>2. ready'[a] <=> ready[a] \/ reply # "skipped"
      BY <2>2, <2>3
    <3> QED BY <2>2, <3>1, <3>2, AnswerGoesOn
  <2> QED BY <2>4, <2>5
<1>7. ~Refuse(a) /\ ~RankPassages(a) /\ ~OpenSearch(a) /\ ~SearchAnswers(a) /\ ~SearchFails(a)
  BY <1>1 DEF Refuse, Refused, RankPassages, OpenSearch, SearchAnswers, SearchFails
<1> QED BY <1>3, <1>4, <1>5, <1>6, <1>7 DEF AskStep

(* What an extract does: it is refused, or fails, or ranks the page it got. *)
LEMMA ExtractStep ==
  ASSUME AskInv, NEW a \in Asks, AskStep(a), AskShape'
  PROVE  ExtractGood(a)'
<1> SUFFICES ASSUME Op(a) = "extract" PROVE ExtractGood(a)'
  BY DEF AskStep, Refuse, FetchFails, FetchPage, NothingToAnswer, NotConfigured, Skip, Provide,
         NobodyAnswers, RankPassages, OpenSearch, SearchAnswers, SearchFails, ExtractGood, Op
<1>1. where[a] \in {"start", "rank", "done"} /\ text[a] \in Pages
  BY DEF AskInv, AskGood, ExtractGood
<1>2. ask[a].page \in Pages /\ ask[a].top \in Int
  BY DEF AskInv, AskShape, AskJobs, Op
<1>3. CASE Refuse(a) \/ FetchFails(a)
  <2>1. UNCHANGED <<ask, text>> /\ where'[a] = "done" /\ result'[a].is = "error"
    BY <1>3 DEF Refuse, FetchFails, Concludes, Moves, Error, AskInv, AskShape
  <2> QED BY <1>1, <2>1 DEF ExtractGood
<1>4. CASE FetchPage(a)
  <2>1. where'[a] = "rank" /\ text'[a] = ask[a].page
    BY <1>4 DEF FetchPage, Moves, AskInv, AskShape
  <2> QED BY <1>2, <2>1 DEF ExtractGood
<1>5. CASE RankPassages(a)
  <2>1. /\ UNCHANGED <<ask, text>> /\ where'[a] = "done"
        /\ \/ result'[a].of = TopOf(ask[a].rank, Ranked(ask[a].rank, text[a]), ask[a].top)
           \/ result'[a].is = "error"
    BY <1>5 DEF RankPassages, Concludes, Moves, Error, AskInv, AskShape
  <2>2. result'[a].is = "passages" =>
          BestOf(ask[a].rank, text[a], ask[a].top, result'[a].of)
    BY <1>1, <1>2, <2>1, BestAreFirst
  <2> QED BY <1>1, <2>1, <2>2 DEF ExtractGood
<1> QED BY <1>1, <1>3, <1>4, <1>5
        DEF AskStep, NothingToAnswer, NotConfigured, Asking, Skip, Provide, NobodyAnswers,
            OpenSearch, SearchAnswers, SearchFails

(* What a search does: rows are served, or an error when no attempt was    *)
(* answered.                                                               *)
LEMMA SearchStep ==
  ASSUME AskInv, NEW a \in Asks, AskStep(a), AskShape'
  PROVE  SearchGood(a)'
<1> SUFFICES ASSUME Op(a) = "search" PROVE SearchGood(a)'
  BY DEF AskStep, Refuse, FetchFails, FetchPage, NothingToAnswer, NotConfigured, Skip, Provide,
         NobodyAnswers, RankPassages, OpenSearch, SearchAnswers, SearchFails, SearchGood, Op
<1>1. where[a] \in {"start", "search", "done"} /\ (where[a] = "start" => first[a] = "none")
  BY DEF AskInv, AskGood, SearchGood
<1>2. ask[a].most \in Nat
  BY DEF AskInv, AskShape, AskJobs, Op
<1>3. CASE OpenSearch(a)
  <2>1. \/ where'[a] = "search"
        \/ where'[a] = "done" /\ result'[a].is = "error" /\ first'[a] = "none"
    BY <1>1, <1>3 DEF OpenSearch, Concludes, Moves, Error, AskInv, AskShape
  <2> QED BY <2>1 DEF SearchGood, Bonus
<1>4. ASSUME NEW rows, RowsKept(a, rows), Served(a, rows), ask' = ask
      PROVE  SearchGood(a)'
  <2>1. where'[a] = "done" /\ result'[a] = [is |-> "rows", of |-> Screened(a, rows)]
    BY <1>4 DEF Served, Concludes, Moves, AskInv, AskShape
  <2>2. Bonus(a)'
    BY <1>4, <2>1, RowsServed DEF Bonus
  <2> QED BY <2>1, <2>2 DEF SearchGood
<1>5. ASSUME NEW why, Retry(a, why), where[a] = "search"
      PROVE  SearchGood(a)'
  BY <1>5 DEF Retry, SearchGood
<1>6. CASE SearchAnswers(a)
  <2>1. PICK rows \in Found :
          \/ Served(a, Kept(a, rows))
          \/ Retry(a, "nothing")
    BY <1>6 DEF SearchAnswers
  <2>2. RowsKept(a, Kept(a, rows)) /\ ask' = ask /\ where[a] = "search"
    BY <1>2, <1>6, FoundAssumption, KeptOfRows DEF SearchAnswers
  <2> QED BY <1>4, <1>5, <2>1, <2>2
<1>7. CASE SearchFails(a)
  <2>1. /\ ask' = ask /\ where[a] = "search"
        /\ \/ Retry(a, "error")
           \/ Served(a, <<>>)
           \/ first[a] # "nothing" /\ Concludes(a, Error("raised")) /\ first' = first
    BY <1>7 DEF SearchFails
  <2>2. RowsKept(a, <<>>)
    BY <1>2 DEF RowsKept
  <2>3. CASE first[a] # "nothing" /\ Concludes(a, Error("raised")) /\ first' = first
    <3>1. where'[a] = "done" /\ result'[a].is = "error" /\ first'[a] # "nothing"
      BY <2>3 DEF Concludes, Moves, Error, AskInv, AskShape
    <3> QED BY <3>1 DEF SearchGood, Bonus
  <2> QED BY <1>4, <1>5, <2>1, <2>2, <2>3
<1> QED BY <1>1, <1>3, <1>6, <1>7
        DEF AskStep, Refuse, Refused, FetchFails, FetchPage, NothingToAnswer, NotConfigured,
            Asking, Skip, Provide, NobodyAnswers, RankPassages

(* No call has begun at first.                                             *)
LEMMA AskInitially ==
  ASSUME AskInit PROVE AskInv
<1>1. AskShape
  BY AskMixesAssumption DEF AskInit, AskShape
<1>2. ASSUME NEW a \in Asks, Op(a) = "answer" PROVE Trying(a)
  <2>1. Chain(a) \in Seq(Providers) /\ tried[a] = <<>> /\ nth[a] = 1 /\ first[a] = "none"
        /\ ready[a] = FALSE
    BY <1>1, <1>2 DEF AskShape, AskJobs, Op, Chain, AskInit
  <2> QED BY <2>1 DEF Trying
<1>3. ASSUME NEW a \in Asks PROVE ExtractGood(a) /\ SearchGood(a)
  <2>1. where[a] = "start" /\ text[a] = <<>> /\ first[a] = "none"
    BY DEF AskInit
  <2> QED BY <2>1 DEF ExtractGood, SearchGood, Pages
<1> QED BY <1>1, <1>2, <1>3 DEF AskInit, AskInv, AskGood, AnswerGood

(* The invariant of the calls holds always. *)
LEMMA AskInvariance == Spec => []AskInv
<1>1. Init => AskInv
  BY AskInitially DEF Init
<1>2. AskInv /\ [Next]_vars => AskInv'
  <2>1. AskInv /\ UNCHANGED askVars => AskInv'
    <3> SUFFICES ASSUME AskInv, UNCHANGED askVars PROVE AskInv'
      OBVIOUS
    <3>1. AskShape'
      BY DEF askVars, AskInv, AskShape
    <3>2. ASSUME NEW a \in Asks PROVE AskGood(a)'
      <4>1. AskGood(a) /\ SameAsk(a)
        BY DEF AskInv, SameAsk, askVars
      <4>2. AnswerGood(a)'
        BY <4>1 DEF AskGood, AnswerGood, SameAsk, Trying, AnswerServed, AnyAsked, Op, Chain
      <4>3. ExtractGood(a)'
        BY <4>1 DEF AskGood, ExtractGood, SameAsk, BestOf, Op
      <4>4. SearchGood(a)'
        BY <4>1 DEF AskGood, SearchGood, SameAsk, Bonus, Op
      <4> QED BY <4>2, <4>3, <4>4 DEF AskGood
    <3> QED BY <3>1, <3>2 DEF AskInv
  <2>2. AskInv /\ AskNext => AskInv'
    <3> SUFFICES ASSUME AskInv, NEW a \in Asks, AskStep(a) PROVE AskInv'
      BY DEF AskNext
    <3>1. AskShape' /\ \A b \in Asks \ {a} : SameAsk(b)
      BY AskStepShape
    <3>2. AskGood(a)'
      BY <3>1, AnswerStep, ExtractStep, SearchStep DEF AskGood
    <3> QED BY <3>1, <3>2, AskFrame
  <2>3. [Next]_vars => AskNext \/ UNCHANGED askVars
    BY Zenon DEF Next, vars
  <2> QED BY <2>1, <2>2, <2>3
<1> QED BY <1>1, <1>2, PTL DEF Spec

(* Beside AskShape, where each call is, and what it has come to.           *)
AskKinds ==
  /\ where \in [Asks -> {"start", "provider", "rank", "search", "done"}]
  /\ nth \in [Asks -> Nat \ {0}]
  /\ first \in [Asks -> Lacks \union {"none", "nothing", "error"}]
  /\ ready \in [Asks -> BOOLEAN]
  /\ text \in [Asks -> Pages]

(* A provider that is asked is one of the chain's. *)
LEMMA ProviderIsOne ==
  ASSUME AskInv, AskKinds, NEW a \in Asks, Asking(a)
  PROVE  Op(a) = "answer" /\ Provider(a).lacks \in Lacks \union {"nothing"}
<1>1. AskGood(a) /\ where[a] = "provider" /\ nth[a] \in Nat \ {0} /\ nth[a] <= Len(Chain(a))
  BY DEF AskInv, Asking, AskKinds
<1>2. ask[a] \in AskJobs /\ Op(a) = "answer"
  <2>1. ask[a] \in AskJobs
    BY DEF AskInv, AskShape
  <2>2. Op(a) \in {"answer", "extract", "search"}
    BY <2>1 DEF AskJobs, Op
  <2> QED BY <1>1, <2>1, <2>2 DEF AskGood, ExtractGood, SearchGood
<1>3. Chain(a) \in Seq(Providers)
  BY <1>2 DEF AskJobs, Op, Chain
<1>4. Provider(a) \in Providers
  BY <1>1, <1>3 DEF Provider
<1> QED BY <1>2, <1>4 DEF Providers

(* A call that reads a page reads one of those it may be given. *)
LEMMA PageIsRead ==
  ASSUME AskInv, NEW a \in Asks, FetchPage(a)
  PROVE  ask[a].page \in Pages
<1>1. ask[a] \in AskJobs /\ Op(a) # "search"
  BY DEF AskInv, AskShape, FetchPage
<1> QED BY <1>1 DEF AskJobs, Op

LEMMA AskKindsKept ==
  ASSUME AskInv, AskKinds, NEW a \in Asks, AskStep(a)
  PROVE  AskKinds'
<1> USE DEF AskKinds
<1>1. CASE Refuse(a) \/ FetchFails(a)
  BY <1>1 DEF Refuse, FetchFails, Concludes, Moves
<1>2. CASE FetchPage(a)
  BY <1>2, PageIsRead DEF FetchPage, Moves
<1>3. CASE NothingToAnswer(a) \/ NotConfigured(a) \/ NobodyAnswers(a) \/ RankPassages(a)
  BY <1>3 DEF NothingToAnswer, NotConfigured, NobodyAnswers, RankPassages, Concludes, Moves
<1>4. CASE Skip(a)
  <2>1. Provider(a).lacks \in Lacks \union {"nothing"}
    BY <1>4, ProviderIsOne DEF Skip
  <2> QED BY <1>4, <2>1 DEF Skip, Asking
<1>5. CASE Provide(a)
  <2>1. Provider(a).lacks \in Lacks \union {"nothing"}
    BY <1>5, ProviderIsOne DEF Provide
  <2>2. first' \in [Asks -> Lacks \union {"none", "nothing", "error"}] /\ text' = text
    BY <1>5, <2>1 DEF Provide, Asking
  <2>3. ready' \in [Asks -> BOOLEAN]
    BY <1>5 DEF Provide
  <2>4. /\ nth' \in [Asks -> Nat \ {0}]
        /\ where' \in [Asks -> {"start", "provider", "rank", "search", "done"}]
    <3>1. (nth' = nth \/ nth' = [nth EXCEPT ![a] = @ + 1]) /\ (where' = where \/ Moves(a, "done"))
      BY <1>5 DEF Provide, Concludes
    <3> QED BY <3>1 DEF Moves
  <2> QED BY <2>2, <2>3, <2>4
<1>6. CASE OpenSearch(a)
  BY <1>6 DEF OpenSearch, Concludes, Moves
<1>7. CASE SearchAnswers(a) \/ SearchFails(a)
  <2>1. UNCHANGED <<ready, text>>
    BY <1>7 DEF SearchAnswers, SearchFails
  <2>2. /\ nth' \in [Asks -> Nat \ {0}]
        /\ where' \in [Asks -> {"start", "provider", "rank", "search", "done"}]
        /\ first' \in [Asks -> Lacks \union {"none", "nothing", "error"}]
    <3>1. /\ nth' = nth \/ nth' = [nth EXCEPT ![a] = 2]
          /\ where' = where \/ Moves(a, "done")
          /\ first' = first \/ \E why \in {"nothing", "error"} : first' = [first EXCEPT ![a] = why]
      BY <1>7 DEF SearchAnswers, SearchFails, Served, Retry, Concludes
    <3> QED BY <3>1 DEF Moves
  <2> QED BY <2>1, <2>2
<1> QED BY <1>1, <1>2, <1>3, <1>4, <1>5, <1>6, <1>7 DEF AskStep

(* The variables of the answers, extracts and searches keep their types,   *)
(* and what is asked of a call never changes.                              *)
THEOREM AskTypes == Spec => []AskTypeOK
<1>1. Init => AskKinds
  <2> SUFFICES ASSUME AskInit PROVE AskKinds
    BY DEF Init
  <2>1. <<>> \in Pages
    BY DEF Pages
  <2> QED BY <2>1 DEF AskInit, AskKinds
<1>2. AskInv /\ AskKinds /\ [Next]_vars => AskKinds'
  <2>1. [Next]_vars => AskNext \/ UNCHANGED askVars
    BY Zenon DEF Next, vars
  <2>2. AskKinds /\ UNCHANGED askVars => AskKinds'
    BY DEF askVars, AskKinds
  <2> QED BY <2>1, <2>2, AskKindsKept DEF AskNext
<1>3. AskInv /\ AskKinds => AskTypeOK
  BY DEF AskInv, AskShape, AskKinds, AskTypeOK
<1> QED BY <1>1, <1>2, <1>3, AskInvariance, PTL DEF Spec

(* However many providers there are and whatever they reply, an answer is  *)
(* by the first that gave a text, which two of the three clients do not    *)
(* look at for a cut, and says whether it is a fallback's.  An error is    *)
(* answer_failed once anyone was asked, and otherwise only of an empty     *)
(* page; one that names a missing piece names the first provider's, after  *)
(* the whole chain was looked at (_generate, answer).                      *)
THEOREM ServedAnswers == Spec => []AnswerIsServed
<1>1. AskInv => AnswerIsServed
  BY DEF AskInv, AskGood, AnswerGood, AnswerServed, Texts, AnswerIsServed
<1> QED BY <1>1, AskInvariance, PTL

(* Whatever the scores are, ties included, an extract returns the best     *)
(* passages that match, each once, and as many as asked for or as there    *)
(* are; a negative number is counted from the end by words and is none by  *)
(* meaning (_rank_bm25, _rank_semantic).                                   *)
THEOREM BestPassages == Spec => []PassagesAreBest
<1>1. AskInv => PassagesAreBest
  BY DEF AskInv, AskGood, ExtractGood, BestOf, Hits, PassagesAreBest
<1> QED BY <1>1, AskInvariance, PTL

(* A search whose first attempt was answered with nothing does not fail    *)
(* with the second one, and whatever an engine answers, the rows served    *)
(* lead somewhere and are screened; DuckDuckGo's are no more than asked    *)
(* for, Brave's as many as it sent (_search_ddg, _search_brave).           *)
THEOREM BonusRetry == Spec => []RetryIsABonus
<1>1. AskInv => RetryIsABonus
  BY DEF AskInv, AskGood, SearchGood, Bonus, RetryIsABonus
<1> QED BY <1>1, AskInvariance, PTL

-----------------------------------------------------------------------------
(***************************************************************************)
(* The adapters.                                                           *)
(***************************************************************************)
LEMMA EachIdOnce ==
  ASSUME NEW page, Parsed(page.cards)
  PROVE  EachOnce(page, FirstOfEach(page.cards))
<1> DEFINE cards == page.cards
           P == {i \in DOMAIN cards : /\ cards[i].id # 0
                                      /\ \A j \in 1..(i - 1) : cards[j].id # cards[i].id}
           found == FirstOfEach(cards)
<1>1. /\ Len(cards) \in Nat /\ DOMAIN cards = 1..Len(cards) /\ P \in SUBSET (1..Len(cards))
      /\ found = At(cards, P)
  BY DEF Parsed, FirstOfEach
<1> HIDE DEF found
<1>2. /\ IsFiniteSet(P) /\ Len(found) = Cardinality(P)
      /\ \A i \in P : \E n \in DOMAIN found : found[n] = cards[i]
      /\ \A n \in DOMAIN found : \E i \in P : found[n] = cards[i]
  <2> HIDE DEF P
  <2>1. Holds(cards, P, At(cards, P))
    BY <1>1, PartOf
  <2> QED BY <1>1, <2>1 DEF Holds
<1>3. Ids(found) = {cards[i].id : i \in P}
  <2> HIDE DEF P
  <2> QED BY <1>2 DEF Ids
<1>4. {cards[i].id : i \in P} = Ids(cards) \ {0}
  <2>1. ASSUME NEW v \in Ids(cards) \ {0} PROVE v \in {cards[i].id : i \in P}
    <3> DEFINE Q == {i \in DOMAIN cards : cards[i].id = v}
    <3>1. Len(cards) \in Nat /\ DOMAIN cards = 1..Len(cards)
      BY <1>1
    <3>2. Q # {} /\ Q \in SUBSET (1..Len(cards))
      BY <2>1, <3>1 DEF Ids
    <3>3. PICK i \in Q : \A j \in Q : i <= j
      <4> HIDE DEF Q
      <4> QED BY <3>1, <3>2, FirstPlace
    <3>4. \A j \in 1..(i - 1) : j \notin Q /\ j \in DOMAIN cards
      BY <3>1, <3>2, <3>3
    <3>5. i \in P
      BY <2>1, <3>4
    <3> QED BY <3>5
  <2> QED BY <2>1 DEF Ids
<1>5. Cardinality({cards[i].id : i \in P}) = Cardinality(P)
  <2> DEFINE f == [i \in P |-> cards[i].id]
             T == {cards[i].id : i \in P}
  <2>1. \A i, j \in P : i < j => cards[i].id # cards[j].id
    BY <1>1
  <2>2. \A i, j \in P : f[i] = f[j] => i = j
    BY <1>1, <2>1
  <2>3. f \in Bijection(P, T)
    <3> HIDE DEF P
    <3> QED BY <2>2 DEF Bijection, Injection, Surjection, IsInjective
  <2>5. IsFiniteSet(P)
    BY <1>2
  <2> HIDE DEF f, P, T
  <2>4. Cardinality(T) = Cardinality(P)
    BY <2>3, <2>5, FS_Bijection DEF ExistsBijection
  <2> QED BY <2>4 DEF T
<1>6. Ids(found) = Ids(cards) \ {0} /\ Len(found) = Cardinality(Ids(found))
  <2> HIDE DEF P
  <2> QED BY <1>2, <1>3, <1>4, <1>5
<1> QED BY <1>6 DEF EachOnce, found

(* A search of MercadoLivre that is ordered by relevance has the entries   *)
(* that cover more of the query first, and says how many it left out.      *)
LEMMA CoveredFirst ==
  ASSUME NEW page, Parsed(page.data), Weighed(page.data), Parsed(page.cards), Weighed(page.cards),
         page.options.least \in Nat,
         NEW e, e = MercadoLivreSearch(page, page.query, page.options), e.reason = "ok"
  PROVE  ByCoverage(page, e.found, e.dropped)
<1> DEFINE found == MercadoLivreFound(page)
           N == Len(found)
           all == 1..N
           least == page.options.least
           off == {i \in all : found[i].covers < least}
           filters == page.query /\ page.options.relevance /\ found # <<>>
           drops == page.options.drop
           kept == IF drops THEN all \ off ELSE all
           R == {p \in kept \X kept : Ahead(found, p[1], p[2])}
<1>1. /\ N \in Nat /\ DOMAIN found = all /\ (found = <<>> <=> N = 0)
      /\ \A n \in all : found[n].covers \in Nat /\ found[n].score \in Int
  <2>1. ASSUME NEW entries, Parsed(entries), Weighed(entries), NEW P \in SUBSET (DOMAIN entries),
               found = At(entries, P)
        PROVE  /\ N \in Nat /\ DOMAIN found = all /\ (found = <<>> <=> N = 0)
               /\ \A n \in all : found[n].covers \in Nat /\ found[n].score \in Int
    <3>1. Len(entries) \in Nat /\ DOMAIN entries = 1..Len(entries)
      BY <2>1 DEF Parsed
    <3>2. Holds(entries, P, found)
      BY <2>1, <3>1, PartOf
    <3> HIDE DEF found
    <3> QED BY <2>1, <3>2 DEF Holds, Weighed
  <2> DEFINE named == {i \in DOMAIN page.data : page.data[i].named}
             unpaid == {i \in DOMAIN page.cards : page.cards[i].named /\ ~page.cards[i].paid}
  <2>2. CASE page.data # <<>>
    <3>1. found = At(page.data, named)
      BY <2>2 DEF MercadoLivreFound, Named, Only
    <3> HIDE DEF found
    <3> QED BY <2>1, <3>1
  <2>3. CASE page.data = <<>>
    <3>1. found = At(page.cards, unpaid)
      BY <2>3 DEF MercadoLivreFound, Only
    <3> HIDE DEF found
    <3> QED BY <2>1, <3>1
  <2> QED BY <2>2, <2>3
<1> HIDE DEF found
<1>2. /\ e.found = IF filters THEN InOrder(found, kept, R) ELSE found
      /\ e.dropped = IF filters /\ drops THEN Cardinality(off) ELSE 0
  <2>1. OffQuery(found, least) = off
    BY <1>1 DEF OffQuery
  <2>2. ByRelevance(found, drops, least) = InOrder(found, kept, R)
    <3>1. kept = IF drops THEN DOMAIN found \ OffQuery(found, least) ELSE DOMAIN found
      BY <1>1, <2>1
    <3> HIDE DEF kept, off, all
    <3> QED BY <3>1 DEF ByRelevance
  <2>3. Rot.reason # "ok"
    BY DEF Rot, Fails, Outcome
  <2> DEFINE listed == IF filters THEN ByRelevance(found, drops, least) ELSE found
             dropped == IF filters /\ drops THEN Cardinality(OffQuery(found, least)) ELSE 0
  <2>4. \E warnings : e = Outcome("ok", listed, warnings, dropped)
    BY <2>3 DEF MercadoLivreSearch, found
  <2>5. e.found = listed /\ e.dropped = dropped
    <3> HIDE DEF listed, dropped
    <3> QED BY <2>4 DEF Outcome
  <2> HIDE DEF kept, off, R, all
  <2> QED BY <2>1, <2>2, <2>5
<1>3. CASE ~filters
  <2>1. e.found = found /\ e.dropped = 0
    BY <1>2, <1>3
  <2>2. page.query /\ page.options.relevance => N = 0
    BY <1>1, <1>3
  <2> QED BY <1>1, <2>1, <2>2 DEF ByCoverage, found
<1>4. CASE filters
  <2>1. IsFiniteSet(all) /\ Cardinality(all) = N /\ off \in SUBSET all /\ kept \in SUBSET all
    <3>1. IsFiniteSet(all) /\ Cardinality(all) = N
      <4> HIDE DEF N
      <4> QED BY <1>1, FS_Interval
    <3> QED BY <3>1
  <2>2. IsFiniteSet(kept) /\ Cardinality(kept) \in Nat /\ Cardinality(off) \in Nat /\ IsFiniteSet(off)
    <3> HIDE DEF kept, off, all
    <3> QED BY <2>1, FS_Subset, FS_CardinalityType
  <2>3. \A i \in kept : i \in Nat /\ found[i].covers \in Nat /\ found[i].score \in Int
    BY <1>1
  <2>4. \A i, j \in kept : <<i, j>> \in R <=> Ahead(found, i, j)
    OBVIOUS
  <2>5. Orders(R, kept)
    <3> HIDE DEF kept, R
    <3> QED BY <2>3, <2>4 DEF Orders, Ahead
  <2>6. Arranges(found, kept, R, e.found)
    <3> HIDE DEF kept, R
    <3> QED BY <1>2, <1>4, <2>2, <2>5, InOrderArranges
  <2>7. PICK order \in [1..Cardinality(kept) -> kept] :
          /\ e.found = [n \in 1..Cardinality(kept) |-> found[order[n]]]
          /\ \A m, n \in 1..Cardinality(kept) : m < n <=> <<order[m], order[n]>> \in R
    BY <2>6 DEF Arranges
  <2>8. \A m, n \in 1..Cardinality(kept) : m < n => e.found[m].covers >= e.found[n].covers
    <3> SUFFICES ASSUME NEW m \in 1..Cardinality(kept), NEW n \in 1..Cardinality(kept), m < n
                 PROVE  e.found[m].covers >= e.found[n].covers
      OBVIOUS
    <3>0. e.found[m] = found[order[m]] /\ e.found[n] = found[order[n]]
      <4> HIDE DEF kept, R
      <4> QED BY <2>7
    <3>1. Ahead(found, order[m], order[n]) /\ order[m] \in kept /\ order[n] \in kept
      BY <2>4, <2>7
    <3> HIDE DEF kept
    <3> QED BY <2>3, <3>0, <3>1 DEF Ahead
  <2>9. Len(e.found) = Cardinality(kept) /\ DOMAIN e.found = 1..Cardinality(kept)
    <3> HIDE DEF kept, R
    <3> QED BY <2>2, <2>6, Arranged DEF Holds
  <2>10. Cardinality(kept) + e.dropped = N
    <3>1. CASE drops
      <4>1. kept = all \ off /\ e.dropped = Cardinality(off) /\ all \cap off = off
        BY <1>2, <1>4, <3>1
      <4>2. Cardinality(all \ off) = Cardinality(all) - Cardinality(all \cap off)
        <5> HIDE DEF all, off
        <5> QED BY <2>1, FS_Difference
      <4>3. Cardinality(kept) = Cardinality(all) - Cardinality(off)
        <5> HIDE DEF kept, off, all
        <5> QED BY <4>1, <4>2
      <4> HIDE DEF kept, off, all, N
      <4> QED BY <1>1, <2>1, <2>2, <4>1, <4>3
    <3>2. CASE ~drops
      BY <1>1, <1>2, <2>1, <3>2
    <3> QED BY <3>1, <3>2
  <2> HIDE DEF kept, R
  <2> QED BY <2>8, <2>9, <2>10 DEF ByCoverage, found
<1> QED BY <1>3, <1>4

Mix(a, b, d) == a * (4 - d) + b * d

(* A quantile lies between two of the values it is of.                     *)
LEMMA Between ==
  ASSUME NEW a \in Nat, NEW b \in Nat, a <= b, NEW d \in 0..3
  PROVE  Mix(a, b, d) \in Int /\ 4 * a <= Mix(a, b, d) /\ Mix(a, b, d) <= 4 * b
<1>1. d = 0 \/ d = 1 \/ d = 2 \/ d = 3
  OBVIOUS
<1>2. CASE d = 0
  BY <1>2 DEF Mix
<1>3. CASE d = 1
  BY <1>3 DEF Mix
<1>4. CASE d = 2
  BY <1>4 DEF Mix
<1>5. CASE d = 3
  BY <1>5 DEF Mix
<1> QED BY <1>1, <1>2, <1>3, <1>4, <1>5

(* Places are ordered by their prices, and where these are the same by     *)
(* where they stand.                                                       *)
LEMMA ByPrice ==
  ASSUME NEW P, NEW prices, \A i \in P : i \in Nat /\ prices[i] \in Nat,
         NEW R, R = {p \in P \X P : Cheaper(prices, p[1], p[2])}
  PROVE  /\ Orders(R, P)
         /\ \A i, j \in P : <<i, j>> \in R <=> Cheaper(prices, i, j)
         /\ \A i, j \in P : <<i, j>> \in R => prices[i] <= prices[j]
<1>1. \A i, j \in P : <<i, j>> \in R <=> Cheaper(prices, i, j)
  OBVIOUS
<1>2. \A i, j \in P : <<i, j>> \in R <=>
        prices[i] < prices[j] \/ (prices[i] = prices[j] /\ i < j)
  BY <1>1 DEF Cheaper
<1> QED BY <1>1, <1>2 DEF Orders

(* Of eight prices or more, one is inside the fence. *)
LEMMA OneInside ==
  ASSUME NEW N \in Nat, N >= 8, NEW prices, DOMAIN prices = 1..N, Len(prices) = N,
         \A i \in 1..N : prices[i] \in Nat
  PROVE  \E i \in DOMAIN prices : WithinFence(prices, prices[i])
<1> DEFINE all == DOMAIN prices
           R == {p \in all \X all : Cheaper(prices, p[1], p[2])}
           s == Sorted(prices)
<1>1. all = 1..N /\ \A i \in all : prices[i] \in Nat /\ i \in Nat
  OBVIOUS
<1>2. IsFiniteSet(all) /\ Cardinality(all) = N
  <2> HIDE DEF all
  <2> QED BY <1>1, FS_Interval
<1>3. Orders(R, all) /\ \A i, j \in all : <<i, j>> \in R => prices[i] <= prices[j]
  <2> HIDE DEF all
  <2> QED BY <1>1, ByPrice
<1>5. s = InOrder(prices, all, R)
  BY DEF Sorted
<1> HIDE DEF R, all, s
<1>6. Arranges(prices, all, R, s)
  BY <1>2, <1>3, <1>5, InOrderArranges
<1>7. PICK order \in [1..N -> all] :
        /\ s = [n \in 1..N |-> prices[order[n]]]
        /\ \A m, n \in 1..N : m < n <=> <<order[m], order[n]>> \in R
  BY <1>2, <1>6 DEF Arranges
<1>8. \A m \in 1..N : s[m] \in Nat /\ order[m] \in all /\ s[m] = prices[order[m]]
  BY <1>1, <1>7
<1>9. \A m, n \in 1..N : m < n => s[m] <= s[n]
  BY <1>3, <1>7, <1>8
<1> DEFINE j == (N + 1) \div 4
           h == (3 * (N + 1)) \div 4
           d == (N + 1) - 4 * j
           e == 3 * (N + 1) - 4 * h
<1>10. /\ j \in 1..(N - 1) /\ j + 1 \in 1..N /\ d \in 0..3
       /\ h \in 1..(N - 1) /\ h + 1 \in 1..N /\ e \in 0..3 /\ j + 1 <= h
  OBVIOUS
<1>11. /\ Quantile4(prices, 1) = Mix(s[j], s[j + 1], d)
       /\ Quantile4(prices, 3) = Mix(s[h], s[h + 1], e)
  <2>1. 1 * (N + 1) = N + 1 /\ ~(j < 1) /\ ~(j > N - 1) /\ ~(h < 1) /\ ~(h > N - 1)
    BY <1>10
  <2> QED BY <2>1 DEF Quantile4, s, Mix
<1> DEFINE q == Quantile4(prices, 1)
           r == Quantile4(prices, 3)
           price == s[j + 1]
<1> HIDE DEF j, h, d, e
<1>12. /\ s[j] \in Nat /\ s[j + 1] \in Nat /\ s[j] <= s[j + 1]
       /\ s[h] \in Nat /\ s[h + 1] \in Nat /\ s[h] <= s[h + 1] /\ s[j + 1] <= s[h]
  <2>1. j < j + 1 /\ h < h + 1 /\ (j + 1 = h \/ j + 1 < h)
    BY <1>10
  <2> QED BY <1>8, <1>9, <1>10, <2>1
<1>13. q \in Int /\ q <= 4 * price /\ r \in Int /\ 4 * s[h] <= r
  <2>1. q \in Int /\ q <= 4 * price
    BY <1>10, <1>11, <1>12, Between
  <2>2. r \in Int /\ 4 * s[h] <= r
    BY <1>10, <1>11, <1>12, Between
  <2> QED BY <2>1, <2>2
<1>14. price \in Nat /\ 4 * price <= r
  BY <1>12, <1>13
<1> HIDE DEF q, r, price
<1>15. r > q => 2 * q <= 8 * price + 3 * (r - q) /\ 8 * price <= 2 * r + 3 * (r - q)
  BY <1>13, <1>14
<1>16. WithinFence(prices, price)
  BY <1>15 DEF WithinFence, q, r
<1>17. order[j + 1] \in all /\ price = prices[order[j + 1]]
  BY <1>8, <1>10 DEF price
<1> QED BY <1>16, <1>17 DEF all

(* The sellers of a product are its offers, each store and price once, *)
(* the cheapest first.                                                 *)
Sold(N, group, sellers, least) ==
  /\ \A k \in DOMAIN sellers : \E i \in 1..N : sellers[k] = group[i]
  /\ \A i \in 1..N : \E k \in DOMAIN sellers :
       sellers[k].store = group[i].store /\ sellers[k].price = group[i].price
  /\ 1 \in DOMAIN sellers /\ sellers[1].price = least
  /\ \A i \in 1..N : least <= group[i].price

(* The sellers of a group of offers, as Sellers makes them.                *)
LEMMA SellersOf ==
  ASSUME NEW N \in Nat, NEW group, DOMAIN group = 1..N, \A i \in 1..N : group[i].price \in Nat,
         N # 0
  PROVE  Sold(N, group, Sellers(group), Cheapest(group))
<1> DEFINE same(i, j) == group[j].store = group[i].store /\ group[j].price = group[i].price
           once == {i \in DOMAIN group : \A j \in 1..(i - 1) :
                      \/ group[j].store # group[i].store
                      \/ group[j].price # group[i].price}
           prices == Prices(group)
           R == {p \in once \X once : Cheaper(prices, p[1], p[2])}
           sellers == Sellers(group)
           C == Cardinality(once)
<1>1. sellers = InOrder(group, once, R)
  BY DEF Sellers
<1>2. once \in SUBSET (1..N) /\ \A i \in once : i \in Nat /\ prices[i] \in Nat /\ prices[i] = group[i].price
  BY DEF Prices
<1>3. IsFiniteSet(once) /\ C \in Nat
  <2> HIDE DEF once
  <2> QED BY <1>2, Intervals
<1>4. Orders(R, once) /\ \A i, j \in once : <<i, j>> \in R => prices[i] <= prices[j]
  <2> HIDE DEF once, prices
  <2> QED BY <1>2, ByPrice
<1> HIDE DEF R, sellers
<1>5. Arranges(group, once, R, sellers)
  <2> HIDE DEF once, prices
  <2> QED BY <1>1, <1>3, <1>4, InOrderArranges
<1>6. PICK order \in [1..C -> once] :
        /\ sellers = [n \in 1..C |-> group[order[n]]]
        /\ \A i \in once : \E n \in 1..C : order[n] = i
        /\ \A m, n \in 1..C : m < n <=> <<order[m], order[n]>> \in R
  <2> HIDE DEF once
  <2> QED BY <1>5 DEF Arranges
<1>7. ASSUME NEW i \in 1..N PROVE \E f \in once : same(i, f)
  <2> DEFINE Q == {f \in 1..N : same(i, f)}
  <2>1. Q \in SUBSET (1..N) /\ Q # {}
    OBVIOUS
  <2>2. PICK f \in Q : \A g \in Q : f <= g
    <3> HIDE DEF Q
    <3> QED BY <2>1, FirstPlace
  <2>3. f \in 1..N /\ \A j \in 1..(f - 1) : j \in 1..N /\ j \notin Q
    BY <2>2
  <2>4. f \in once
    BY <2>2, <2>3
  <2> QED BY <2>2, <2>4
<1> HIDE DEF once, prices, C
<1>8. DOMAIN sellers = 1..C /\ \A k \in 1..C : order[k] \in once /\ sellers[k] = group[order[k]]
  BY <1>6
<1>9. \A i \in 1..N : \E k \in 1..C : same(i, order[k])
  BY <1>6, <1>7
<1>10. 1 \in 1..C
  <2>1. 1 \in 1..N
    OBVIOUS
  <2>2. PICK k \in 1..C : same(1, order[k])
    BY <1>9, <2>1
  <2> QED BY <1>3, <2>2
<1>11. \A k \in 1..C : group[order[1]].price <= group[order[k]].price
  <2> SUFFICES ASSUME NEW k \in 1..C PROVE group[order[1]].price <= group[order[k]].price
    OBVIOUS
  <2>1. order[1] \in once /\ order[k] \in once
    BY <1>8, <1>10
  <2>2. k = 1 \/ 1 < k
    BY <1>3
  <2>3. 1 < k => <<order[1], order[k]>> \in R
    BY <1>6, <1>10
  <2>4. prices[order[1]] \in Nat /\ prices[order[1]] = group[order[1]].price
        /\ prices[order[k]] = group[order[k]].price
    BY <1>2, <2>1
  <2> QED BY <1>4, <2>1, <2>2, <2>3, <2>4
<1> DEFINE asked == {group[i].price : i \in DOMAIN group}
           least == group[order[1]].price
<1>12. least \in asked /\ least \in Nat /\ \A i \in 1..N : least <= group[i].price
  <2>1. order[1] \in 1..N
    BY <1>2, <1>8, <1>10
  <2>2. ASSUME NEW i \in 1..N PROVE least <= group[i].price
    <3>1. PICK k \in 1..C : same(i, order[k])
      BY <1>9
    <3> QED BY <1>11, <3>1
  <2> QED BY <2>1, <2>2
<1>13. Min(asked) = least
  <2>1. \A y \in asked : least <= y /\ y \in Nat
    BY <1>12
  <2> HIDE DEF asked, least
  <2>2. \A x \in asked : (\A y \in asked : x <= y) => x = least
    BY <1>12, <2>1
  <2> QED BY <1>12, <2>1, <2>2 DEF Min
<1>14. \A k \in DOMAIN sellers : \E i \in 1..N : sellers[k] = group[i]
  BY <1>2, <1>8
<1>15. \A i \in 1..N : \E k \in DOMAIN sellers :
         sellers[k].store = group[i].store /\ sellers[k].price = group[i].price
  <2> SUFFICES ASSUME NEW i \in 1..N
               PROVE  \E k \in 1..C : /\ sellers[k].store = group[i].store
                                      /\ sellers[k].price = group[i].price
    BY <1>8
  <2>1. PICK k \in 1..C : same(i, order[k])
    BY <1>9
  <2>2. sellers[k] = group[order[k]]
    BY <1>8
  <2> QED BY <2>1, <2>2
<1>16. 1 \in DOMAIN sellers /\ sellers[1].price = least
  BY <1>8, <1>10
<1> HIDE DEF asked, least
<1>17. Cheapest(group) = least
  BY <1>13 DEF Cheapest, asked
<1> QED BY <1>12, <1>14, <1>15, <1>16, <1>17 DEF sellers, Sold

(* What GroupsOf says, of the offers that are left. *)
Offering(groups, n, k, offer) ==
  /\ groups[n].title = offer.title
  /\ groups[n].sellers[k].store = offer.store /\ groups[n].sellers[k].price = offer.price
Groups(offers, groups) ==
  /\ \A n \in DOMAIN groups : \A k \in DOMAIN groups[n].sellers :
       \E i \in DOMAIN offers : Offering(groups, n, k, offers[i])
  /\ \A i \in DOMAIN offers : \E n \in DOMAIN groups : \E k \in DOMAIN groups[n].sellers :
       Offering(groups, n, k, offers[i])
  /\ \A n \in DOMAIN groups :
       /\ \A k \in DOMAIN groups[n].sellers : groups[n].price <= groups[n].sellers[k].price
       /\ groups[n].price = groups[n].sellers[1].price
       /\ \A m \in DOMAIN groups : groups[m].title = groups[n].title => m = n

(* The groups of the offers of a page, as Grouped makes them.              *)
LEMMA Grouping ==
  ASSUME NEW N \in Nat, NEW offers, DOMAIN offers = 1..N, \A i \in 1..N : offers[i].price \in Nat
  PROVE  Groups(offers, Grouped(offers))
<1> DEFINE head == {i \in DOMAIN offers :
                       \A j \in 1..(i - 1) : offers[j].title # offers[i].title}
           lead == At(offers, head)
           C == Cardinality(head)
           of(n) == {i \in DOMAIN offers : offers[i].title = lead[n].title}
           group(n) == At(offers, of(n))
           groups == Grouped(offers)
<1>1. head \in SUBSET (1..N)
  OBVIOUS
<1>2. Arranges(offers, head, Upwards(head), lead) /\ C \in Nat
  <2> HIDE DEF head
  <2> QED BY <1>1, AtPlaces, Intervals
<1>3. PICK order \in [1..C -> head] :
        /\ lead = [n \in 1..C |-> offers[order[n]]]
        /\ \A i \in head : \E n \in 1..C : order[n] = i
        /\ \A m, n \in 1..C : m < n <=> <<order[m], order[n]>> \in Upwards(head)
  <2> HIDE DEF head, lead, C
  <2> QED BY <1>2 DEF Arranges, C
<1>4. /\ DOMAIN groups = 1..C
      /\ \A n \in 1..C : /\ groups[n].title = lead[n].title
                         /\ groups[n].price = Cheapest(group(n))
                         /\ groups[n].sellers = Sellers(group(n))
  <2>1. DOMAIN lead = 1..C
    BY <1>3
  <2>2. groups = [n \in DOMAIN lead |->
                    [title |-> lead[n].title,
                     price |-> Cheapest(group(n)),
                     sellers |-> Sellers(group(n))]]
    BY DEF Grouped, Only
  <2> HIDE DEF groups, lead, group
  <2> QED BY <2>1, <2>2
<1>5. \A i \in 1..N : \E f \in head : offers[f].title = offers[i].title
  <2> SUFFICES ASSUME NEW i \in 1..N PROVE \E f \in head : offers[f].title = offers[i].title
    OBVIOUS
  <2> DEFINE Q == {f \in 1..N : offers[f].title = offers[i].title}
  <2>1. Q \in SUBSET (1..N) /\ Q # {}
    OBVIOUS
  <2>2. PICK f \in Q : \A g \in Q : f <= g
    <3> HIDE DEF Q
    <3> QED BY <2>1, FirstPlace
  <2>3. f \in 1..N /\ \A j \in 1..(f - 1) : j \in 1..N /\ j \notin Q
    BY <2>2
  <2>4. f \in head
    BY <2>2, <2>3
  <2> QED BY <2>2, <2>4
<1>6. \A f, g \in head : offers[f].title = offers[g].title => f = g
  <2>1. \A f, g \in head : f < g => offers[f].title # offers[g].title
    BY <1>1
  <2> QED BY <1>1, <2>1
<1> HIDE DEF head, C, lead
<1>7. \A n \in 1..C : order[n] \in head /\ order[n] \in 1..N /\ lead[n] = offers[order[n]]
  BY <1>1, <1>3
<1>8. \A m, n \in 1..C : lead[m].title = lead[n].title => m = n
  <2> SUFFICES ASSUME NEW m \in 1..C, NEW n \in 1..C, m < n PROVE lead[m].title # lead[n].title
    BY <1>2
  <2>1. order[m] < order[n]
    BY <1>3 DEF Upwards
  <2> QED BY <1>1, <1>6, <1>7, <2>1
<1>9. \A i \in 1..N : \E n \in 1..C : lead[n].title = offers[i].title
  <2> SUFFICES ASSUME NEW i \in 1..N PROVE \E n \in 1..C : lead[n].title = offers[i].title
    OBVIOUS
  <2>1. PICK f \in head : offers[f].title = offers[i].title
    BY <1>5
  <2>2. PICK n \in 1..C : order[n] = f
    BY <1>3
  <2> QED BY <1>7, <2>1, <2>2
<1>10. ASSUME NEW n \in 1..C
       PROVE  /\ \A k \in DOMAIN groups[n].sellers :
                   \E i \in DOMAIN offers : Offering(groups, n, k, offers[i])
              /\ \A i \in DOMAIN offers : offers[i].title = lead[n].title =>
                   \E k \in DOMAIN groups[n].sellers : Offering(groups, n, k, offers[i])
              /\ \A k \in DOMAIN groups[n].sellers : groups[n].price <= groups[n].sellers[k].price
              /\ groups[n].price = groups[n].sellers[1].price
  <2> DEFINE P == of(n)
             M == Cardinality(P)
             g == group(n)
             sellers == Sellers(g)
             least == Cheapest(g)
  <2>1. P \in SUBSET (1..N) /\ order[n] \in P
    BY <1>7
  <2>2. \A i \in P : offers[i].title = lead[n].title /\ offers[i].price \in Nat
    OBVIOUS
  <2>3. Holds(offers, P, g)
    <3>1. g = At(offers, P)
      OBVIOUS
    <3> HIDE DEF P, g
    <3> QED BY <2>1, <3>1, PartOf
  <2>4. \A i \in 1..N : offers[i].title = lead[n].title => i \in P
    OBVIOUS
  <2> HIDE DEF P, g
  <2>5. /\ M \in Nat /\ DOMAIN g = 1..M
        /\ \A i \in P : \E m \in 1..M : g[m] = offers[i]
        /\ \A m \in 1..M : \E i \in P : g[m] = offers[i]
    BY <2>3 DEF Holds
  <2>6. M # 0 /\ \A m \in 1..M : g[m].price \in Nat
    <3>1. PICK m \in 1..M : g[m] = offers[order[n]]
      BY <2>1, <2>5
    <3>2. M # 0
      BY <2>5
    <3> QED BY <2>2, <2>5, <3>2
  <2> HIDE DEF M
  <2>7. /\ \A k \in DOMAIN sellers : \E i \in 1..M : sellers[k] = g[i]
        /\ \A i \in 1..M : \E k \in DOMAIN sellers :
             sellers[k].store = g[i].store /\ sellers[k].price = g[i].price
        /\ 1 \in DOMAIN sellers /\ sellers[1].price = least
        /\ \A i \in 1..M : least <= g[i].price
    <3>1. Sold(M, g, sellers, least)
      BY <2>5, <2>6, SellersOf
    <3> QED BY <3>1 DEF Sold
  <2>8. groups[n].title = lead[n].title /\ groups[n].price = least /\ groups[n].sellers = sellers
    BY <1>4 DEF g
  <2> HIDE DEF sellers, least, groups
  <2>9. \A k \in DOMAIN sellers : \E i \in DOMAIN offers : Offering(groups, n, k, offers[i])
    <3> SUFFICES ASSUME NEW k \in DOMAIN sellers
                 PROVE  \E i \in DOMAIN offers : Offering(groups, n, k, offers[i])
      OBVIOUS
    <3>1. PICK m \in 1..M : sellers[k] = g[m]
      BY <2>7
    <3>2. PICK i \in P : g[m] = offers[i]
      BY <2>5
    <3>3. i \in DOMAIN offers
      BY <2>1
    <3> QED BY <2>2, <2>8, <3>1, <3>2, <3>3 DEF Offering
  <2>10. \A i \in DOMAIN offers : offers[i].title = lead[n].title =>
           \E k \in DOMAIN sellers : Offering(groups, n, k, offers[i])
    <3> SUFFICES ASSUME NEW i \in DOMAIN offers, offers[i].title = lead[n].title
                 PROVE  \E k \in DOMAIN sellers : Offering(groups, n, k, offers[i])
      OBVIOUS
    <3>1. PICK m \in 1..M : g[m] = offers[i]
      BY <2>4, <2>5
    <3>2. PICK k \in DOMAIN sellers : sellers[k].store = g[m].store /\ sellers[k].price = g[m].price
      BY <2>7
    <3> QED BY <2>8, <3>1, <3>2 DEF Offering
  <2>11. \A k \in DOMAIN sellers : least <= sellers[k].price
    BY <2>7
  <2> QED BY <2>7, <2>8, <2>9, <2>10, <2>11
<1> HIDE DEF groups
<1>11. \A i \in DOMAIN offers : \E n \in DOMAIN groups : \E k \in DOMAIN groups[n].sellers :
         Offering(groups, n, k, offers[i])
  BY <1>4, <1>9, <1>10
<1>12. \A n, m \in DOMAIN groups : groups[m].title = groups[n].title => m = n
  BY <1>4, <1>8
<1>13. Groups(offers, groups)
  BY <1>4, <1>10, <1>11, <1>12 DEF Groups
<1> QED BY <1>13 DEF groups

(* A list without outliers is left something, if it had something. *)
LEMMA SomethingLeft ==
  ASSUME NEW N \in Nat, NEW offers, DOMAIN offers = 1..N, Len(offers) = N,
         \A i \in 1..N : offers[i].price \in Nat
  PROVE  /\ N < OutlierLeast => WithoutOutliers(offers) = offers
         /\ \E M \in Nat : /\ DOMAIN WithoutOutliers(offers) = 1..M
                           /\ Len(WithoutOutliers(offers)) = M
                           /\ N # 0 => M # 0
                           /\ \A m \in 1..M : \E i \in 1..N : WithoutOutliers(offers)[m] = offers[i]
<1> DEFINE kept == WithoutOutliers(offers)
           prices == Prices(offers)
           P == {i \in DOMAIN offers : WithinFence(prices, offers[i].price)}
<1>1. CASE N < OutlierLeast
  <2>1. kept = offers
    BY <1>1 DEF WithoutOutliers
  <2> HIDE DEF kept
  <2> QED BY <2>1 DEF kept
<1>2. CASE ~(N < OutlierLeast)
  <2>1. kept = At(offers, P)
    BY <1>2 DEF WithoutOutliers, Only
  <2>2. P \in SUBSET (1..N)
    OBVIOUS
  <2>3. P # {}
    <3>1. DOMAIN prices = 1..N /\ \A i \in 1..N : prices[i] \in Nat /\ prices[i] = offers[i].price
      BY DEF Prices
    <3>2. prices \in Seq(Nat) /\ Len(prices) = N /\ N >= 8
      <4>1. prices \in [1..N -> Nat]
        BY DEF Prices
      <4>2. N >= 8
        BY <1>2 DEF OutlierLeast
      <4> HIDE DEF prices
      <4> QED BY <4>1, <4>2
    <3> HIDE DEF prices
    <3>3. PICK i \in DOMAIN prices : WithinFence(prices, prices[i])
      BY <3>1, <3>2, OneInside
    <3> QED BY <3>1, <3>3
  <2>4. Holds(offers, P, kept)
    <3> HIDE DEF P, kept
    <3> QED BY <2>1, <2>2, PartOf
  <2> HIDE DEF P, kept
  <2> DEFINE M == Cardinality(P)
  <2>5. M \in Nat /\ DOMAIN kept = 1..M /\ Len(kept) = M
        /\ \A m \in 1..M : \E i \in P : kept[m] = offers[i]
    BY <2>4 DEF Holds
  <2> HIDE DEF M
  <2>6. M # 0
    <3>1. kept # <<>> /\ kept \in Seq({offers[i] : i \in P})
      BY <2>3, <2>4 DEF Holds
    <3>2. Len(kept) # 0
      BY <3>1
    <3> QED BY <2>5, <3>2
  <2>7. \A m \in 1..M : \E i \in 1..N : kept[m] = offers[i]
    BY <2>2, <2>5
  <2> QED BY <1>2, <2>5, <2>6, <2>7 DEF kept
<1> QED BY <1>1, <1>2

(* What the four properties say of one fetch that has ended: it was asked  *)
(* j, was given the answers g, as a probe or not, and concluded e.         *)
Said(g, part) == IF part \in DOMAIN g THEN g[part] ELSE "unasked"
MainDecided(j, g, e) ==
  \/ j.site \in {"steam", "github", "gitlab", "shopify"} /\ Said(g, "main") = "good"
  \/ /\ j.site = "npm" /\ Said(g, "main") = "good"
     /\ "unknown_version" \notin j.facts
  \/ j.site = "scholar" /\ \E s \in ScholarBase : Said(g, s) = "good"
  \/ /\ j.site = "wikimedia" /\ "text" \in j.facts
     /\ "good" \in {Said(g, "article"), Said(g, "article_again")}
  => e.reason = "ok"
NotFoundTold(j, g, e) ==
  e.reason = "NOT_FOUND" /\ j.site \notin {"scholar", "gitlab"} =>
    \/ \E p \in DOMAIN g : g[p] \in Absent \union {"none", "not_found", "gone"}
    \/ "unknown_version" \in j.facts
    \/ j.site = "mercadolivre" /\ j.page.ended
ProbePassed(g, asProbe, e) ==
  asProbe => e.reason \in {"ok", "declined"} /\ (Said(g, "main") = "good" => e.reason = "ok")
ListedPage(j, e) ==
  e.reason = "ok" /\ j.kind = "search" =>
    CASE j.site \in {"amazon", "aliexpress"} -> EachOnce(j.page, e.found)
      [] j.site = "mercadolivre" -> ByCoverage(j.page, e.found, e.dropped)
      [] j.site = "google_shopping" -> GroupsOf(j.page, e.found)
      [] OTHER -> TRUE
Concluded(j, g, asProbe, e) ==
  MainDecided(j, g, e) /\ NotFoundTold(j, g, e) /\ ProbePassed(g, asProbe, e) /\ ListedPage(j, e)

(* While wikimedia is asked: the article, or its token, is asked for only  *)
(* behind the redirect and past the structured one, alone, and again only  *)
(* with a good new token after a rejection.                                *)
ArticleParts == {"article", "article_token", "article_again"}
ArticleInv(j, l, g) ==
  /\ (l \union DOMAIN g) \intersect ArticleParts # {} =>
       "redirect" \in DOMAIN g /\ Passed(j, g) /\ l \subseteq ArticleParts
  /\ "article_again" \in l \union DOMAIN g =>
       Said(g, "article") = "rejected" /\ Said(g, "article_token") = "good"
  /\ "article" \in DOMAIN g => g["article"] \in Request

(* While it waits. *)
ListingSites == {"amazon", "aliexpress", "mercadolivre", "google_shopping"}
Awaits(j, l, g) ==
  /\ j.site \notin {"wikimedia", "scholar"} => "main" \in l \union DOMAIN g
  /\ j.site = "wikimedia" => ArticleInv(j, l, g)
  /\ j.site \in ListingSites /\ j.kind = "search" => l = {"main"} /\ DOMAIN g = {}

FetchGood(f) ==
  /\ pc[f] \in {"new", "waiting"} => job[f].site \in AdapterSites
  /\ pc[f] = "new" => DOMAIN got[f] = {} /\ ~probe[f]
  /\ probe[f] => job[f].site \in Probed
  /\ pc[f] = "waiting" => Awaits(job[f], left[f], got[f])
  /\ pc[f] = "ended" => Concluded(job[f], got[f], probe[f], env[f])

AdapterShape ==
  /\ job \in Mixes
  /\ pc = [f \in Fetches |-> pc[f]] /\ left = [f \in Fetches |-> left[f]]
  /\ got = [f \in Fetches |-> got[f]] /\ probe = [f \in Fetches |-> probe[f]]
  /\ env = [f \in Fetches |-> env[f]]
AdapterInv == AdapterShape /\ \A f \in Fetches : FetchGood(f)

(* The groups a page of Google Shopping is made into are of its offers.    *)
LEMMA OffersGrouped ==
  ASSUME NEW page, Parsed(page.cards), Priced(page.cards), NEW rewritten,
         NEW e, e = GoogleShopping(page, rewritten), e.reason = "ok"
  PROVE  GroupsOf(page, e.found)
<1> DEFINE cards == page.cards
           P == {i \in DOMAIN cards : cards[i].label = "offer"}
           offers == Offers(cards)
           kept == WithoutOutliers(offers)
           groups == Grouped(kept)
           N == Cardinality(P)
<1>1. Len(cards) \in Nat /\ DOMAIN cards = 1..Len(cards)
  BY DEF Parsed
<1>2. offers = At(cards, P) /\ P \in SUBSET (1..Len(cards))
  BY <1>1 DEF Offers, Only
<1>3. Holds(cards, P, offers)
  <2> HIDE DEF P, offers
  <2> QED BY <1>1, <1>2, PartOf
<1>4. /\ N \in Nat /\ DOMAIN offers = 1..N /\ Len(offers) = N /\ (offers # <<>> => N # 0)
      /\ \A n \in 1..N : \E i \in P : offers[n] = cards[i]
  <2>1. offers # <<>> => Len(offers) # 0
    <3>1. offers \in Seq({cards[i] : i \in P})
      <4> HIDE DEF P, offers
      <4> QED BY <1>3 DEF Holds
    <3> HIDE DEF offers
    <3> QED BY <3>1
  <2> HIDE DEF P, offers
  <2> QED BY <1>3, <2>1 DEF Holds
<1>5. \A n \in 1..N : offers[n].price \in Nat
  <2>1. \A i \in P : cards[i].price \in Nat
    BY DEF Priced
  <2> HIDE DEF P, offers
  <2> QED BY <1>4, <2>1
<1> HIDE DEF P, offers, N
<1>6. /\ N < OutlierLeast => kept = offers
      /\ \E M \in Nat : DOMAIN kept = 1..M /\ (N # 0 => M # 0)
                        /\ \A m \in 1..M : \E i \in 1..N : kept[m] = offers[i]
  BY <1>4, <1>5, SomethingLeft
<1>7. PICK M \in Nat : DOMAIN kept = 1..M /\ (N # 0 => M # 0)
                       /\ \A m \in 1..M : \E i \in 1..N : kept[m] = offers[i]
  BY <1>6
<1> HIDE DEF kept
<1>8. Groups(kept, groups)
  <2>1. \A m \in 1..M : kept[m].price \in Nat
    BY <1>5, <1>7
  <2> QED BY <1>7, <2>1, Grouping
<1> HIDE DEF groups
<1>9. e.found = groups
  <2>1. Rot.reason # "ok"
    BY DEF Rot, Fails, Outcome
  <2> QED BY <2>1 DEF GoogleShopping, Outcome, kept, groups, offers
<1> DEFINE triples == {<<offers[i].title, offers[i].store, offers[i].price>> : i \in DOMAIN offers}
<1>10. Offered(groups) \subseteq triples
  <2> SUFFICES ASSUME NEW n \in DOMAIN groups, NEW k \in DOMAIN groups[n].sellers
               PROVE  <<groups[n].title, groups[n].sellers[k].store, groups[n].sellers[k].price>>
                        \in triples
    BY DEF Offered
  <2>1. PICK m \in 1..M : Offering(groups, n, k, kept[m])
    BY <1>7, <1>8 DEF Groups
  <2>2. PICK i \in 1..N : kept[m] = offers[i]
    BY <1>7
  <2> QED BY <1>4, <2>1, <2>2 DEF Offering
<1>11. ASSUME NEW m \in 1..M
       PROVE  <<kept[m].title, kept[m].store, kept[m].price>> \in Offered(groups)
  <2>1. PICK n \in DOMAIN groups : \E k \in DOMAIN groups[n].sellers : Offering(groups, n, k, kept[m])
    BY <1>7, <1>8 DEF Groups
  <2>2. PICK k \in DOMAIN groups[n].sellers : Offering(groups, n, k, kept[m])
    BY <2>1
  <2> QED BY <2>2 DEF Offered, Offering
<1>12. offers # <<>> => groups # <<>>
  <2> SUFFICES ASSUME M # 0 PROVE groups # <<>>
    BY <1>4, <1>7
  <2>1. 1 \in 1..M
    OBVIOUS
  <2>2. \E n \in DOMAIN groups : TRUE
    BY <1>7, <1>8, <2>1 DEF Groups
  <2> QED BY <2>2
<1>13. Len(offers) < OutlierLeast =>
         \A i \in DOMAIN offers :
           <<offers[i].title, offers[i].store, offers[i].price>> \in Offered(groups)
  BY <1>4, <1>6, <1>7, <1>11
<1>14. \A n \in DOMAIN groups :
         /\ \A k \in DOMAIN groups[n].sellers : groups[n].price <= groups[n].sellers[k].price
         /\ groups[n].price = groups[n].sellers[1].price
         /\ \A m \in DOMAIN groups : groups[m].title = groups[n].title => m = n
  BY <1>8 DEF Groups
<1>15. GroupsOf(page, groups)
  BY <1>10, <1>12, <1>13, <1>14 DEF GroupsOf, offers
<1> QED BY <1>9, <1>15

(* What is not acquired is no success. *)
LEMMA NotAcquiredFails ==
  ASSUME NEW a, a \in {"good", "void"} \union (Tier \ TierOk), ~Acquired(a)
  PROVE  NotAcquired(a).reason # "ok"
BY DEF Acquired, NotAcquired, Fails, Outcome, TierReason, RaisedReason, TierRaises, TierOk, Tier, Void

(* A listing that is concluded is the page it was read from.               *)
LEMMA ListedResult ==
  ASSUME NEW j, NEW g, NEW asProbe, NEW coin,
         j.site \in ListingSites /\ j.kind = "search" => SearchPage(j) /\ g["main"] \in MainAnswers(j)
  PROVE  ListedPage(j, Result(j, g, asProbe, coin))
<1> SUFFICES ASSUME j.site \in ListingSites, j.kind = "search",
                    NEW e, e = Result(j, g, asProbe, coin), e.reason = "ok"
             PROVE  ListedPage(j, e)
  BY DEF ListedPage, ListingSites
<1>1. Acquired(g["main"]) /\ e = PageOutcome(j)
  <2>1. e = IF Acquired(g["main"]) THEN PageOutcome(j) ELSE NotAcquired(g["main"])
    BY DEF Result, PageResult, ListingSites
  <2>2. g["main"] \in {"good", "void"} \union (Tier \ TierOk)
    BY DEF MainAnswers, ListingSites, PageSites
  <2> QED BY <2>1, <2>2, NotAcquiredFails
<1>2. CASE j.site \in {"amazon", "aliexpress"}
  <2>1. e = IF j.page.cards = <<>> /\ ~j.page.grid THEN Rot ELSE Listing(FirstOfEach(j.page.cards), {})
    BY <1>1, <1>2 DEF PageOutcome, AmazonFetch, AmazonSearch, AliExpressSearch
  <2>2. e.found = FirstOfEach(j.page.cards)
    BY <2>1 DEF Rot, Fails, Outcome, Listing
  <2>3. Parsed(j.page.cards)
    BY <1>2 DEF SearchPage
  <2> QED BY <1>2, <2>2, <2>3, EachIdOnce DEF ListedPage
<1>3. CASE j.site = "mercadolivre"
  <2>1. e = MercadoLivreSearch(j.page, j.page.query, j.page.options)
    BY <1>1, <1>3 DEF PageOutcome, MercadoLivreFetch
  <2>2. /\ Parsed(j.page.data) /\ Weighed(j.page.data)
        /\ Parsed(j.page.cards) /\ Weighed(j.page.cards) /\ j.page.options.least \in Nat
    BY <1>3 DEF SearchPage
  <2>3. ByCoverage(j.page, e.found, e.dropped)
    BY <2>1, <2>2, CoveredFirst
  <2> QED BY <1>3, <2>3 DEF ListedPage
<1>4. CASE j.site = "google_shopping"
  <2>1. e = GoogleShopping(j.page, j.page.rewritten)
    BY <1>1, <1>4 DEF PageOutcome
  <2>2. Parsed(j.page.cards) /\ Priced(j.page.cards)
    BY <1>4 DEF SearchPage
  <2>3. GroupsOf(j.page, e.found)
    BY <2>1, <2>2, OffersGrouped
  <2> QED BY <1>4, <2>3 DEF ListedPage
<1> QED BY <1>2, <1>3, <1>4 DEF ListingSites

(* A probe concludes with a success or leaves the page to the tiers.       *)
LEMMA ProbeResult ==
  ASSUME NEW j, NEW g, NEW asProbe, NEW coin, "main" \in DOMAIN g, asProbe => j.site \in Probed
  PROVE  ProbePassed(g, asProbe, Result(j, g, asProbe, coin))
<1> SUFFICES ASSUME asProbe PROVE ProbePassed(g, asProbe, Result(j, g, asProbe, coin))
  BY DEF ProbePassed
<1> USE DEF ProbePassed, Said, Result, Declines, Fails, Gives, Outcome
<1>1. CASE j.site = "gitlab"
  BY <1>1 DEF GitLabResult
<1>2. CASE j.site = "shopify"
  BY <1>2 DEF ShopifyResult, ShopifyIsOne
<1> QED BY <1>1, <1>2 DEF Probed

(* When the part that decides is good, what is concluded is a success.     *)
LEMMA MainResult ==
  ASSUME NEW j, NEW g, NEW asProbe, NEW coin,
         j.site = "wikimedia" => \E l : ArticleInv(j, l, g)
  PROVE  MainDecided(j, g, Result(j, g, asProbe, coin))
<1> DEFINE e == Result(j, g, asProbe, coin)
<1> USE DEF Gives, Outcome, Said
<1>1. CASE j.site \in {"steam", "github", "gitlab", "shopify"}
  <2> SUFFICES ASSUME "main" \in DOMAIN g, g["main"] = "good" PROVE e.reason = "ok"
    BY <1>1 DEF MainDecided
  <2>1. CASE j.site = "steam"
    BY <2>1 DEF Result, SteamResult, TierRaises, TierOk
  <2>2. CASE j.site = "github"
    BY <2>2 DEF Result, GitHubResult
  <2>3. CASE j.site = "gitlab"
    BY <2>3 DEF Result, GitLabResult
  <2>4. CASE j.site = "shopify"
    BY <2>4 DEF Result, ShopifyResult, ShopifyIsOne
  <2> QED BY <1>1, <2>1, <2>2, <2>3, <2>4
<1>2. CASE j.site = "npm"
  <2> SUFFICES ASSUME "main" \in DOMAIN g, g["main"] = "good", "unknown_version" \notin j.facts
               PROVE e.reason = "ok"
    BY <1>2 DEF MainDecided
  <2> QED BY <1>2 DEF Result, NpmResult, NoResponse, Absent
<1>3. CASE j.site = "scholar"
  <2> SUFFICES ASSUME NEW s \in ScholarBase, s \in DOMAIN g, g[s] = "good" PROVE e.reason = "ok"
    BY <1>3 DEF MainDecided
  <2>1. Titled(g)
    BY DEF Titled, Told, ScholarBase
  <2> QED BY <1>3, <2>1 DEF Result, ScholarResult
<1>4. CASE j.site = "wikimedia"
  <2> SUFFICES ASSUME "text" \in j.facts, "good" \in {Said(g, "article"), Said(g, "article_again")}
               PROVE e.reason = "ok"
    BY <1>4 DEF MainDecided
  <2>1. "article" \in DOMAIN g \/ "article_again" \in DOMAIN g
    OBVIOUS
  <2>2. "redirect" \in DOMAIN g /\ Passed(j, g)
    BY <1>4, <2>1 DEF ArticleInv, ArticleParts
  <2>3. "article_again" \in DOMAIN g =>
          Said(g, "article") = "rejected" /\ Said(g, "article_token") = "good"
    BY <1>4 DEF ArticleInv
  <2>4. Endpoint(g, "article") = "good"
    BY <2>3 DEF Endpoint, Renewed, Again
  <2> QED BY <1>4, <2>2, <2>4 DEF Result, WikimediaResult, Asked
<1> QED BY <1>1, <1>2, <1>3, <1>4 DEF MainDecided

(* A page that is parsed is not found only if its ad has ended. *)
LEMMA PageNotFound ==
  ASSUME NEW j, j.site \in PageSites, PageOutcome(j).reason = "NOT_FOUND"
  PROVE  j.site = "mercadolivre" /\ j.page.ended
<1> USE DEF PageOutcome, Rot, Fails, Outcome, One, Listing
<1>1. j.site # "amazon"
  BY DEF AmazonFetch, AmazonSearch, AmazonProduct
<1>2. j.site = "mercadolivre" => j.page.ended
  BY DEF MercadoLivreFetch, MercadoLivreSearch, MercadoLivreProduct
<1>3. j.site # "olx"
  BY DEF OlxFetch, OlxListing, OlxDetail
<1>4. j.site # "petlove"
  BY DEF PetloveFetch, PetloveSearch, PetloveProduct
<1>5. j.site # "realestate"
  BY DEF RealEstateFetch, RealEstateList, RealEstateDetail
<1>6. j.site # "aliexpress"
  BY DEF AliExpressSearch
<1>7. j.site # "shopee"
  BY DEF ShopeeProduct
<1>8. j.site # "google_shopping"
  BY DEF GoogleShopping
<1> QED BY <1>1, <1>2, <1>3, <1>4, <1>5, <1>6, <1>7, <1>8 DEF PageSites

(* What is concluded is NOT_FOUND only when an answer said so.             *)
LEMMA NotFoundResult ==
  ASSUME NEW j, j.site \in AdapterSites, NEW g, NEW asProbe, NEW coin,
         j.site \notin {"wikimedia", "scholar"} => "main" \in DOMAIN g
  PROVE  NotFoundTold(j, g, Result(j, g, asProbe, coin))
<1> SUFFICES ASSUME j.site \notin {"scholar", "gitlab"},
                    NEW e, e = Result(j, g, asProbe, coin), e.reason = "NOT_FOUND",
                    "unknown_version" \notin j.facts,
                    ~(j.site = "mercadolivre" /\ j.page.ended)
             PROVE  \E p \in DOMAIN g : g[p] \in Absent \union {"none", "not_found", "gone"}
  BY DEF NotFoundTold
<1> USE DEF Declines, Rot, Fails, Gives, Outcome
<1>1. CASE j.site = "steam"
  BY <1>1 DEF Result, SteamResult, TierReason, PlainRaisedReason, TierRaises, TierOk, Void
<1>2. CASE j.site = "github"
  BY <1>2 DEF Result, GitHubResult
<1>3. CASE j.site = "npm"
  BY <1>3 DEF Result, NpmResult, WebReason
<1>4. CASE j.site = "shopify"
  BY <1>4 DEF Result, ShopifyResult, ShopifyFailure, TierReason, PlainRaisedReason
<1>5. CASE j.site = "phabricator"
  BY <1>5 DEF Result, PhabricatorResult, TierReason, RaisedReason
<1>6. CASE j.site = "wikimedia"
  BY <1>6 DEF Result, WikimediaResult
<1>7. CASE j.site = "youtube"
  <2> DEFINE failed == {p \in {"captions", "segments"} \intersect DOMAIN g : g[p] \in YtDlpFails}
  <2>1. \A a : YtDlpReason(a) = "NOT_FOUND" => a = "gone"
    BY DEF YtDlpReason
  <2>2. e = YouTubeResult(j, g)
    BY <1>7 DEF Result
  <2>3. CASE g["main"] \in YtDlpFails
    <3>1. YtDlpReason(g["main"]) = "NOT_FOUND"
      BY <2>2, <2>3 DEF YouTubeResult
    <3> QED BY <1>7, <2>1, <3>1
  <2>4. CASE g["main"] \notin YtDlpFails
    <3>1. e = YouTubeVideo(j, g)
      BY <2>2, <2>4 DEF YouTubeResult, YouTubeList
    <3>2. failed # {} /\ YtDlpReason(g[CHOOSE p \in failed : TRUE]) = "NOT_FOUND"
      BY <3>1 DEF YouTubeVideo
    <3>3. (CHOOSE p \in failed : TRUE) \in failed
      <4> HIDE DEF failed
      <4> QED BY <3>2
    <3> QED BY <2>1, <3>2, <3>3
  <2> QED BY <2>3, <2>4
<1>8. CASE j.site = "wayback"
  BY <1>8 DEF Result, WaybackResult
<1>9. CASE j.site \in PageSites
  <2>1. e = PageResult(j, g) /\ "main" \in DOMAIN g
    BY <1>9 DEF Result, PageSites
  <2>2. CASE j.site = "aliexpress" /\ j.kind = "product"
    <3>1. e = AliExpressOutcome(j, g)
      BY <2>1, <2>2 DEF PageResult
    <3>2. TierReason(g["main"]) = "NOT_FOUND"
      BY <3>1 DEF AliExpressOutcome, AliExpressProduct, RaisedReason
    <3> QED BY <2>1, <3>2 DEF TierReason
  <2>3. CASE ~(j.site = "aliexpress" /\ j.kind = "product")
    <3>1. e = IF Acquired(g["main"]) THEN PageOutcome(j) ELSE NotAcquired(g["main"])
      BY <2>1, <2>3 DEF PageResult
    <3>2. e = NotAcquired(g["main"])
      BY <1>9, <3>1, PageNotFound
    <3> QED BY <2>1, <3>2 DEF NotAcquired, TierReason, RaisedReason
  <2> QED BY <2>2, <2>3
<1> QED BY <1>1, <1>2, <1>3, <1>4, <1>5, <1>6, <1>7, <1>8, <1>9 DEF AdapterSites, Probed

(* The answers of a fetch when one more has come, and what it awaits then.  *)
After(g, part, a) ==
  [p \in DOMAIN g \union {part} |-> IF p \in DOMAIN g THEN g[p] ELSE a]
Beyond(j, l, part, a) == ((l \ {part}) \union Along(part, a)) \ GivenUp(j, part, a)

(* What an answer changes of the answers and of what is awaited. *)
LEMMA AnswerTaken ==
  ASSUME NEW j, NEW l, NEW g, NEW part \in l, NEW a
  PROVE  /\ DOMAIN After(g, part, a) = DOMAIN g \union {part}
         /\ \A p \in DOMAIN g : After(g, part, a)[p] = g[p]
         /\ part \notin DOMAIN g => After(g, part, a)[part] = a
         /\ Beyond(j, l, part, a) \subseteq l \union {"low", "history"}
         /\ part # "game" => Beyond(j, l, part, a) \subseteq l
         /\ "main" \in l \union DOMAIN g =>
              "main" \in Beyond(j, l, part, a) \union DOMAIN After(g, part, a)
BY DEF After, Beyond, Along, GivenUp

(* The article of wikimedia is behind the same answers when one more comes. *)
LEMMA ArticleKept ==
  ASSUME NEW j, j.site = "wikimedia", NEW l, NEW g, ArticleInv(j, l, g),
         NEW part \in l, NEW a \in Answers(j, part),
         NEW h, h = After(g, part, a)
  PROVE  /\ \A m : m \subseteq Beyond(j, l, part, a) => ArticleInv(j, m, h)
         /\ (l \union DOMAIN g) \intersect ArticleParts # {} => Passed(j, h)
<1>1. /\ DOMAIN h = DOMAIN g \union {part}
      /\ \A p \in DOMAIN g : h[p] = g[p]
      /\ part \notin DOMAIN g => h[part] = a
  BY DEF After
<1>2. \A p \in DOMAIN g : Said(h, p) = Said(g, p)
  BY <1>1 DEF Said
<1>3. ASSUME (l \union DOMAIN g) \intersect ArticleParts # {}
      PROVE  "redirect" \in DOMAIN h /\ Passed(j, h) /\ l \subseteq ArticleParts
  <2>1. "redirect" \in DOMAIN g /\ Passed(j, g) /\ l \subseteq ArticleParts
    BY <1>3 DEF ArticleInv
  <2>2. part \in ArticleParts
    BY <2>1
  <2>3. \A p \in {"structured", "structured_token", "structured_again"} :
          (p \in DOMAIN h <=> p \in DOMAIN g) /\ (p \in DOMAIN g => h[p] = g[p])
    BY <1>1, <2>2 DEF ArticleParts
  <2>4. Endpoint(h, "structured") = Endpoint(g, "structured")
    BY <2>3 DEF Endpoint, Renewed, Again
  <2> QED BY <1>1, <2>1, <2>4 DEF Passed
<1>4. "article_again" \in l \union DOMAIN g =>
        Said(h, "article") = "rejected" /\ Said(h, "article_token") = "good"
  <2> SUFFICES ASSUME "article_again" \in l \union DOMAIN g
               PROVE  Said(h, "article") = "rejected" /\ Said(h, "article_token") = "good"
    OBVIOUS
  <2>1. Said(g, "article") = "rejected" /\ Said(g, "article_token") = "good"
    BY DEF ArticleInv
  <2>2. "article" \in DOMAIN g /\ "article_token" \in DOMAIN g
    BY <2>1 DEF Said
  <2> QED BY <1>2, <2>1, <2>2
<1>5. "article" \in DOMAIN h => h["article"] \in Request
  <2>1. CASE "article" \in DOMAIN g
    BY <1>1, <2>1 DEF ArticleInv
  <2>2. CASE part = "article"
    BY <1>1, <2>1, <2>2 DEF Answers
  <2> QED BY <1>1, <2>1, <2>2
<1>6. ASSUME NEW m, m \subseteq Beyond(j, l, part, a)
      PROVE  ArticleInv(j, m, h)
  <2>. /\ m \subseteq l \union {"low", "history"}
       /\ part # "game" => m \subseteq l
    BY <1>6, AnswerTaken
  <2>1. (m \union DOMAIN h) \intersect ArticleParts # {} =>
          (l \union DOMAIN g) \intersect ArticleParts # {}
    BY <1>1, <1>6 DEF ArticleParts
  <2>2. "article_again" \in m \union DOMAIN h => "article_again" \in l \union DOMAIN g
    BY <1>1, <1>6
  <2>3. (l \union DOMAIN g) \intersect ArticleParts # {} => m \subseteq ArticleParts
    <3>1. ASSUME (l \union DOMAIN g) \intersect ArticleParts # {}
          PROVE  m \subseteq ArticleParts
      <4>1. l \subseteq ArticleParts /\ part # "game"
        BY <1>3, <3>1 DEF ArticleParts
      <4> QED BY <4>1
    <3> QED BY <3>1
  <2> QED BY <1>3, <1>4, <1>5, <2>1, <2>2, <2>3 DEF ArticleInv
<1> QED BY <1>3, <1>6

(* What a fetch asks for first. *)
LEMMA FirstAwaited ==
  ASSUME NEW j, NEW held, NEW g, DOMAIN g = {}
  PROVE  /\ Awaits(j, FirstParts(j, held), g)
         /\ FirstParts(j, held) # {}
<1>1. CASE j.site = "wikimedia"
  BY <1>1 DEF Awaits, ArticleInv, ArticleParts, FirstParts, WikimediaParts, ListingSites
<1>2. CASE j.site = "scholar"
  BY <1>2 DEF Awaits, ArticleInv, FirstParts, ScholarParts, ScholarSources, ScholarBase, ListingSites
<1>3. CASE j.site \in ListingSites
  BY <1>3 DEF Awaits, FirstParts, ListingSites
<1>4. CASE j.site \notin ListingSites \union {"wikimedia", "scholar"}
  <2>1. "main" \in FirstParts(j, held)
    BY <1>4 DEF FirstParts, SteamParts, GitLabParts
  <2> QED BY <1>4, <2>1 DEF Awaits
<1> QED BY <1>1, <1>2, <1>3, <1>4

(* What a fetch awaits when an answer has come and others have not. *)
LEMMA SomeAwaited ==
  ASSUME NEW j, NEW l, NEW g, Awaits(j, l, g), NEW part \in l, NEW a \in Answers(j, part),
         Beyond(j, l, part, a) # {}
  PROVE  Awaits(j, Beyond(j, l, part, a), After(g, part, a))
<1>1. j.site \notin {"wikimedia", "scholar"} =>
        "main" \in Beyond(j, l, part, a) \union DOMAIN After(g, part, a)
  <2>1. "main" \in l \union DOMAIN g =>
          "main" \in Beyond(j, l, part, a) \union DOMAIN After(g, part, a)
    BY AnswerTaken
  <2> QED BY <2>1 DEF Awaits
<1>2. j.site = "wikimedia" => ArticleInv(j, Beyond(j, l, part, a), After(g, part, a))
  BY ArticleKept DEF Awaits
<1>3. ~(j.site \in ListingSites /\ j.kind = "search")
  BY DEF Awaits, Beyond, Along
<1> QED BY <1>1, <1>2, <1>3 DEF Awaits

(* What a fetch asks for when all it asked for has been answered. *)
LEMMA MoreAwaited ==
  ASSUME NEW j, NEW l, NEW g, Awaits(j, l, g), NEW part \in l, NEW a \in Answers(j, part),
         Beyond(j, l, part, a) = {}, NEW coin,
         NEW h, h = After(g, part, a), NextParts(j, h, coin) # {}
  PROVE  Awaits(j, NextParts(j, h, coin), h)
<1> DEFINE more == NextParts(j, h, coin)
<1>1. j.site \notin {"wikimedia", "scholar"} => "main" \in DOMAIN h
  <2>1. "main" \in l \union DOMAIN g => "main" \in Beyond(j, l, part, a) \union DOMAIN h
    BY AnswerTaken
  <2> QED BY <2>1 DEF Awaits
<1>2. ~(j.site \in ListingSites /\ j.kind = "search")
  BY DEF NextParts, AliExpressThen, ListingSites
<1>3. ASSUME j.site = "wikimedia"
      PROVE  ArticleInv(j, more, h)
  <2>1. more = WikimediaThen(j, h)
    BY <1>3 DEF NextParts
  <2>2. ArticleInv(j, {}, h)
    BY <1>3, ArticleKept DEF Awaits
  <2> HIDE DEF more
  <2>3. CASE "redirect" \notin DOMAIN h
    BY <2>1, <2>2, <2>3 DEF WikimediaThen, ArticleInv, ArticleParts
  <2>4. CASE "redirect" \in DOMAIN h /\ Passed(j, h)
    <3>1. \/ more = {"article"} \/ more = {"article_token"}
          \/ more = {"article_again"} /\ Endpoint(h, "article") = "ask_again"
      BY <1>3, <2>1, <2>4 DEF WikimediaThen, Asked, Renewed, Again, more
    <3>2. "article" \in DOMAIN h => h["article"] \in Request
      BY <2>2 DEF ArticleInv
    <3>3. Endpoint(h, "article") = "ask_again" =>
            \/ "article_again" \in DOMAIN h
            \/ Said(h, "article") = "rejected" /\ Said(h, "article_token") = "good"
      BY <3>2 DEF Endpoint, Renewed, Again, Request, Said
    <3> QED BY <2>2, <2>4, <3>1, <3>3 DEF ArticleInv, ArticleParts
  <2>5. CASE "redirect" \in DOMAIN h /\ ~Passed(j, h)
    <3>1. more \intersect ArticleParts = {}
      BY <2>1, <2>5 DEF WikimediaThen, Asked, Renewed, Again, ArticleParts
    <3> QED BY <2>2, <2>5, <3>1 DEF ArticleInv, ArticleParts
  <2> QED BY <2>3, <2>4, <2>5
<1> QED BY <1>1, <1>2, <1>3 DEF Awaits

(* What is concluded when nothing is left to ask. *)
LEMMA EndConcluded ==
  ASSUME NEW j, j.site \in AdapterSites, j.kind = "search" => SearchPage(j),
         NEW l, NEW g, Awaits(j, l, g), NEW part \in l, NEW a \in Answers(j, part),
         Beyond(j, l, part, a) = {}, NEW coin, NEW asProbe, asProbe => j.site \in Probed,
         NEW h, h = After(g, part, a)
  PROVE  Concluded(j, h, asProbe, Result(j, h, asProbe, coin))
<1>1. j.site \notin {"wikimedia", "scholar"} => "main" \in DOMAIN h
  <2>1. "main" \in l \union DOMAIN g => "main" \in Beyond(j, l, part, a) \union DOMAIN h
    BY AnswerTaken
  <2> QED BY <2>1 DEF Awaits
<1>2. MainDecided(j, h, Result(j, h, asProbe, coin))
  <2>1. j.site = "wikimedia" => ArticleInv(j, {}, h)
    BY ArticleKept DEF Awaits
  <2> QED BY <2>1, MainResult
<1>3. NotFoundTold(j, h, Result(j, h, asProbe, coin))
  BY <1>1, NotFoundResult
<1>4. ProbePassed(h, asProbe, Result(j, h, asProbe, coin))
  <2>1. CASE asProbe
    BY <1>1, <2>1, ProbeResult DEF Probed
  <2>2. CASE ~asProbe
    BY <2>2 DEF ProbePassed
  <2> QED BY <2>1, <2>2
<1>5. ListedPage(j, Result(j, h, asProbe, coin))
  <2>1. ASSUME j.site \in ListingSites, j.kind = "search"
        PROVE  h["main"] \in MainAnswers(j)
    <3>1. part = "main" /\ DOMAIN g = {}
      BY <2>1 DEF Awaits
    <3>2. h["main"] = a
      BY <3>1 DEF After
    <3> QED BY <3>1, <3>2 DEF Answers
  <2> QED BY <2>1, ListedResult
<1> QED BY <1>2, <1>3, <1>4, <1>5 DEF Concluded

(* The variables of the adapters are functions of the fetches. *)
LEMMA AdapterShapeKept ==
  ASSUME AdapterShape, [AdapterNext]_adapterVars
  PROVE  AdapterShape'
<1> USE DEF AdapterShape
<1>1. CASE UNCHANGED adapterVars
  BY <1>1 DEF adapterVars
<1>2. CASE Restart
  BY <1>2 DEF Restart
<1>3. ASSUME NEW f \in Fetches, AdapterStep(f)
      PROVE  AdapterShape'
  <2>1. CASE RefuseShape(f)
    BY <2>1 DEF RefuseShape
  <2>2. CASE Start(f) \/ StartByVerdict(f)
    BY <2>2 DEF Start, StartByVerdict, Sends
  <2>3. CASE PassBy(f)
    BY <2>3 DEF PassBy
  <2>4. CASE Answered(f)
    BY <2>4 DEF Answered, Take
  <2>5. CASE AskMore(f)
    BY <2>5 DEF AskMore, Take
  <2>6. CASE End(f)
    BY <2>6 DEF End, Take
  <2> QED BY <1>3, <2>1, <2>2, <2>3, <2>4, <2>5, <2>6 DEF AdapterStep
<1>4. CASE (\E s \in Probed : Expire(s)) \/ Lapse
  BY <1>4 DEF Expire, Lapse
<1> QED BY <1>1, <1>2, <1>3, <1>4 DEF AdapterNext

AloneOf(f) ==
  /\ job' = job
  /\ \A h \in Fetches \ {f} :
       /\ pc'[h] = pc[h] /\ left'[h] = left[h] /\ got'[h] = got[h]
       /\ probe'[h] = probe[h] /\ env'[h] = env[h]
(* A step of one fetch leaves the others as they are.                      *)
LEMMA StepIsAlone ==
  ASSUME AdapterShape, NEW f \in Fetches, AdapterStep(f)
  PROVE  AloneOf(f)
<1> USE DEF AdapterShape, AloneOf
<1>1. CASE RefuseShape(f)
  BY <1>1 DEF RefuseShape
<1>2. CASE Start(f) \/ StartByVerdict(f)
  BY <1>2 DEF Start, StartByVerdict, Sends
<1>3. CASE PassBy(f)
  BY <1>3 DEF PassBy
<1>4. CASE Answered(f)
  BY <1>4 DEF Answered, Take
<1>5. CASE AskMore(f)
  BY <1>5 DEF AskMore, Take
<1>6. CASE End(f)
  BY <1>6 DEF End, Take
<1> QED BY <1>1, <1>2, <1>3, <1>4, <1>5, <1>6 DEF AdapterStep

(* What a step makes of its own fetch. *)
LEMMA StepIsGood ==
  ASSUME AdapterShape, NEW f \in Fetches, FetchGood(f), AdapterStep(f), job' = job,
         AdaptersAssumption
  PROVE  FetchGood(f)'
<1> DEFINE j == job[f]
           l == left[f]
           g == got[f]
<1>1. job'[f] = j /\ (j.kind = "search" => SearchPage(j))
  BY DEF AdapterShape, AdaptersAssumption
<1>2. CASE RefuseShape(f)
  <2>1. /\ pc[f] = "new" /\ pc'[f] = "ended" /\ env'[f] = Refusal(j)
        /\ got'[f] = g /\ probe'[f] = probe[f] /\ ~Nothing(Refusal(j))
    BY <1>2 DEF RefuseShape, AdapterShape
  <2>2. DOMAIN g = {} /\ ~probe[f]
    BY <2>1 DEF FetchGood
  <2>3. Refusal(j).reason \notin {"ok", "NOT_FOUND"}
    BY DEF Refusal, Fails, NoOutcome, Outcome
  <2>4. Concluded(j, g, probe[f], Refusal(j))
    BY <2>2, <2>3
    DEF Concluded, MainDecided, NotFoundTold, ProbePassed, ListedPage, Said
  <2> QED BY <1>1, <2>1, <2>2, <2>4 DEF FetchGood
<1>3. CASE Start(f) \/ StartByVerdict(f)
  <2>1. /\ pc[f] = "new" /\ pc'[f] = "waiting" /\ left'[f] = FirstParts(j, token) /\ got'[f] = g
        /\ probe'[f] = probe[f] \/ j.site \in Probed
    BY <1>3 DEF Start, StartByVerdict, Sends, AdapterShape
  <2>2. DOMAIN g = {} /\ ~probe[f] /\ j.site \in AdapterSites
    BY <2>1 DEF FetchGood
  <2>3. Awaits(j, FirstParts(j, token), g)
    <3> HIDE DEF j, g
    <3> QED BY <2>2, FirstAwaited
  <2> QED BY <1>1, <2>1, <2>2, <2>3 DEF FetchGood
<1>4. CASE PassBy(f)
  <2>1. /\ pc[f] = "new" /\ pc'[f] = "ended" /\ env'[f] = Declines
        /\ got'[f] = g /\ probe'[f] = probe[f]
    BY <1>4 DEF PassBy, AdapterShape
  <2>2. DOMAIN g = {} /\ ~probe[f]
    BY <2>1 DEF FetchGood
  <2>3. Concluded(j, g, probe[f], Declines)
    BY <2>2
    DEF Concluded, MainDecided, NotFoundTold, ProbePassed, ListedPage, Said, Declines, Fails, Outcome
  <2> QED BY <1>1, <2>1, <2>2, <2>3 DEF FetchGood
<1>5. CASE Answered(f)
  <2> DEFINE Comes(part, a) ==
              /\ Take(f, part, a) /\ Still(f, part, a) # {}
              /\ left' = [left EXCEPT ![f] = Still(f, part, a)]
  <2>0. PICK part \in l : \E a \in Answers(j, part) : Comes(part, a)
    BY <1>5 DEF Answered
  <2>1. PICK a \in Answers(j, part) : Comes(part, a)
    BY <2>0
  <2>2. /\ pc[f] = "waiting" /\ pc'[f] = "waiting" /\ probe'[f] = probe[f]
        /\ got'[f] = After(g, part, a) /\ left'[f] = Beyond(j, l, part, a)
        /\ Beyond(j, l, part, a) # {}
    BY <1>5, <2>1 DEF Answered, Take, With, Still, After, Beyond, AdapterShape
  <2>3. Awaits(j, left'[f], got'[f])
    BY <2>2, SomeAwaited DEF FetchGood
  <2> QED BY <1>1, <2>2, <2>3 DEF FetchGood
<1>6. CASE AskMore(f)
  <2> DEFINE Comes(part, a) ==
              /\ Take(f, part, a) /\ Still(f, part, a) = {}
              /\ NextParts(j, With(f, part, a), money) # {}
              /\ left' = [left EXCEPT ![f] = NextParts(j, With(f, part, a), money)]
  <2>0. PICK part \in l : \E a \in Answers(j, part) : Comes(part, a)
    BY <1>6 DEF AskMore
  <2>1. PICK a \in Answers(j, part) : Comes(part, a)
    BY <2>0
  <2>2. /\ pc[f] = "waiting" /\ pc'[f] = "waiting" /\ probe'[f] = probe[f]
        /\ With(f, part, a) = After(g, part, a) /\ got'[f] = With(f, part, a)
        /\ left'[f] = NextParts(j, With(f, part, a), money)
        /\ Beyond(j, l, part, a) = {}
    BY <1>6, <2>1 DEF AskMore, Take, With, Still, After, Beyond, AdapterShape
  <2>3. Awaits(j, left'[f], got'[f])
    BY <2>1, <2>2, MoreAwaited DEF FetchGood
  <2> QED BY <1>1, <2>2, <2>3 DEF FetchGood
<1>7. CASE End(f)
  <2> DEFINE Comes(part, a) ==
              /\ Take(f, part, a) /\ Still(f, part, a) = {}
              /\ env' = [env EXCEPT ![f] =
                           Result(j, With(f, part, a), probe[f], Currency(part, a))]
  <2>0. PICK part \in l : \E a \in Answers(j, part) : Comes(part, a)
    BY <1>7 DEF End
  <2>1. PICK a \in Answers(j, part) : Comes(part, a)
    BY <2>0
  <2>2. /\ pc[f] = "waiting" /\ pc'[f] = "ended" /\ probe'[f] = probe[f]
        /\ With(f, part, a) = After(g, part, a) /\ got'[f] = With(f, part, a)
        /\ env'[f] = Result(j, With(f, part, a), probe[f], Currency(part, a))
        /\ Beyond(j, l, part, a) = {}
    BY <1>7, <2>1 DEF End, Take, With, Still, After, Beyond, AdapterShape
  <2>3. Awaits(j, l, g) /\ j.site \in AdapterSites /\ (probe[f] => j.site \in Probed)
    BY <2>2 DEF FetchGood
  <2>4. Concluded(j, got'[f], probe[f], env'[f])
    BY <1>1, <2>2, <2>3, EndConcluded
  <2> QED BY <1>1, <2>2, <2>3, <2>4 DEF FetchGood
<1> QED BY <1>2, <1>3, <1>4, <1>5, <1>6, <1>7 DEF AdapterStep

(* No fetch has asked anything at first. *)
LEMMA AdapterInitially ==
  ASSUME AdaptersAssumption, AdapterInit PROVE AdapterInv
<1>1. AdapterShape
  BY DEF AdapterInit, AdapterShape
<1>2. ASSUME NEW f \in Fetches
      PROVE  FetchGood(f)
  BY DEF AdapterInit, FetchGood, AdaptersAssumption, NoAnswers
<1> QED BY <1>1, <1>2 DEF AdapterInv

(* Whatever happens leaves every fetch good: its own steps, those of the   *)
(* others, a restart of the process, and a memory that expires.            *)
LEMMA AdapterInvStep ==
  ASSUME AdaptersAssumption, AdapterInv, [AdapterNext]_adapterVars
  PROVE  AdapterInv'
<1>1. AdapterShape /\ AdapterShape'
  BY AdapterShapeKept DEF AdapterInv
<1>2. ASSUME NEW f \in Fetches, FetchGood(f)
      PROVE  FetchGood(f)'
  <2>1. CASE \/ UNCHANGED adapterVars \/ Lapse
             \/ \E s \in Probed : Expire(s)
    <3>1. UNCHANGED <<job, pc, left, got, probe, env>>
      BY <2>1 DEF adapterVars, Lapse, Expire
    <3> QED BY <1>2, <3>1 DEF FetchGood
  <2>2. CASE Restart
    <3>1. /\ UNCHANGED <<job, got, probe, env>>
          /\ pc'[f] = IF pc[f] = "waiting" THEN "dead" ELSE pc[f]
      BY <2>2 DEF Restart
    <3> QED BY <1>2, <3>1 DEF FetchGood
  <2>3. ASSUME NEW h \in Fetches, AdapterStep(h)
        PROVE  FetchGood(f)'
    <3>1. AloneOf(h)
      BY <1>1, <2>3, StepIsAlone
    <3>2. CASE h = f
      BY <1>1, <1>2, <2>3, <3>1, <3>2, StepIsGood DEF AloneOf
    <3>3. CASE h # f
      BY <1>2, <3>1, <3>3 DEF FetchGood, AloneOf
    <3> QED BY <3>2, <3>3
  <2> QED BY <2>1, <2>2, <2>3 DEF AdapterNext
<1> QED BY <1>1, <1>2 DEF AdapterInv

(* The invariant of the adapters holds always. *)
LEMMA AdapterInvariance == AdapterSpec => []AdapterInv
<1>1. AdapterInit => AdapterInv
  BY AdaptersAssumption, AdapterInitially
<1>2. AdapterInv /\ [AdapterNext]_adapterVars => AdapterInv'
  BY AdaptersAssumption, AdapterInvStep
<1> QED BY <1>1, <1>2, PTL DEF AdapterSpec

(* What ends a fetch is an outcome, whatever it was given.                 *)
LEMMA PageHasOutcome ==
  ASSUME NEW j, j.site \in PageSites
  PROVE  PageOutcome(j).reason # "none"
<1> USE DEF PageOutcome, Rot, Fails, Outcome, One, Listing
<1>1. CASE j.site = "amazon"
  BY <1>1 DEF AmazonFetch, AmazonSearch, AmazonProduct
<1>2. CASE j.site = "mercadolivre"
  BY <1>2 DEF MercadoLivreFetch, MercadoLivreSearch, MercadoLivreProduct
<1>3. CASE j.site = "olx"
  BY <1>3 DEF OlxFetch, OlxListing, OlxDetail
<1>4. CASE j.site = "petlove"
  BY <1>4 DEF PetloveFetch, PetloveSearch, PetloveProduct
<1>5. CASE j.site = "realestate"
  BY <1>5 DEF RealEstateFetch, RealEstateList, RealEstateDetail
<1>6. CASE j.site = "aliexpress"
  BY <1>6 DEF AliExpressSearch
<1>7. CASE j.site = "shopee"
  BY <1>7 DEF ShopeeProduct
<1>8. CASE j.site = "google_shopping"
  BY <1>8 DEF GoogleShopping
<1> QED BY <1>1, <1>2, <1>3, <1>4, <1>5, <1>6, <1>7, <1>8 DEF PageSites

LEMMA FetchHasOutcome ==
  ASSUME NEW j, j.site \in AdapterSites, NEW g, NEW asProbe, NEW coin,
         NEW e, e = Result(j, g, asProbe, coin)
  PROVE  e.reason # "none"
<1>0. \A a : /\ TierReason(a) # "none" /\ RaisedReason(a) # "none" /\ PlainRaisedReason(a) # "none"
             /\ WebReason(a) # "none" /\ YtDlpReason(a) # "none"
  BY DEF TierReason, RaisedReason, PlainRaisedReason, WebReason, YtDlpReason
<1> USE <1>0 DEF Declines, Rot, Fails, Gives, Outcome
<1>1. CASE j.site = "steam"
  BY <1>1 DEF Result, SteamResult
<1>2. CASE j.site = "github"
  BY <1>2 DEF Result, GitHubResult
<1>3. CASE j.site = "npm"
  BY <1>3 DEF Result, NpmResult
<1>4. CASE j.site \in Probed
  BY <1>4 DEF Probed, Result, ShopifyResult, ShopifyFailure, GitLabResult, GitLabFailure
<1>5. CASE j.site = "phabricator"
  BY <1>5 DEF Result, PhabricatorResult
<1>6. CASE j.site = "wikimedia"
  BY <1>6 DEF Result, WikimediaResult
<1>7. CASE j.site = "youtube"
  BY <1>7 DEF Result, YouTubeResult, YouTubeList, YouTubeVideo
<1>8. CASE j.site \in {"wayback", "scholar"}
  BY <1>8 DEF Result, WaybackResult, ScholarResult
<1>9. CASE j.site \in PageSites
  <2>1. e = PageResult(j, g)
    BY <1>9 DEF Result, PageSites
  <2> QED BY <1>9, <2>1, PageHasOutcome DEF PageResult, AliExpressOutcome, AliExpressProduct, NotAcquired
<1> QED BY <1>1, <1>2, <1>3, <1>4, <1>5, <1>6, <1>7, <1>8, <1>9 DEF AdapterSites

(* The readmes of a repository are asked for in turn, and the prices of a  *)
(* game after the game.                                                    *)
UpToReadme(k) == {"main"} \union {ReadmeNames[i] : i \in 1..k}
AskedOnce(j, l, g) ==
  /\ l \intersect DOMAIN g = {}
  /\ \A p \in DOMAIN g : g[p] \in Answers(j, p)
  /\ "game" \in l => {"low", "history"} \intersect (l \union DOMAIN g) = {}
  /\ j.site = "github" => \E k \in 0..5 : l \union DOMAIN g = UpToReadme(k)

LEMMA FirstOnce ==
  ASSUME NEW j, NEW held, NEW g, DOMAIN g = {}
  PROVE  AskedOnce(j, FirstParts(j, held), g)
<1>1. {"low", "history"} \intersect FirstParts(j, held) = {}
  BY DEF FirstParts, SteamParts, GitLabParts, WikimediaParts, ScholarParts, ScholarSources, ScholarBase
<1>2. j.site = "github" => FirstParts(j, held) \union DOMAIN g = UpToReadme(0)
  BY DEF FirstParts, UpToReadme
<1> QED BY <1>1, <1>2 DEF AskedOnce

(* An answer that has come is not awaited.                                 *)
LEMMA TakenOnce ==
  ASSUME NEW j, NEW l, NEW g, AskedOnce(j, l, g), NEW part \in l, NEW a \in Answers(j, part)
  PROVE  AskedOnce(j, Beyond(j, l, part, a), After(g, part, a))
<1> DEFINE m == Beyond(j, l, part, a)
           h == After(g, part, a)
<1>1. /\ DOMAIN h = DOMAIN g \union {part} /\ part \notin DOMAIN g
      /\ \A p \in DOMAIN g : h[p] = g[p]
      /\ h[part] = a
  BY DEF After, AskedOnce
<1>2. \A p \in DOMAIN h : h[p] \in Answers(j, p)
  BY <1>1 DEF AskedOnce
<1>3. CASE part = "game"
  <2>1. m \subseteq (l \ {part}) \union {"low", "history"}
    BY DEF Beyond, Along
  <2>2. m \intersect DOMAIN h = {} /\ "game" \notin m
    BY <1>1, <1>3, <2>1 DEF AskedOnce
  <2>3. j.site # "github"
    <3>1. ASSUME NEW k \in 0..5 PROVE "game" \notin UpToReadme(k)
      BY DEF UpToReadme, ReadmeNames
    <3> QED BY <1>3, <3>1 DEF AskedOnce
  <2> HIDE DEF m, h
  <2>4. AskedOnce(j, m, h)
    BY <1>2, <2>2, <2>3 DEF AskedOnce
  <2> QED BY <2>4 DEF m, h
<1>4. CASE part # "game"
  <2>1. m \subseteq l \ {part}
    BY <1>4 DEF Beyond, Along
  <2>2. m \intersect DOMAIN h = {} /\ m \union DOMAIN h \subseteq l \union DOMAIN g
    BY <1>1, <2>1 DEF AskedOnce
  <2>3. j.site = "github" => m \union DOMAIN h = l \union DOMAIN g
    <3>1. j.site = "github" => part \notin {"low", "history", "captions", "segments"}
      <4>1. ASSUME NEW k \in 0..5
            PROVE  {"low", "history", "captions", "segments"} \intersect UpToReadme(k) = {}
        BY DEF UpToReadme, ReadmeNames
      <4> QED BY <4>1 DEF AskedOnce
    <3>2. j.site = "github" => m = l \ {part}
      BY <1>4, <3>1 DEF Beyond, Along, GivenUp
    <3> QED BY <1>1, <3>2
  <2> HIDE DEF m, h
  <2>4. j.site = "github" => \E k \in 0..5 : m \union DOMAIN h = UpToReadme(k)
    BY <2>3 DEF AskedOnce
  <2>5. "game" \in m => {"low", "history"} \intersect (m \union DOMAIN h) = {}
    BY <2>1, <2>2 DEF AskedOnce
  <2>6. AskedOnce(j, m, h)
    BY <1>2, <2>2, <2>4, <2>5 DEF AskedOnce
  <2> QED BY <2>6 DEF m, h
<1> QED BY <1>3, <1>4

(* The readmes that come next have not been asked for yet.                 *)
LEMMA ReadmesOnce ==
  ASSUME NEW j, j.site = "github", NEW h, AskedOnce(j, {}, h), GitHubThen(h) # {}
  PROVE  /\ GitHubThen(h) \intersect DOMAIN h = {}
         /\ \E k \in 0..5 : GitHubThen(h) \union DOMAIN h = UpToReadme(k)
<1>0. DOMAIN ReadmeNames = 1..5
  BY DEF ReadmeNames
<1>1. \A m, n \in 1..5 : ReadmeNames[m] = ReadmeNames[n] => m = n
  BY DEF ReadmeNames
<1>2. \A n \in 1..5 : ReadmeNames[n] # "main"
  BY DEF ReadmeNames
<1>3. PICK k \in 0..5 : DOMAIN h = UpToReadme(k)
  BY DEF AskedOnce
<1>4. ~ReadmeFound(h) /\ Missed(h) # DOMAIN ReadmeNames
      /\ GitHubThen(h) = {ReadmeNames[Cardinality(Missed(h)) + 1]}
  BY DEF GitHubThen
<1>5. \A n \in 1..5 : ReadmeNames[n] \in DOMAIN h <=> n <= k
  BY <1>1, <1>2, <1>3 DEF UpToReadme
<1>6. Missed(h) = 1..k
  BY <1>0, <1>4, <1>5 DEF Missed, ReadmeFound
<1>7. k < 5 /\ Cardinality(Missed(h)) = k
  <2>1. k < 5
    BY <1>0, <1>4, <1>6
  <2>2. Cardinality(1..k) = IF 1 > k THEN 0 ELSE k - 1 + 1
    BY FS_Interval
  <2> QED BY <1>6, <2>1, <2>2
<1>8. GitHubThen(h) = {ReadmeNames[k + 1]} /\ ReadmeNames[k + 1] \notin DOMAIN h
  BY <1>4, <1>5, <1>7
<1>9. UpToReadme(k + 1) = UpToReadme(k) \union {ReadmeNames[k + 1]}
  BY DEF UpToReadme
<1> QED BY <1>3, <1>7, <1>8, <1>9

(* What is asked for next has not been asked for. *)
LEMMA MoreOnce ==
  ASSUME NEW j, NEW h, AskedOnce(j, {}, h), NEW coin, NextParts(j, h, coin) # {}
  PROVE  AskedOnce(j, NextParts(j, h, coin), h)
<1> DEFINE more == NextParts(j, h, coin)
<1>1. CASE j.site = "github"
  <2>1. more = GitHubThen(h)
    BY <1>1 DEF NextParts
  <2>2. "game" \notin more
    <3>1. ASSUME NEW k \in 0..5 PROVE "game" \notin UpToReadme(k)
      BY DEF UpToReadme, ReadmeNames
    <3> QED BY <1>1, <2>1, <3>1, ReadmesOnce
  <2> QED BY <1>1, <2>1, <2>2, ReadmesOnce DEF AskedOnce
<1>2. CASE j.site = "wikimedia"
  <2>1. more = WikimediaThen(j, h)
    BY <1>2 DEF NextParts
  <2>2. \A e \in {"article", "structured"} : e \in DOMAIN h => h[e] \in Request
    BY DEF AskedOnce, Answers
  <2>3. \A e \in {"article", "structured"} :
          /\ e \in DOMAIN h => Endpoint(h, e) # "ask"
          /\ Renewed(e) \in DOMAIN h => Endpoint(h, e) # "renew"
          /\ Again(e) \in DOMAIN h => Endpoint(h, e) # "ask_again"
    <3>1. \A e \in {"article", "structured"} :
            Again(e) \in DOMAIN h => h[Again(e)] \in Request
      BY DEF AskedOnce, Answers, Again
    <3> QED BY <2>2, <3>1 DEF Endpoint, Request
  <2>4. Asked(j, h) \in {"article", "structured"}
    BY DEF Asked
  <2>5. more \intersect DOMAIN h = {}
    BY <2>1, <2>3, <2>4 DEF WikimediaThen
  <2>6. "game" \notin more
    BY <2>1, <2>4 DEF WikimediaThen, Renewed, Again
  <2> QED BY <1>2, <2>5, <2>6 DEF AskedOnce
<1>3. CASE j.site \notin {"github", "wikimedia"}
  <2>1. more \intersect DOMAIN h = {} /\ "game" \notin more
    BY <1>3 DEF NextParts, NpmThen, GitLabThen, ShopifyThen, ScholarThen, ScholarSources,
                ScholarBase, YouTubeThen, WaybackThen, AliExpressThen
  <2> QED BY <1>3, <2>1 DEF AskedOnce
<1> QED BY <1>1, <1>2, <1>3

(* A fetch awaits something exactly while it waits, and has an outcome     *)
(* exactly when it has ended.                                              *)
OnceGood(f) ==
  /\ pc[f] \in {"new", "waiting", "ended", "dead"}
  /\ pc[f] = "new" => DOMAIN got[f] = {}
  /\ pc[f] = "waiting" => AskedOnce(job[f], left[f], got[f])
  /\ (pc[f] = "waiting") <=> (left[f] # {})
  /\ (pc[f] = "ended") <=> (env[f].reason # "none")
OnceInv == \A f \in Fetches : OnceGood(f)

MemoryTypes ==
  /\ probe \in [Fetches -> BOOLEAN]
  /\ verdict \in [Probed -> Verdicts] /\ table \in [Probed -> Verdicts]
  /\ money \in {"unasked", "none", "known"}
  /\ token \in BOOLEAN
  /\ restarts \in 0..Restarts

(* A step of a fetch keeps that of the fetch. *)
LEMMA OnceStep ==
  ASSUME AdapterShape, NEW f \in Fetches, FetchGood(f), OnceGood(f), AdapterStep(f), job' = job
  PROVE  OnceGood(f)'
<1> DEFINE j == job[f]
           l == left[f]
           g == got[f]
<1>1. job'[f] = j
  OBVIOUS
<1>2. CASE RefuseShape(f)
  <2>1. /\ pc[f] = "new" /\ pc'[f] = "ended" /\ env'[f] = Refusal(j)
        /\ left'[f] = l /\ ~Nothing(Refusal(j))
    BY <1>2 DEF RefuseShape, AdapterShape
  <2>2. Refusal(j).reason # "none"
    BY <2>1 DEF Nothing, NoOutcome, Fails, Outcome
  <2> QED BY <2>1, <2>2 DEF OnceGood
<1>3. CASE Start(f) \/ StartByVerdict(f)
  <2>1. /\ pc[f] = "new" /\ pc'[f] = "waiting" /\ left'[f] = FirstParts(j, token)
        /\ got'[f] = g /\ env'[f] = env[f]
    BY <1>3 DEF Start, StartByVerdict, Sends, AdapterShape
  <2>2. AskedOnce(j, FirstParts(j, token), g)
    BY <2>1, FirstOnce DEF OnceGood
  <2>3. FirstParts(j, token) # {}
    BY DEF FirstParts, SteamParts, GitLabParts, WikimediaParts, ScholarParts, ScholarSources,
           ScholarBase
  <2> QED BY <1>1, <2>1, <2>2, <2>3 DEF OnceGood
<1>4. CASE PassBy(f)
  <2>1. /\ pc[f] = "new" /\ pc'[f] = "ended" /\ env'[f] = Declines /\ left'[f] = l
    BY <1>4 DEF PassBy, AdapterShape
  <2>2. Declines.reason # "none"
    BY DEF Declines, Fails, Outcome
  <2> QED BY <2>1, <2>2 DEF OnceGood
<1>5. CASE Answered(f)
  <2> DEFINE Comes(part, a) ==
              /\ Take(f, part, a) /\ Still(f, part, a) # {}
              /\ left' = [left EXCEPT ![f] = Still(f, part, a)]
  <2>0. PICK part \in l : \E a \in Answers(j, part) : Comes(part, a)
    BY <1>5 DEF Answered
  <2>1. PICK a \in Answers(j, part) : Comes(part, a)
    BY <2>0
  <2>2. /\ pc[f] = "waiting" /\ pc'[f] = "waiting" /\ env'[f] = env[f]
        /\ got'[f] = After(g, part, a) /\ left'[f] = Beyond(j, l, part, a)
        /\ Beyond(j, l, part, a) # {}
    BY <1>5, <2>1 DEF Answered, Take, With, Still, After, Beyond, AdapterShape
  <2>3. AskedOnce(j, left'[f], got'[f])
    BY <2>2, TakenOnce DEF OnceGood
  <2> QED BY <1>1, <2>2, <2>3 DEF OnceGood
<1>6. CASE AskMore(f)
  <2> DEFINE Comes(part, a) ==
              /\ Take(f, part, a) /\ Still(f, part, a) = {}
              /\ NextParts(j, With(f, part, a), money) # {}
              /\ left' = [left EXCEPT ![f] = NextParts(j, With(f, part, a), money)]
  <2>0. PICK part \in l : \E a \in Answers(j, part) : Comes(part, a)
    BY <1>6 DEF AskMore
  <2>1. PICK a \in Answers(j, part) : Comes(part, a)
    BY <2>0
  <2>2. /\ pc[f] = "waiting" /\ pc'[f] = "waiting" /\ env'[f] = env[f]
        /\ got'[f] = After(g, part, a)
        /\ left'[f] = NextParts(j, After(g, part, a), money)
        /\ NextParts(j, After(g, part, a), money) # {}
        /\ Beyond(j, l, part, a) = {}
    BY <1>6, <2>1 DEF AskMore, Take, With, Still, After, Beyond, AdapterShape
  <2>3. AskedOnce(j, {}, After(g, part, a))
    BY <2>2, TakenOnce DEF OnceGood
  <2>4. AskedOnce(j, left'[f], got'[f])
    BY <2>2, <2>3, MoreOnce
  <2> QED BY <1>1, <2>2, <2>4 DEF OnceGood
<1>7. CASE End(f)
  <2> DEFINE Comes(part, a) ==
              /\ Take(f, part, a)
              /\ env' = [env EXCEPT ![f] =
                           Result(j, With(f, part, a), probe[f], Currency(part, a))]
  <2>0. PICK part \in l : \E a \in Answers(j, part) : Comes(part, a)
    BY <1>7 DEF End
  <2>1. PICK a \in Answers(j, part) : Comes(part, a)
    BY <2>0
  <2>2. /\ pc[f] = "waiting" /\ pc'[f] = "ended" /\ left'[f] = {}
        /\ env'[f] = Result(j, With(f, part, a), probe[f], Currency(part, a))
    BY <1>7, <2>1 DEF End, Take, AdapterShape
  <2>3. env'[f].reason # "none"
    BY <2>2, FetchHasOutcome DEF FetchGood
  <2> QED BY <1>1, <2>2, <2>3 DEF OnceGood
<1> QED BY <1>2, <1>3, <1>4, <1>5, <1>6, <1>7 DEF AdapterStep

(* What the adapters share keeps its types. *)
LEMMA MemoryKept ==
  ASSUME AdaptersAssumption, AdapterInv, MemoryTypes, [AdapterNext]_adapterVars
  PROVE  MemoryTypes'
<1> USE DEF MemoryTypes
<1>0. \A f \in Fetches : pc[f] = "waiting" => job[f].site \in AdapterSites
  BY DEF AdapterInv, FetchGood
<1>1. CASE UNCHANGED adapterVars
  BY <1>1 DEF adapterVars
<1>2. CASE Restart
  <2>1. restarts' \in 0..Restarts
    BY <1>2, AdaptersAssumption DEF Restart
  <2>2. verdict' \in [Probed -> Verdicts]
    BY <1>2 DEF Restart, Verdicts
  <2>3. UNCHANGED <<probe, table>> /\ money' = "unasked" /\ token' = FALSE
    BY <1>2 DEF Restart
  <2> QED BY <2>1, <2>2, <2>3
<1>3. CASE (\E s \in Probed : Expire(s)) \/ Lapse
  BY <1>3 DEF Expire, Lapse, Verdicts
<1>4. ASSUME NEW s, NEW v \in Verdicts, Remember(s, v)
      PROVE  verdict' \in [Probed -> Verdicts] /\ table' \in [Probed -> Verdicts]
  BY <1>4 DEF Remember
<1>5. \A j, p, h : Learned(j, p, h) \in Verdicts
  BY DEF Learned, GitLabVerdict, ShopifyVerdict, Verdicts
<1>6. \A p, a : Token(p, a) \in BOOLEAN /\ Currency(p, a) \in {"unasked", "none", "known"}
  BY DEF Token, Currency
<1>7. \A s \in Probed : \A r \in BOOLEAN : Seen(s, r) \in Verdicts
  BY DEF Seen, Verdicts
<1>8. ASSUME NEW f \in Fetches, AdapterStep(f)
      PROVE  MemoryTypes'
  <2>1. CASE RefuseShape(f)
    BY <2>1 DEF RefuseShape, memory
  <2>2. CASE Start(f)
    BY <2>2 DEF Start, Sends
  <2>3. CASE StartByVerdict(f) \/ PassBy(f)
    <3>1. PICK r \in BOOLEAN :
            /\ verdict' = [verdict EXCEPT ![job[f].site] = Seen(job[f].site, r)]
            /\ \/ probe' = [probe EXCEPT ![f] = Seen(job[f].site, r) = "unknown"]
               \/ probe' = probe
      BY <2>3 DEF StartByVerdict, PassBy
    <3>2. job[f].site \in Probed /\ UNCHANGED <<table, money, token, restarts>>
      BY <2>3 DEF StartByVerdict, PassBy, Sends
    <3>3. verdict' \in [Probed -> Verdicts]
      BY <1>7, <3>1, <3>2
    <3>4. probe' \in [Fetches -> BOOLEAN]
      BY <3>1
    <3> QED BY <3>2, <3>3, <3>4
  <2>4. CASE Answered(f)
    BY <1>6, <2>4 DEF Answered, Take
  <2>5. CASE AskMore(f)
    <3>1. PICK v \in Verdicts : Remember(job[f].site, v)
      BY <1>5, <2>5 DEF AskMore
    <3>2. token' \in BOOLEAN /\ UNCHANGED <<probe, money, restarts>>
      BY <1>6, <2>5 DEF AskMore, Take
    <3> QED BY <1>4, <3>1, <3>2
  <2>6. CASE End(f)
    <3>1. PICK v \in Verdicts : Remember(job[f].site, v)
      BY <1>5, <2>6 DEF End
    <3>2. /\ token' \in BOOLEAN /\ money' \in {"unasked", "none", "known"}
          /\ UNCHANGED <<probe, restarts>>
      BY <1>6, <2>6 DEF End, Take
    <3> QED BY <1>4, <3>1, <3>2
  <2> QED BY <1>8, <2>1, <2>2, <2>3, <2>4, <2>5, <2>6 DEF AdapterStep
<1> QED BY <1>1, <1>2, <1>3, <1>8 DEF AdapterNext

(* The steps of others, a restart and a memory that expires do so too. *)
LEMMA OnceKept ==
  ASSUME AdaptersAssumption, AdapterInv, OnceInv, [AdapterNext]_adapterVars
  PROVE  OnceInv'
<1>1. AdapterShape
  BY DEF AdapterInv
<1>2. ASSUME NEW f \in Fetches
      PROVE  OnceGood(f)'
  <2>0. OnceGood(f) /\ FetchGood(f)
    BY DEF OnceInv, AdapterInv
  <2>1. CASE \/ UNCHANGED adapterVars \/ Lapse
             \/ \E s \in Probed : Expire(s)
    <3>1. UNCHANGED <<job, pc, left, got, env>>
      BY <2>1 DEF adapterVars, Lapse, Expire
    <3> QED BY <2>0, <3>1 DEF OnceGood
  <2>2. CASE Restart
    <3>1. /\ UNCHANGED <<job, got, env>> /\ left'[f] = {}
          /\ pc'[f] = IF pc[f] = "waiting" THEN "dead" ELSE pc[f]
      BY <2>2 DEF Restart
    <3> QED BY <2>0, <3>1 DEF OnceGood
  <2>3. ASSUME NEW h \in Fetches, AdapterStep(h)
        PROVE  OnceGood(f)'
    <3>1. AloneOf(h)
      BY <1>1, <2>3, StepIsAlone
    <3>2. CASE h = f
      BY <1>1, <2>0, <2>3, <3>1, <3>2, OnceStep DEF AloneOf
    <3>3. CASE h # f
      BY <2>0, <3>1, <3>3 DEF OnceGood, AloneOf
    <3> QED BY <3>2, <3>3
  <2> QED BY <2>1, <2>2, <2>3 DEF AdapterNext
<1> QED BY <1>2 DEF OnceInv

(* A fetch asks for each part once: what it awaits has not been answered,  *)
(* whatever it asked for before, and it awaits something exactly until it  *)
(* ends, with an outcome (the fetch functions of all adapters).            *)
THEOREM AdapterTypes == AdapterSpec => []AdapterTypeOK
<1>1. AdapterInit => OnceInv /\ MemoryTypes
  <2>1. ASSUME AdapterInit, NEW f \in Fetches PROVE OnceGood(f)
    BY <2>1 DEF AdapterInit, OnceGood, NoAnswers, NoOutcome, Fails, Outcome
  <2>2. AdapterInit => MemoryTypes
    <3> SUFFICES ASSUME AdapterInit PROVE MemoryTypes
      OBVIOUS
    <3>1. restarts \in 0..Restarts
      BY AdaptersAssumption DEF AdapterInit
    <3>2. /\ probe \in [Fetches -> BOOLEAN] /\ token \in BOOLEAN
          /\ money \in {"unasked", "none", "known"}
      BY DEF AdapterInit
    <3>3. verdict \in [Probed -> Verdicts] /\ table \in [Probed -> Verdicts]
      BY DEF AdapterInit, Verdicts
    <3> QED BY <3>1, <3>2, <3>3 DEF MemoryTypes
  <2> QED BY <2>1, <2>2 DEF OnceInv
<1>2. AdapterInv /\ OnceInv /\ MemoryTypes /\ [AdapterNext]_adapterVars => (OnceInv /\ MemoryTypes)'
  BY AdaptersAssumption, OnceKept, MemoryKept
<1>3. AdapterInv /\ OnceInv /\ MemoryTypes => AdapterTypeOK
  <2>1. ASSUME AdapterInv, OnceInv, NEW f \in Fetches
        PROVE  /\ pc[f] \in {"new", "waiting", "ended", "dead"}
               /\ left[f] \intersect DOMAIN got[f] = {}
               /\ (pc[f] = "waiting") <=> (left[f] # {})
               /\ (pc[f] = "ended") <=> ~Nothing(env[f])
    BY <2>1 DEF OnceInv, OnceGood, AskedOnce, Nothing, NoOutcome, Fails, Outcome
  <2>2. AdapterInv /\ OnceInv => pc \in [Fetches -> {"new", "waiting", "ended", "dead"}]
    BY <2>1 DEF AdapterInv, AdapterShape
  <2> QED BY <2>1, <2>2 DEF AdapterTypeOK, MemoryTypes, AdapterInv, AdapterShape
<1> QED BY <1>1, <1>2, <1>3, AdapterInvariance, PTL DEF AdapterSpec

(* Whatever the answers to the other parts are, in whatever order they and *)
(* those of other fetches come, and wherever the process restarts, a fetch *)
(* whose deciding part was answered well succeeds (the fetch functions of  *)
(* steam, github, npm, gitlab, shopify, scholar and wikimedia).            *)
THEOREM MainAnswerDecides == AdapterSpec => []MainDecides
<1>1. AdapterInv => MainDecides
  BY DEF AdapterInv, FetchGood, Concluded, MainDecided, MainDecides, Ended, Answer, Said
<1> QED BY <1>1, AdapterInvariance, PTL

(* No adapter but the two named says NOT_FOUND of its own accord: some     *)
(* answer, or the page, has said it.                                       *)
THEOREM NotFoundHasASource == AdapterSpec => []NotFoundIsToldElsewhere
<1>1. AdapterInv => NotFoundIsToldElsewhere
  BY DEF AdapterInv, FetchGood, Concluded, NotFoundTold, NotFoundIsToldElsewhere, Told404, Ended
<1> QED BY <1>1, AdapterInvariance, PTL

(* A fetch that only probes a host succeeds or declines, and succeeds when *)
(* the host answers as the platform, whatever other fetches learn meanwhile*)
(* (fetch_gitlab, fetch_shopify).                                          *)
THEOREM ProbesPass == AdapterSpec => []ProbeNeverFails
<1>1. AdapterInv => ProbeNeverFails
  BY DEF AdapterInv, FetchGood, Concluded, ProbePassed, ProbeNeverFails, Ended, Answer, Said
<1> QED BY <1>1, AdapterInvariance, PTL

(* For pages of any number of entries, and any prices and scores: a listing*)
(* has each usable entry once, in the order promised, and says what it left*)
(* out; an offer is under its own title with the cheapest first, and taking*)
(* out the outliers never leaves nothing (the search parsers).             *)
THEOREM ListingsArePages == AdapterSpec => []ListingIsPage
<1>1. AdapterInv => ListingIsPage
  BY DEF AdapterInv, FetchGood, Concluded, ListedPage, ListingIsPage, Ended
<1> QED BY <1>1, AdapterInvariance, PTL
=============================================================================
