--------------------------- MODULE ResolverProofs ---------------------------
(* Theorems about the two reference-counted caches and about the filesystem   *)
(* whose resolver keeps its layers and blobs in such caches.  TTLCache and    *)
(* LRUCache: the eviction callback runs exactly once, when a value is neither *)
(* cached nor held, and each implements RefCounted; the resources the LRU     *)
(* cache has open are bounded.  Filesystem, whose caches are RefCounted ones: *)
(* what is mounted is open and nothing leaks.  All for any number of clients, *)
(* keys and values, and any limit of the LRU cache.                           *)
EXTENDS Caches, Filesystem, FiniteSetTheorems, TLAPS

(* The methods of refCounter, stated field by field. *)

\* r is the counter with these fields.
Fields(r, n, o, e) == r \in Counters /\ r.refCounts = n /\ r.onces = o /\ r.evictions = e

\* Most steps are first-order; those that need arithmetic or longer chains of equalities
\* ask for SMT.
USE ZenonT(60)

\* Assigning a field leaves the others alone.
LEMMA Updates ==
    ASSUME NEW n \in Nat, NEW o \in SUBSET Onces, NEW e \in Nat,
           NEW r, Fields(r, n, o, e)
    PROVE  /\ \A k \in Nat : Fields([r EXCEPT !.refCounts = k], k, o, e)
           /\ \A k \in Nat : Fields([r EXCEPT !.evictions = k], n, o, k)
           /\ \A k \in SUBSET Onces : Fields([r EXCEPT !.onces = k], n, k, e)
  BY DEF Fields, Counters, Onces

\* inc adds a reference and nothing else.
LEMMA Inc ==
    ASSUME NEW n \in Nat, NEW o \in SUBSET Onces, NEW e \in Nat,
           NEW r, Fields(r, n, o, e)
    PROVE  Fields(inc(r), n + 1, o, e)
  BY SMTT(60) DEF inc, Fields, Counters

\* dec gives a reference up, and evicts with the last one.
LEMMA Dec ==
    ASSUME NEW n \in Nat \ {0}, NEW o \in SUBSET Onces, NEW e \in Nat,
           NEW r, Fields(r, n, o, e)
    PROVE  Fields(dec(r), n - 1, o, IF n = 1 THEN e + 1 ELSE e)
  <1> DEFINE d == [r EXCEPT !.refCounts = n - 1]
  <1>1. Fields(d, n - 1, o, e)
    BY Updates, SMTT(60)
  <1>2. [r EXCEPT !.refCounts = @ - 1] = d
    BY DEF Fields
  <1> HIDE DEF d
  <1>3. Fields([d EXCEPT !.evictions = e + 1], n - 1, o, e + 1)
    <2>1. n - 1 \in Nat /\ e + 1 \in Nat
      BY SMTT(60)
    <2> DEFINE k == n - 1
    <2> HIDE DEF k
    <2>2. Fields([d EXCEPT !.evictions = e + 1], k, o, e + 1)
      BY <1>1, <2>1, Updates DEF k
    <2> QED BY <2>2 DEF k
  <1>4. d.refCounts = n - 1 /\ d.evictions = e
    BY <1>1 DEF Fields
  <1>5. dec(r) = IF n - 1 <= 0 THEN [d EXCEPT !.evictions = e + 1] ELSE d
    BY <1>2, <1>4 DEF dec
  <1>6. CASE n = 1  BY <1>3, <1>5, <1>6, SMTT(60)
  <1>7. CASE n # 1  BY <1>1, <1>5, <1>7, SMTT(60)
  <1> QED BY <1>6, <1>7

\* The first finalize gives the cache's own reference up.
LEMMA Finalize ==
    ASSUME NEW n \in Nat \ {0}, NEW o \in SUBSET Onces, NEW e \in Nat,
           NEW r, Fields(r, n, o, e), "finalize" \notin o
    PROVE  Fields(finalize(r), n - 1, o \cup {"finalize"}, IF n = 1 THEN e + 1 ELSE e)
  <1> DEFINE d == [r EXCEPT !.onces = o \cup {"finalize"}]
  <1>1. Fields(d, n, o \cup {"finalize"}, e)
    BY Updates DEF Onces
  <1>2. finalize(r) = dec(d)
    BY DEF Fields, finalize
  <1> HIDE DEF d
  <1> QED BY <1>1, <1>2, Dec DEF Onces

\* The counter before initialize.
LEMMA New == Fields(NewCounter, 0, {}, 0)
  BY DEF NewCounter, Fields, Counters, Onces

\* The counter of a value that Add has just made: one reference of the cache
\* and one of the client.
LEMMA Added == Fields(inc(initialize(NewCounter)), 2, {"initialize"}, 0)
  <1> DEFINE d == [NewCounter EXCEPT !.onces = {"initialize"}]
  <1>1. Fields(d, 0, {"initialize"}, 0)
    BY New, Updates DEF Onces
  <1>2. initialize(NewCounter) = inc(d)
    BY New DEF Fields, initialize
  <1> HIDE DEF d
  <1>3. Fields(inc(d), 1, {"initialize"}, 0)
    BY <1>1, Inc, SMTT(60) DEF Onces
  <1>4. Fields(inc(inc(d)), 2, {"initialize"}, 0)
    BY <1>3, Inc, SMTT(60) DEF Onces
  <1> QED BY <1>2, <1>4

-----------------------------------------------------------------------------
(* The inductive invariant. *)

\* A client's done function is for a value that was added.
HandlesAreKnown ==
    /\ \A c \in Clients : ~returned[c] => handle[c] # Nothing
    /\ \A c \in Clients : handle[c] # Nothing => key[handle[c]] # Nothing

\* A timer that may still call back belongs to a value that was added.
TimersAreKnown == \A v \in Values : timer[v] \in {"armed", "fired"} => key[v] # Nothing

\* The cache holds v, seen from v.
Mapped(v) == key[v] # Nothing /\ m[key[v]] = v

\* The counter of v with holders H, cached or not: the holders, one more
\* reference while the value is cached, evicted once both are gone.
CounterOf(r, H, cachedNow) ==
    Fields(r, Cardinality(H) + (IF cachedNow THEN 1 ELSE 0),
           IF cachedNow THEN {"initialize"} ELSE Onces,
           IF cachedNow \/ H # {} THEN 0 ELSE 1)

Balanced(v) ==
    IF key[v] = Nothing THEN rc[v] = NewCounter ELSE CounterOf(rc[v], Holders(v), Mapped(v))

\* The inductive invariant.
IInv ==
    /\ TTLTypeOK
    /\ CachedValueExpires
    /\ HandlesAreKnown
    /\ TimersAreKnown
    /\ \A v \in Values : Balanced(v)

\* A client joins a finite set of holders, or leaves it.
LEMMA SetCount ==
    ASSUME NEW H, IsFiniteSet(H), NEW c
    PROVE  /\ Cardinality(H) \in Nat
           /\ Cardinality(H) = 0 <=> H = {}
           /\ c \notin H => Cardinality(H \cup {c}) = Cardinality(H) + 1
           /\ c \in H => /\ Cardinality(H \ {c}) = Cardinality(H) - 1
                         /\ Cardinality(H) > 0
                         /\ Cardinality(H) = 1 <=> H \ {c} = {}
  <1>1. IsFiniteSet(H \ {c})
    BY FS_RemoveElement
  <1>2. Cardinality(H) \in Nat /\ Cardinality(H \ {c}) \in Nat
    BY <1>1, FS_CardinalityType
  <1>3. /\ Cardinality(H) = 0 <=> H = {}
        /\ Cardinality(H \ {c}) = 0 <=> H \ {c} = {}
    BY <1>1, FS_EmptySet
  <1>4. c \notin H => Cardinality(H \cup {c}) = Cardinality(H) + 1
    BY FS_AddElement
  <1>5. c \in H => Cardinality(H \ {c}) = Cardinality(H) - 1
    BY FS_RemoveElement
  <1> QED BY <1>1, <1>2, <1>3, <1>4, <1>5, SMTT(60)

\* A reference more, for a client that had none.
LEMMA CounterInc ==
    ASSUME NEW r, NEW H, IsFiniteSet(H), NEW c, c \notin H, CounterOf(r, H, TRUE)
    PROVE  CounterOf(inc(r), H \cup {c}, TRUE)
  <1>1. Fields(r, Cardinality(H) + 1, {"initialize"}, 0)
    BY DEF CounterOf
  <1>2. Cardinality(H) \in Nat /\ Cardinality(H \cup {c}) = Cardinality(H) + 1
    BY SetCount
  <1>3. Fields(inc(r), Cardinality(H) + 1 + 1, {"initialize"}, 0)
    BY <1>1, <1>2, Inc, SMTT(60) DEF Onces
  <1> QED BY <1>2, <1>3 DEF CounterOf

\* A reference less, cached or not.
LEMMA CounterDec ==
    ASSUME NEW r, NEW H, IsFiniteSet(H), NEW c \in H, NEW b \in BOOLEAN, CounterOf(r, H, b)
    PROVE  CounterOf(dec(r), H \ {c}, b)
  <1> DEFINE n == Cardinality(H) + (IF b THEN 1 ELSE 0)
             o == IF b THEN {"initialize"} ELSE Onces
  <1>1. Fields(r, n, o, 0)
    BY DEF CounterOf
  <1>2. /\ Cardinality(H) \in Nat /\ Cardinality(H \ {c}) = Cardinality(H) - 1
        /\ Cardinality(H) > 0 /\ (Cardinality(H) = 1 <=> H \ {c} = {})
    BY SetCount
  <1>3. n \in Nat \ {0} /\ o \in SUBSET Onces /\ 0 \in Nat
    BY <1>2, SMTT(60) DEF Onces
  <1>4. n - 1 = Cardinality(H \ {c}) + (IF b THEN 1 ELSE 0)
    BY <1>2, SMTT(60)
  <1>5. (IF n = 1 THEN 0 + 1 ELSE 0) = IF b \/ H \ {c} # {} THEN 0 ELSE 1
    BY <1>2, SMTT(60)
  <1> HIDE DEF n, o
  <1>6. Fields(dec(r), n - 1, o, IF n = 1 THEN 0 + 1 ELSE 0)
    BY <1>1, <1>3, Dec
  <1> QED BY <1>4, <1>5, <1>6 DEF CounterOf, o

\* The cache gives its own reference up.
LEMMA CounterFinalize ==
    ASSUME NEW r, NEW H, IsFiniteSet(H), NEW b \in BOOLEAN, CounterOf(r, H, b)
    PROVE  CounterOf(finalize(r), H, FALSE)
  <1>1. CASE b
    <2>1. Fields(r, Cardinality(H) + 1, {"initialize"}, 0)
      BY <1>1 DEF CounterOf
    <2>2. Cardinality(H) \in Nat /\ (Cardinality(H) = 0 <=> H = {})
      BY SetCount
    <2> DEFINE n == Cardinality(H) + 1
               o == {"initialize"}
    <2>3. n \in Nat \ {0} /\ o \in SUBSET Onces /\ "finalize" \notin o /\ 0 \in Nat
      BY <2>2, SMTT(60) DEF Onces
    <2>4. n - 1 = Cardinality(H) + 0 /\ o \cup {"finalize"} = Onces
          /\ (IF n = 1 THEN 0 + 1 ELSE 0) = IF H # {} THEN 0 ELSE 1
      BY <2>2, SMTT(60) DEF Onces
    <2>5. Fields(r, n, o, 0)
      BY <2>1
    <2> HIDE DEF n, o
    <2>6. Fields(finalize(r), n - 1, o \cup {"finalize"}, IF n = 1 THEN 0 + 1 ELSE 0)
      BY <2>3, <2>5, Finalize
    <2> QED BY <2>4, <2>6 DEF CounterOf
  <1>2. CASE ~b
    <2>1. r.onces = Onces
      BY <1>2 DEF CounterOf, Fields
    <2>2. finalize(r) = r
      BY <2>1 DEF finalize, Onces
    <2> QED BY <1>2, <2>2 DEF CounterOf
  <1> QED BY <1>1, <1>2

\* Finitely many clients hold a value.
LEMMA FiniteHolders == ASSUME NEW v PROVE IsFiniteSet(Holders(v))
  BY ClientsAssumption, FS_Subset DEF Holders

-----------------------------------------------------------------------------
\* The steps, one lemma for each: c takes a reference to a value of the cache
\* (Get, and Add on a cached key).
LEMMA BorrowPreserves ==
    ASSUME IInv, NEW c \in Clients, NEW k \in Keys, returned[c], m[k] # Nothing,
           rc' = [rc EXCEPT ![m[k]] = inc(@)], Take(c, m[k]), UNCHANGED <<m, key, timer>>
    PROVE  IInv'
  <1> USE TTLAssumption
  <1> DEFINE v == m[k]
  <1>0. v \in Values /\ key[v] = k /\ Mapped(v) /\ Mapped(v)' /\ Balanced(v)
    BY SMTT(60) DEF IInv, TTLTypeOK, CachedValueExpires, Mapped
  <1>1. /\ Holders(v)' = Holders(v) \cup {c} /\ c \notin Holders(v)
        /\ \A u \in Values \ {v} : Holders(u)' = Holders(u)
    BY <1>0, SMTT(60) DEF Holders, Take, IInv, TTLTypeOK
  <1>2. rc'[v] = inc(rc[v]) /\ \A u \in Values \ {v} : rc'[u] = rc[u]
    BY <1>0 DEF IInv, TTLTypeOK
  <1>3. CounterOf(rc[v], Holders(v), TRUE)
    BY <1>0 DEF Balanced, Mapped
  <1>4. CounterOf(rc'[v], Holders(v) \cup {c}, TRUE)
    <2> DEFINE r == rc[v]
               H == Holders(v)
    <2>1. IsFiniteSet(H) /\ c \notin H /\ CounterOf(r, H, TRUE)
      BY <1>1, <1>3, FiniteHolders
    <2> HIDE DEF r, H
    <2>2. CounterOf(inc(r), H \cup {c}, TRUE)
      BY <2>1, CounterInc
    <2> QED BY <1>2, <2>2 DEF r, H
  <1>5. rc'[v] \in Counters
    BY <1>4 DEF CounterOf, Fields
  <1>6. TTLTypeOK'
    BY <1>0, <1>5 DEF IInv, TTLTypeOK, Take
  <1>7. CachedValueExpires' /\ TimersAreKnown'
    BY DEF IInv, CachedValueExpires, TimersAreKnown
  <1>8. HandlesAreKnown'
    BY <1>0 DEF IInv, TTLTypeOK, HandlesAreKnown, Take
  <1>9. Balanced(v)'
    BY <1>0, <1>1, <1>4 DEF Balanced, Mapped
  <1>10. ASSUME NEW u \in Values, u # v PROVE Balanced(u)'
    BY <1>1, <1>2, <1>10, SMTT(60) DEF IInv, Balanced, Mapped
  <1> QED BY <1>6, <1>7, <1>8, <1>9, <1>10 DEF IInv

\* Add caches a new value.
LEMMA InsertPreserves ==
    ASSUME IInv, NEW c \in Clients, NEW k \in Keys, NEW v \in Values,
           returned[c], m[k] = Nothing, key[v] = Nothing,
           key' = [key EXCEPT ![v] = k],
           rc' = [rc EXCEPT ![v] = inc(initialize(NewCounter))],
           timer' = [timer EXCEPT ![v] = "armed"],
           m' = [m EXCEPT ![k] = v],
           Take(c, v)
    PROVE  IInv'
  <1> USE TTLAssumption
  <1>0. \A l \in Keys : m[l] # v
    BY SMTT(60) DEF IInv, TTLTypeOK, CachedValueExpires
  <1>1. /\ Holders(v)' = {c}
        /\ \A u \in Values \ {v} : Holders(u)' = Holders(u)
    BY SMTT(60) DEF Holders, Take, IInv, TTLTypeOK, HandlesAreKnown
  <1>2. Fields(rc'[v], 2, {"initialize"}, 0)
    BY Added DEF IInv, TTLTypeOK
  <1>3. rc'[v] \in Counters /\ \A u \in Values \ {v} : rc'[u] = rc[u]
    BY <1>2 DEF Fields, IInv, TTLTypeOK
  <1>4. TTLTypeOK'
    BY <1>3 DEF IInv, TTLTypeOK, Take
  <1>5. CachedValueExpires'
    BY <1>0 DEF IInv, TTLTypeOK, CachedValueExpires
  <1>6. HandlesAreKnown' /\ TimersAreKnown'
    BY DEF IInv, TTLTypeOK, HandlesAreKnown, TimersAreKnown, Take
  <1>7. Balanced(v)'
    <2>1. Mapped(v)' /\ key'[v] # Nothing
      BY DEF IInv, TTLTypeOK, Mapped
    <2>2. Cardinality({c}) = 1
      BY FS_Singleton
    <2>3. CounterOf(rc'[v], {c}, TRUE)
      BY <1>2, <2>2, SMTT(60) DEF CounterOf
    <2> QED BY <1>1, <2>1, <2>3 DEF Balanced
  <1>8. ASSUME NEW u \in Values, u # v PROVE Balanced(u)'
    <2>1. key'[u] = key[u] /\ (Mapped(u)' <=> Mapped(u))
      BY <1>8 DEF IInv, TTLTypeOK, Mapped
    <2> QED BY <1>1, <1>3, <1>8, <2>1 DEF IInv, Balanced, CounterOf
  <1> QED BY <1>4, <1>5, <1>6, <1>7, <1>8 DEF IInv

\* The entry of k goes and the cache's reference with it; the timers may change
\* in ways that keep the remaining entries alive.
LEMMA EvictPreserves ==
    ASSUME IInv, NEW k \in Keys, NEW v \in Values, m[k] = v,
           m' = [m EXCEPT ![k] = Nothing],
           rc' = [rc EXCEPT ![v] = finalize(@)],
           timer' \in [Values -> {"none", "armed", "stopped", "fired", "ran"}],
           \A u \in Values \ {v} : timer'[u] = timer[u] \/ (timer[u] = "fired" /\ ~Mapped(u)),
           \A u \in Values : timer'[u] \in {"armed", "fired"} => timer[u] \in {"armed", "fired"},
           UNCHANGED <<key, handle, returned>>
    PROVE  IInv'
  <1> USE TTLAssumption
  <1>0. key[v] = k /\ Mapped(v) /\ ~Mapped(v)' /\ key[v] # Nothing
    BY SMTT(60) DEF IInv, TTLTypeOK, CachedValueExpires, Mapped
  <1>1. \A u \in Values : Holders(u)' = Holders(u)
    BY DEF Holders
  <1>2. rc'[v] = finalize(rc[v]) /\ \A u \in Values \ {v} : rc'[u] = rc[u]
    BY DEF IInv, TTLTypeOK
  <1>3. CounterOf(rc'[v], Holders(v), FALSE)
    <2> DEFINE r == rc[v]
               H == Holders(v)
    <2>1. IsFiniteSet(H) /\ CounterOf(r, H, TRUE)
      BY <1>0, FiniteHolders DEF IInv, Balanced
    <2> HIDE DEF r, H
    <2>2. CounterOf(finalize(r), H, FALSE)
      BY <2>1, CounterFinalize
    <2> QED BY <1>2, <2>2 DEF r, H
  <1>4. rc'[v] \in Counters
    BY <1>3 DEF CounterOf, Fields
  <1>5. TTLTypeOK'
    BY <1>4 DEF IInv, TTLTypeOK
  <1>6. CachedValueExpires'
    <2> SUFFICES ASSUME NEW l \in Keys, m'[l] # Nothing
                 PROVE  timer'[m'[l]] \in {"armed", "fired"} /\ key'[m'[l]] = l
      BY DEF CachedValueExpires
    <2>1. l # k /\ m'[l] = m[l] /\ m[l] \in Values /\ key[m[l]] = l
          /\ timer[m[l]] \in {"armed", "fired"}
      BY SMTT(60) DEF IInv, TTLTypeOK, CachedValueExpires
    <2>2. m[l] # v /\ Mapped(m[l])
      BY <1>0, <2>1 DEF Mapped
    <2> QED BY <2>1, <2>2
  <1>7. HandlesAreKnown' /\ TimersAreKnown'
    BY DEF IInv, HandlesAreKnown, TimersAreKnown
  <1>8. Balanced(v)'
    BY <1>0, <1>1, <1>3 DEF Balanced, CounterOf
  <1>9. ASSUME NEW u \in Values, u # v PROVE Balanced(u)'
    <2>1. key'[u] = key[u] /\ (Mapped(u)' <=> Mapped(u))
      BY <1>9, SMTT(60) DEF IInv, TTLTypeOK, Mapped
    <2> QED BY <1>1, <1>2, <1>9, <2>1 DEF IInv, Balanced, CounterOf
  <1> QED BY <1>5, <1>6, <1>7, <1>8, <1>9 DEF IInv

\* Only timers change, and no cached value loses its own.
LEMMA TimersPreserve ==
    ASSUME IInv,
           timer' \in [Values -> {"none", "armed", "stopped", "fired", "ran"}],
           \A u \in Values : Mapped(u) => timer'[u] \in {"armed", "fired"},
           \A u \in Values : timer'[u] \in {"armed", "fired"} => key[u] # Nothing,
           UNCHANGED <<m, key, rc, handle, returned>>
    PROVE  IInv'
  <1> USE TTLAssumption
  <1>1. \A u \in Values : (Mapped(u)' <=> Mapped(u)) /\ Holders(u)' = Holders(u)
    BY DEF Mapped, Holders
  <1>2. TTLTypeOK' /\ HandlesAreKnown' /\ TimersAreKnown'
    BY DEF IInv, TTLTypeOK, HandlesAreKnown, TimersAreKnown
  <1>3. CachedValueExpires'
    BY SMTT(60) DEF IInv, TTLTypeOK, CachedValueExpires, Mapped
  <1>4. \A u \in Values : Balanced(u)'
    BY <1>1 DEF IInv, Balanced, CounterOf
  <1> QED BY <1>2, <1>3, <1>4 DEF IInv

\* A client calls its done function.
LEMMA DonePreserves ==
    ASSUME IInv, NEW c \in Clients, NEW evict \in BOOLEAN, Done(c, evict)
    PROVE  IInv'
  <1> USE TTLAssumption
  <1> DEFINE v == handle[c]
             H == Holders(v)
             r == IF returned[c] THEN rc[v] ELSE dec(rc[v])
  <1>0. /\ v \in Values /\ key[v] # Nothing /\ key[v] \in Keys
        /\ returned' = [returned EXCEPT ![c] = TRUE]
        /\ rc' = [rc EXCEPT ![v] = IF evict THEN finalize(r) ELSE r]
        /\ timer' = IF evict THEN [timer EXCEPT ![v] = Stopped(v)] ELSE timer
        /\ m' = IF evict /\ m[key[v]] = v THEN [m EXCEPT ![key[v]] = Nothing] ELSE m
        /\ key' = key /\ handle' = handle
    BY DEF Done, IInv, TTLTypeOK, HandlesAreKnown
  <1>1. IsFiniteSet(H) /\ CounterOf(rc[v], H, Mapped(v)) /\ Mapped(v) \in BOOLEAN
    BY <1>0, FiniteHolders DEF IInv, Balanced, Mapped
  <1>2. /\ Holders(v)' = H \ {c} /\ (returned[c] <=> c \notin H)
        /\ \A u \in Values \ {v} : Holders(u)' = Holders(u)
    BY <1>0 DEF Holders, IInv, TTLTypeOK
  <1>3. CounterOf(r, H \ {c}, Mapped(v)) /\ IsFiniteSet(H \ {c})
    <2> DEFINE s == rc[v]
               b == Mapped(v)
    <2>1. IsFiniteSet(H) /\ CounterOf(s, H, b) /\ b \in BOOLEAN
      BY <1>1
    <2>2. IsFiniteSet(H \ {c})
      BY <2>1, FS_RemoveElement
    <2>3. CASE returned[c]
      <3>1. H \ {c} = H /\ r = s
        BY <1>2, <2>3
      <3> QED BY <2>1, <2>2, <3>1
    <2>4. CASE ~returned[c]
      <3>1. c \in H /\ r = dec(s)
        BY <1>2, <2>4
      <3> HIDE DEF H, s, b, r
      <3>2. CounterOf(dec(s), H \ {c}, b)
        BY <2>1, <3>1, CounterDec
      <3> QED BY <2>2, <3>1, <3>2 DEF b
    <2> QED BY <2>3, <2>4
  <1>4. CounterOf(rc'[v], H \ {c}, Mapped(v)')
    <2>1. CASE evict
      <3> DEFINE G == H \ {c}
                 b == Mapped(v)
      <3>1. rc'[v] = finalize(r) /\ ~Mapped(v)'
        BY <1>0, <2>1 DEF Mapped, IInv, TTLTypeOK
      <3>2. IsFiniteSet(G) /\ b \in BOOLEAN /\ CounterOf(r, G, b)
        BY <1>1, <1>3
      <3> HIDE DEF G, b, r
      <3>3. CounterOf(finalize(r), G, FALSE)
        BY <3>2, CounterFinalize
      <3> QED BY <3>1, <3>3 DEF G, CounterOf
    <2>2. CASE ~evict
      <3>1. rc'[v] = r /\ (Mapped(v)' <=> Mapped(v))
        BY <1>0, <2>2 DEF Mapped, IInv, TTLTypeOK
      <3> QED BY <1>3, <3>1 DEF CounterOf
    <2> QED BY <2>1, <2>2
  <1>5. rc'[v] \in Counters /\ \A u \in Values \ {v} : rc'[u] = rc[u]
    BY <1>0, <1>4 DEF CounterOf, Fields, IInv, TTLTypeOK
  <1> HIDE DEF H, r
  <1>6. /\ timer' \in [Values -> {"none", "armed", "stopped", "fired", "ran"}]
        /\ \A u \in Values : timer'[u] # timer[u] => timer'[u] = "stopped" /\ u = v /\ evict
    BY <1>0 DEF IInv, TTLTypeOK, Stopped
  <1>7. TTLTypeOK'
    <2>1. rc' \in [Values -> Counters]
      BY <1>0, <1>5 DEF IInv, TTLTypeOK
    <2> QED BY <1>0, <1>6, <2>1 DEF IInv, TTLTypeOK
  <1>8. CachedValueExpires'
    <2> SUFFICES ASSUME NEW l \in Keys, m'[l] # Nothing
                 PROVE  timer'[m'[l]] \in {"armed", "fired"} /\ key'[m'[l]] = l
      BY DEF CachedValueExpires
    <2>1. m'[l] = m[l] /\ m[l] \in Values /\ key[m[l]] = l /\ timer[m[l]] \in {"armed", "fired"}
      BY <1>0, SMTT(60) DEF IInv, TTLTypeOK, CachedValueExpires
    <2>2. evict => m[l] # v
      BY <1>0, <2>1 DEF IInv, TTLTypeOK
    <2> QED BY <1>0, <1>6, <2>1, <2>2
  <1>9. HandlesAreKnown' /\ TimersAreKnown'
    BY <1>0, <1>6 DEF IInv, TTLTypeOK, HandlesAreKnown, TimersAreKnown
  <1>10. Balanced(v)'
    BY <1>0, <1>2, <1>4 DEF Balanced, CounterOf
  <1>11. ASSUME NEW u \in Values, u # v PROVE Balanced(u)'
    <2>1. key'[u] = key[u] /\ (Mapped(u)' <=> Mapped(u))
      BY <1>0, <1>11 DEF IInv, TTLTypeOK, Mapped
    <2> QED BY <1>2, <1>5, <1>11, <2>1 DEF IInv, Balanced, CounterOf
  <1>12. ASSUME NEW u \in Values PROVE Balanced(u)'
    <2>1. CASE u = v BY <2>1, <1>0, <1>10 DEF Balanced, Holders, Mapped
    <2> QED BY <2>1, <1>11
  <1> QED BY <1>7, <1>8, <1>9, <1>12 DEF IInv

\* Remove and the callback of a timer, through evictLocked.
LEMMA RemovePreserves ==
    ASSUME IInv, NEW k \in Keys, Remove(k)
    PROVE  IInv'
  <1> USE TTLAssumption
  <1>1. CASE m[k] = Nothing
    BY <1>1, TimersPreserve, SMTT(60) DEF Remove, evictLocked, IInv, TTLTypeOK, CachedValueExpires,
       TimersAreKnown, Mapped
  <1>2. CASE m[k] # Nothing
    <2>1. m[k] \in Values
      BY <1>2 DEF IInv, TTLTypeOK
    <2>2. /\ m' = [m EXCEPT ![k] = Nothing]
          /\ rc' = [rc EXCEPT ![m[k]] = finalize(@)]
          /\ timer' = [timer EXCEPT ![m[k]] = IF @ = "armed" THEN "stopped" ELSE @]
          /\ UNCHANGED <<key, handle, returned>>
      BY <1>2 DEF Remove, evictLocked
    <2>3. /\ timer' \in [Values -> {"none", "armed", "stopped", "fired", "ran"}]
          /\ \A u \in Values \ {m[k]} : timer'[u] = timer[u]
          /\ \A u \in Values : timer'[u] \in {"armed", "fired"} => timer[u] \in {"armed", "fired"}
      BY <2>1, <2>2 DEF IInv, TTLTypeOK
    <2> QED BY <2>1, <2>2, <2>3, EvictPreserves
  <1> QED BY <1>1, <1>2

\* A timer fires.
LEMMA TimerFiresPreserves ==
    ASSUME IInv, NEW v \in Values, TimerFires(v)
    PROVE  IInv'
  <1>1. key[v] # Nothing
    BY DEF IInv, TTLTypeOK, TimerFires, TimersAreKnown
  <1>2. /\ timer' \in [Values -> {"none", "armed", "stopped", "fired", "ran"}]
        /\ \A u \in Values : timer'[u] # timer[u] => u = v /\ timer'[u] = "fired"
        /\ UNCHANGED <<m, key, rc, handle, returned>>
    BY DEF TimerFires, IInv, TTLTypeOK
  <1>3. \A u \in Values : Mapped(u) => timer[u] \in {"armed", "fired"}
    BY TTLAssumption, SMTT(60) DEF IInv, TTLTypeOK, CachedValueExpires, Mapped
  <1>4. \A u \in Values : timer[u] \in {"armed", "fired"} => key[u] # Nothing
    BY DEF IInv, TimersAreKnown
  <1> QED BY <1>1, <1>2, <1>3, <1>4, TimersPreserve

\* Its callback gets the lock and evicts whatever its key maps to.
LEMMA TimerCallbackPreserves ==
    ASSUME IInv, NEW v \in Values, TimerCallback(v)
    PROVE  IInv'
  <1> USE TTLAssumption
  <1> DEFINE k == key[v]
             fired == [timer EXCEPT ![v] = "ran"]
  <1>0. k \in Keys /\ timer[v] = "fired" /\ evictLocked(k, fired) /\ UNCHANGED <<key, handle, returned>>
    BY DEF TimerCallback, IInv, TTLTypeOK, TimersAreKnown
  <1>1. CASE m[k] = Nothing
    <2>1. timer' = fired /\ UNCHANGED <<m, rc>> /\ ~Mapped(v)
      BY <1>0, <1>1 DEF evictLocked, Mapped
    <2> QED BY <1>0, <2>1, TimersPreserve, SMTT(60) DEF IInv, TTLTypeOK, CachedValueExpires,
              TimersAreKnown, Mapped
  <1>2. CASE m[k] # Nothing
    <2>1. m[k] \in Values
      BY <1>0, <1>2 DEF IInv, TTLTypeOK
    <2>2. /\ m' = [m EXCEPT ![k] = Nothing]
          /\ rc' = [rc EXCEPT ![m[k]] = finalize(@)]
          /\ timer' = [fired EXCEPT ![m[k]] = IF @ = "armed" THEN "stopped" ELSE @]
      BY <1>0, <1>2 DEF evictLocked
    <2>3. /\ timer' \in [Values -> {"none", "armed", "stopped", "fired", "ran"}]
          /\ \A u \in Values \ {m[k]} : timer'[u] = timer[u] \/ (u = v /\ timer[u] = "fired")
          /\ \A u \in Values : timer'[u] \in {"armed", "fired"} => timer[u] \in {"armed", "fired"}
      BY <2>1, <2>2, <1>0 DEF IInv, TTLTypeOK
    <2>4. v # m[k] => ~Mapped(v)
      BY DEF Mapped
    <2> DEFINE w == m[k]
    <2>5. /\ w \in Values /\ m[k] = w
          /\ m' = [m EXCEPT ![k] = Nothing]
          /\ rc' = [rc EXCEPT ![w] = finalize(@)]
          /\ \A u \in Values \ {w} : timer'[u] = timer[u] \/ (timer[u] = "fired" /\ ~Mapped(u))
      BY <2>1, <2>2, <2>3, <2>4
    <2> HIDE DEF fired, k, w
    <2> QED BY <1>0, <2>3, <2>5, EvictPreserves
  <1> QED BY <1>1, <1>2

\* The inductive invariant of util/cacheutil/ttlcache.go is an invariant.
LEMMA InitInv == TTLInit => IInv
  <1> SUFFICES ASSUME TTLInit PROVE IInv
    OBVIOUS
  <1>1. NewCounter \in Counters
    BY New DEF Fields
  <1> QED BY <1>1, TTLAssumption DEF TTLInit, IInv, TTLTypeOK, CachedValueExpires, HandlesAreKnown,
           TimersAreKnown, Balanced

\* Add of a key that is cached borrows the value, of another inserts one.
LEMMA AddPreserves ==
    ASSUME IInv, NEW c \in Clients, NEW k \in Keys, Add(c, k)
    PROVE  IInv'
  <1>1. CASE m[k] # Nothing
    BY <1>1, BorrowPreserves DEF Add
  <1>2. CASE m[k] = Nothing
    BY <1>2, InsertPreserves DEF Add
  <1> QED BY <1>1, <1>2

\* Each step keeps the invariant.
LEMMA NextInv == IInv /\ [TTLNext]_ttlVars => IInv'
  <1> SUFFICES ASSUME IInv, [TTLNext]_ttlVars PROVE IInv'
    OBVIOUS
  <1>1. ASSUME NEW c \in Clients, NEW k \in Keys, Get(c, k) PROVE IInv'
    BY <1>1, BorrowPreserves DEF Get
  <1>2. CASE UNCHANGED ttlVars
    <2>1. \A u \in Values : Holders(u)' = Holders(u) /\ (Mapped(u)' <=> Mapped(u))
      BY <1>2 DEF ttlVars, Holders, Mapped
    <2>2. \A u \in Values : Balanced(u)'
      BY <1>2, <2>1 DEF ttlVars, IInv, Balanced, CounterOf
    <2> QED BY <1>2, <2>2 DEF ttlVars, IInv, TTLTypeOK, CachedValueExpires, HandlesAreKnown, TimersAreKnown
  <1> QED BY <1>1, <1>2, AddPreserves, DonePreserves, RemovePreserves, TimerFiresPreserves,
            TimerCallbackPreserves DEF TTLNext

\* The invariant of the TTL cache and its counters holds in every reachable state.
THEOREM Inductive == TTLSpec => []IInv
  BY InitInv, NextInv, PTL DEF TTLSpec

\* The types hold; in particular no counter goes negative.
THEOREM TypeCorrect == TTLSpec => []TTLTypeOK
  <1>1. IInv => TTLTypeOK BY DEF IInv
  <1> QED BY <1>1, Inductive, PTL

\* Every cached value still has a timer that will remove it.
THEOREM CachedExpires == TTLSpec => []CachedValueExpires
  <1>1. IInv => CachedValueExpires BY DEF IInv
  <1> QED BY <1>1, Inductive, PTL

\* A value is in the cache iff its own key maps to it.
LEMMA CachedIsMapped ==
    ASSUME IInv, NEW v \in Values PROVE InCache(v) <=> Mapped(v)
  BY TTLAssumption, SMTT(60) DEF IInv, TTLTypeOK, CachedValueExpires, InCache, Mapped

\* The evictions of a value are one if it is dead, none otherwise.
LEMMA EvictionsOf ==
    ASSUME IInv, NEW v \in Values
    PROVE  /\ rc[v].evictions = IF key[v] # Nothing /\ ~InCache(v) /\ Holders(v) = {} THEN 1 ELSE 0
           /\ key[v] = Nothing => ~InCache(v) /\ Holders(v) = {}
  <1>1. CASE key[v] = Nothing
    <2>1. rc[v].evictions = 0
      BY <1>1, New DEF IInv, Balanced, Fields
    <2>2. Holders(v) = {}
      BY <1>1 DEF IInv, HandlesAreKnown, Holders
    <2> QED BY <1>1, <2>1, <2>2, CachedIsMapped DEF Mapped
  <1>2. CASE key[v] # Nothing
    BY <1>2, CachedIsMapped DEF IInv, Balanced, CounterOf, Fields
  <1> QED BY <1>1, <1>2

\* So OnEvicted has run exactly for the dead values.
LEMMA InvEvicted == IInv => EvictedExactlyWhenDead
  BY EvictionsOf DEF EvictedExactlyWhenDead

\* The same in the next state.
LEMMA InvEvictedPrime == IInv' => EvictedExactlyWhenDead'
  BY InvEvicted, PTL

\* OnEvicted runs exactly once for a value, when it is neither cached nor held.
THEOREM EvictedOnceWhenDead == TTLSpec => []EvictedExactlyWhenDead
  BY InvEvicted, Inductive, PTL

-----------------------------------------------------------------------------
(* Refinement of RefCounted. *)
AbsCached == {v \in Values : InCache(v)}
AbsHeld == [v \in Values |-> Holders(v)]
AbsEvicted == {v \in Values : rc[v].evictions > 0}

\* If no added value is forgotten, none that died comes back and a new one is
\* held, then the values that die in a step are the ones evicted in it.
LEMMA Settles ==
    ASSUME IInv, IInv',
           \A v \in Values : key[v] # Nothing => key'[v] # Nothing,
           \A v \in Values : key[v] # Nothing /\ ~InCache(v) /\ Holders(v) = {}
                               => ~InCache(v)' /\ Holders(v)' = {},
           \A v \in Values : key[v] = Nothing /\ key'[v] # Nothing => Holders(v)' # {}
    PROVE  Abstract!Settle
  <1> SUFFICES ASSUME NEW v \in Values
               PROVE  (rc'[v].evictions > 0) <=>
                        \/ rc[v].evictions > 0
                        \/ (InCache(v) \/ Holders(v) # {}) /\ ~(InCache(v)' \/ Holders(v)' # {})
    BY DEF Abstract!Settle, Abstract!Live
  <1>1. rc[v].evictions > 0 <=> key[v] # Nothing /\ ~InCache(v) /\ Holders(v) = {}
    BY EvictionsOf, SMTT(60)
  <1>2. rc'[v].evictions > 0 <=> key'[v] # Nothing /\ ~InCache(v)' /\ Holders(v)' = {}
    <2>1. rc'[v].evictions = IF key'[v] # Nothing /\ ~InCache(v)' /\ Holders(v)' = {} THEN 1 ELSE 0
      BY InvEvictedPrime DEF EvictedExactlyWhenDead
    <2> QED BY <2>1, SMTT(60)
  <1>3. InCache(v) \/ Holders(v) # {} => key[v] # Nothing
    BY EvictionsOf
  <1> QED BY <1>1, <1>2, <1>3

\* To take a cached value is Borrow of RefCounted.
LEMMA BorrowRefines ==
    ASSUME IInv, IInv', NEW c \in Clients, NEW k \in Keys, returned[c], m[k] # Nothing,
           Take(c, m[k]), UNCHANGED <<m, key, timer>>
    PROVE  \E v \in Values : Abstract!Borrow(c, v)
  <1> USE TTLAssumption
  <1>0. PICK v \in Values : v = m[k]
    BY DEF IInv, TTLTypeOK
  <1>1. /\ Holders(v)' = Holders(v) \cup {c}
        /\ \A u \in Values \ {v} : Holders(u)' = Holders(u)
    BY <1>0, SMTT(60) DEF Holders, Take, IInv, TTLTypeOK
  <1>2. \A u \in Values : InCache(u)' <=> InCache(u)
    BY DEF InCache
  <1>3. InCache(v)
    BY <1>0 DEF InCache
  <1>4. Abstract!Settle
    BY <1>1, <1>2, <1>3, Settles
  <1>5. AbsHeld' = [AbsHeld EXCEPT ![v] = @ \cup {c}]
    BY <1>1 DEF AbsHeld
  <1>6. AbsCached' = AbsCached /\ v \in AbsCached
    BY <1>2, <1>3 DEF AbsCached
  <1>7. Abstract!Borrow(c, v)
    BY <1>4, <1>5, <1>6 DEF Abstract!Borrow, AbsHeld, AbsCached
  <1> QED BY <1>7

\* To add a value is its Insert.
LEMMA InsertRefines ==
    ASSUME IInv, IInv', NEW c \in Clients, NEW k \in Keys, NEW v \in Values,
           returned[c], m[k] = Nothing, key[v] = Nothing,
           key' = [key EXCEPT ![v] = k], m' = [m EXCEPT ![k] = v], Take(c, v)
    PROVE  Abstract!Insert(c, v)
  <1> USE TTLAssumption
  <1>0. rc[v].evictions = 0 /\ ~InCache(v) /\ Holders(v) = {}
    BY EvictionsOf
  <1>1. /\ Holders(v)' = {c}
        /\ \A u \in Values \ {v} : Holders(u)' = Holders(u)
    BY <1>0, SMTT(60) DEF Holders, Take, IInv, TTLTypeOK
  <1>2. InCache(v)' /\ \A u \in Values \ {v} : InCache(u)' <=> InCache(u)
    BY SMTT(60) DEF InCache, IInv, TTLTypeOK
  <1>3. \A u \in Values \ {v} : key'[u] = key[u]
    BY DEF IInv, TTLTypeOK
  <1>4. Abstract!Settle
    BY <1>0, <1>1, <1>2, <1>3, Settles
  <1>5. AbsHeld' = [AbsHeld EXCEPT ![v] = {c}]
    BY <1>1 DEF AbsHeld
  <1>6. AbsCached' = (AbsCached \ {}) \cup {v} /\ {} \in SUBSET AbsCached
    BY <1>2 DEF AbsCached
  <1>7. v \notin AbsCached /\ AbsHeld[v] = {} /\ v \notin AbsEvicted
    BY <1>0, SMTT(60) DEF AbsCached, AbsHeld, AbsEvicted
  <1> QED BY <1>4, <1>5, <1>6, <1>7
          DEF Abstract!Insert, Abstract!Live, AbsHeld, AbsCached, AbsEvicted

\* To give a value back is its Return.
LEMMA DoneRefines ==
    ASSUME IInv, IInv', NEW c \in Clients, NEW evict \in BOOLEAN, Done(c, evict)
    PROVE  \E v \in Values : Abstract!Return(c, v)
  <1> USE TTLAssumption
  <1>0. PICK v \in Values : v = handle[c]
    BY DEF IInv, TTLTypeOK, Done
  <1>1. /\ key' = key /\ handle' = handle /\ returned' = [returned EXCEPT ![c] = TRUE]
        /\ m' = m \/ (m[key[v]] = v /\ m' = [m EXCEPT ![key[v]] = Nothing])
        /\ key[v] \in Keys
    BY <1>0 DEF Done, IInv, TTLTypeOK, HandlesAreKnown
  <1>2. /\ Holders(v)' = Holders(v) \ {c}
        /\ \A u \in Values \ {v} : Holders(u)' = Holders(u)
    BY <1>0, <1>1 DEF Holders, IInv, TTLTypeOK
  <1>3. AbsCached' \in {AbsCached, AbsCached \ {v}}
    <2>1. CASE m' = m
      BY <2>1 DEF AbsCached, InCache
    <2>2. CASE m[key[v]] = v /\ m' = [m EXCEPT ![key[v]] = Nothing]
      <3>1. \A u \in Values \ {v} : InCache(u)' <=> InCache(u)
        BY <1>1, <2>2 DEF InCache, IInv, TTLTypeOK
      <3>2. ~InCache(v)'
        BY <1>1, <2>2, SMTT(60) DEF InCache, IInv, TTLTypeOK, CachedValueExpires
      <3> QED BY <3>1, <3>2 DEF AbsCached
    <2> QED BY <1>1, <2>1, <2>2
  <1>4. \A u \in Values : InCache(u)' => InCache(u)
    BY <1>3 DEF AbsCached
  <1>5. Abstract!Settle
    BY <1>1, <1>2, <1>4, Settles
  <1>6. AbsHeld' = [AbsHeld EXCEPT ![v] = @ \ {c}]
    BY <1>2 DEF AbsHeld
  <1>7. Abstract!Return(c, v)
    BY <1>3, <1>5, <1>6 DEF Abstract!Return, AbsHeld, AbsCached
  <1> QED BY <1>7

\* A step that only takes entries out of the map.
LEMMA DropRefines ==
    ASSUME IInv, IInv', \A k \in Keys : m'[k] \in {m[k], Nothing},
           UNCHANGED <<key, handle, returned>>
    PROVE  Abstract!Drop
  <1> USE TTLAssumption
  <1>1. \A u \in Values : Holders(u)' = Holders(u)
    BY DEF Holders
  <1>2. \A u \in Values : InCache(u)' => InCache(u)
    BY DEF InCache
  <1>3. Abstract!Settle
    BY <1>1, <1>2, Settles
  <1>4. AbsCached' \in SUBSET AbsCached /\ AbsHeld' = AbsHeld
    BY <1>1, <1>2 DEF AbsCached, AbsHeld
  <1> QED BY <1>3, <1>4 DEF Abstract!Drop, AbsCached, AbsHeld

\* evictLocked only takes values out of the map.
LEMMA EvictLockedDrops ==
    ASSUME IInv, NEW k \in Keys, NEW fired, evictLocked(k, fired)
    PROVE  \A l \in Keys : m'[l] \in {m[l], Nothing}
  BY DEF evictLocked, IInv, TTLTypeOK

\* TTLCache implements RefCounted.
THEOREM Refinement == TTLSpec => ImplementsRefCounted
  <1>1. TTLInit => Abstract!Init
    <2> SUFFICES ASSUME TTLInit PROVE Abstract!Init
      OBVIOUS
    <2>1. \A v \in Values : ~InCache(v) /\ Holders(v) = {} /\ rc[v].evictions = 0
      BY TTLAssumption DEF TTLInit, InCache, Holders, NewCounter
    <2> QED BY <2>1, SMTT(60) DEF Abstract!Init
  <1>2. IInv /\ IInv' /\ [TTLNext]_ttlVars => [Abstract!Next]_(Abstract!vars)
    <2> SUFFICES ASSUME IInv, IInv', [TTLNext]_ttlVars PROVE [Abstract!Next]_(Abstract!vars)
      OBVIOUS
    <2>1. ASSUME NEW c \in Clients, NEW k \in Keys, Get(c, k) \/ Add(c, k) PROVE Abstract!Next
      BY <2>1, BorrowRefines, InsertRefines DEF Get, Add, Abstract!Next
    <2>2. ASSUME NEW c \in Clients, NEW evict \in BOOLEAN, Done(c, evict) PROVE Abstract!Next
      BY <2>2, DoneRefines DEF Abstract!Next
    <2>3. ASSUME NEW k \in Keys, Remove(k) PROVE Abstract!Next
      BY <2>3, DropRefines, EvictLockedDrops DEF Remove, Abstract!Next
    <2>4. ASSUME NEW v \in Values, TimerCallback(v) PROVE Abstract!Next
      <3>1. key[v] \in Keys
        BY <2>4 DEF TimerCallback, IInv, TTLTypeOK, TimersAreKnown
      <3> QED BY <2>4, <3>1, DropRefines, EvictLockedDrops DEF TimerCallback, Abstract!Next
    <2>5. ASSUME NEW v \in Values, TimerFires(v) PROVE Abstract!Next
      BY <2>5, DropRefines DEF TimerFires, Abstract!Next, IInv, TTLTypeOK
    <2>6. CASE UNCHANGED ttlVars
      <3>1. AbsCached' = AbsCached /\ AbsHeld' = AbsHeld /\ AbsEvicted' = AbsEvicted
        BY <2>6 DEF ttlVars, AbsCached, AbsHeld, AbsEvicted, InCache, Holders
      <3> QED BY <3>1 DEF AbsCached, AbsHeld, AbsEvicted, Abstract!vars
    <2> QED BY <2>1, <2>2, <2>3, <2>4, <2>5, <2>6 DEF TTLNext
  <1> QED BY <1>1, <1>2, Inductive, PTL DEF TTLSpec, ImplementsRefCounted, Abstract!Spec

-----------------------------------------------------------------------------
(* The LRU cache. *)

\* A list of the cache: each value once, and not too many.
ListOK(s) ==
    /\ s \in Seq(LRUValues)
    /\ \A i, j \in 1 .. Len(s) : s[i] = s[j] => i = j
    /\ MaxEntries # 0 => Len(s) <= MaxEntries

\* Two lists, one after the other.
Joined(S, a, b, s) ==
    /\ s \in Seq(S) /\ Len(s) = Len(a) + Len(b)
    /\ \A j \in 1 .. Len(a) : s[j] = a[j]
    /\ \A j \in 1 .. Len(b) : s[Len(a) + j] = b[j]

\* That is what \o makes of them.
LEMMA ConcatIs == ASSUME NEW S, NEW a \in Seq(S), NEW b \in Seq(S) PROVE Joined(S, a, b, a \o b)
  <1>1. a \o b \in Seq(S) /\ Len(a \o b) = Len(a) + Len(b)
    BY SMTT(60)
  <1>2. ASSUME NEW j \in 1 .. Len(a) PROVE (a \o b)[j] = a[j]
    BY SMTT(60)
  <1>3. ASSUME NEW j \in 1 .. Len(b) PROVE (a \o b)[Len(a) + j] = b[j]
    BY SMTT(60)
  <1> QED
    BY <1>1, <1>2, <1>3 DEF Joined

\* The list without its i-th entry.
LEMMA WithoutIs ==
    ASSUME NEW S, order \in Seq(S), NEW i \in 1 .. Len(order)
    PROVE  /\ Without(i) \in Seq(S) /\ Len(Without(i)) = Len(order) - 1
           /\ \A j \in 1 .. Len(order) - 1 : Without(i)[j] = order[IF j < i THEN j ELSE j + 1]
  <1>1. PICK a, b : a = SubSeq(order, 1, i - 1) /\ b = SubSeq(order, i + 1, Len(order))
    OBVIOUS
  <1>2. /\ a \in Seq(S) /\ Len(a) = i - 1 /\ \A j \in 1 .. i - 1 : a[j] = order[j]
        /\ b \in Seq(S) /\ Len(b) = Len(order) - i /\ \A j \in 1 .. Len(order) - i : b[j] = order[i + j]
    BY <1>1, SMTT(60)
  <1>3. PICK s : s = a \o b /\ Joined(S, a, b, s)
    BY <1>2, ConcatIs
  <1>4. Without(i) = s /\ Len(a) + Len(b) = Len(order) - 1
    <2>1. Without(i) = s
      BY <1>1, <1>3 DEF Without
    <2>2. Len(a) + Len(b) = Len(order) - 1
      BY <1>2, SMTT(60)
    <2> QED
      BY <2>1, <2>2
  <1>5. ASSUME NEW j \in 1 .. Len(order) - 1 PROVE s[j] = order[IF j < i THEN j ELSE j + 1]
    <2>1. CASE j < i
      <3>1. j \in 1 .. Len(a) /\ j \in 1 .. i - 1
        BY <1>2, <2>1, SMTT(60)
      <3>2. s[j] = a[j] /\ a[j] = order[j]
        BY <1>2, <1>3, <3>1 DEF Joined
      <3> QED
        BY <2>1, <3>2
    <2>2. CASE j >= i
      <3>1. j - Len(a) \in 1 .. Len(order) - i /\ i + (j - Len(a)) = j + 1 /\ Len(a) + (j - Len(a)) = j
        BY <1>2, <2>2, SMTT(60)
      <3>2. s[j] = b[j - Len(a)]
        BY <1>2, <1>3, <3>1 DEF Joined
      <3>3. b[j - Len(a)] = order[i + (j - Len(a))]
        BY <1>2, <3>1
      <3>4. s[j] = order[j + 1]
        BY <3>1, <3>2, <3>3
      <3>5. ~(j < i)
        BY <2>2, SMTT(60)
      <3> QED
        BY <3>4, <3>5
    <2>3. j < i \/ j >= i
      BY SMTT(60)
    <2> QED
      BY <2>1, <2>2, <2>3
  <1> QED
    BY <1>3, <1>4, <1>5 DEF Joined

\* A list with a new first entry.
LEMMA PushIs ==
    ASSUME NEW S, NEW s \in Seq(S), NEW v \in S
    PROVE  /\ <<v>> \o s \in Seq(S) /\ Len(<<v>> \o s) = Len(s) + 1
           /\ (<<v>> \o s)[1] = v /\ \A j \in 1 .. Len(s) : (<<v>> \o s)[j + 1] = s[j]
  BY SMTT(60)

\* What a list has.
LEMMA RangeIs ==
    ASSUME NEW S, NEW s \in Seq(S)
    PROVE  Range(s) = {s[i] : i \in 1 .. Len(s)} /\ Range(s) \subseteq S
  BY SMTT(60) DEF Range

\* Each entry of a list is one of its values.
LEMMA InRange ==
    ASSUME NEW S, NEW s \in Seq(S), NEW i \in 1 .. Len(s)
    PROVE  s[i] \in Range(s) /\ s[i] \in S
  <1>1. s[i] \in S
    BY SMTT(60)
  <1>2. s[i] \in {s[j] : j \in 1 .. Len(s)} /\ Range(s) = {s[j] : j \in 1 .. Len(s)}
    BY RangeIs
  <1> QED
    BY <1>1, <1>2

\* The entry that goes is the only one.
LEMMA ListWithout ==
    ASSUME ListOK(order), NEW i \in 1 .. Len(order)
    PROVE  /\ ListOK(Without(i)) /\ Range(Without(i)) = Range(order) \ {order[i]}
           /\ Len(Without(i)) = Len(order) - 1
  <1>1. PICK s : s = Without(i)
    OBVIOUS
  <1>2. /\ s \in Seq(LRUValues) /\ Len(s) = Len(order) - 1 /\ order \in Seq(LRUValues)
        /\ \A j \in 1 .. Len(order) - 1 : s[j] = order[IF j < i THEN j ELSE j + 1]
    BY <1>1, WithoutIs DEF ListOK
  <1>3. Range(s) = {s[j] : j \in 1 .. Len(s)} /\ Range(order) = {order[j] : j \in 1 .. Len(order)}
    BY <1>2, RangeIs
  <1>4. ListOK(s)
    BY <1>2, LRUAssumption, SMTT(60) DEF ListOK
  <1>5. ASSUME NEW j \in 1 .. Len(s) PROVE s[j] \in Range(order) \ {order[i]}
    BY <1>2, <1>3, SMTT(60) DEF ListOK
  <1>6. ASSUME NEW j \in 1 .. Len(order), order[j] # order[i] PROVE order[j] \in Range(s)
    <2>1. CASE j < i
      BY <1>2, <1>3, <2>1, SMTT(60)
    <2>2. CASE j > i
      <3>1. j - 1 \in 1 .. Len(s) /\ s[j - 1] = order[j]
        BY <1>2, <2>2, SMTT(60)
      <3> QED
        BY <1>3, <3>1
    <2> QED
      BY <1>2, <1>6, <2>1, <2>2, SMTT(60)
  <1>7. Range(s) = Range(order) \ {order[i]}
    BY <1>3, <1>5, <1>6
  <1> QED
    BY <1>1, <1>2, <1>4, <1>7

\* A value that is not in the list becomes its first.
LEMMA ListPush ==
    ASSUME NEW s, ListOK(s), NEW v \in LRUValues, v \notin Range(s), MaxEntries # 0 => Len(s) < MaxEntries
    PROVE  ListOK(<<v>> \o s) /\ Range(<<v>> \o s) = Range(s) \cup {v}
  <1>1. PICK t : t = <<v>> \o s
    OBVIOUS
  <1>2. s \in Seq(LRUValues)
    BY DEF ListOK
  <1>3. t \in Seq(LRUValues) /\ Len(t) = Len(s) + 1 /\ t[1] = v /\ \A j \in 1 .. Len(s) : t[j + 1] = s[j]
    BY <1>1, <1>2, PushIs
  <1>4. Range(t) = {t[j] : j \in 1 .. Len(t)} /\ Range(s) = {s[j] : j \in 1 .. Len(s)}
    BY <1>2, <1>3, RangeIs
  <1>5. Len(s) \in Nat /\ 1 \in 1 .. Len(t) /\ \A j \in 1 .. Len(s) : j + 1 \in 1 .. Len(t)
    BY <1>2, <1>3, SMTT(60)
  <1>6. \A j \in 1 .. Len(t) : j = 1 \/ (j - 1 \in 1 .. Len(s) /\ t[j] = s[j - 1])
    BY <1>3, <1>5, SMTT(60)
  <1>7. Range(t) = Range(s) \cup {v}
    <2>1. ASSUME NEW j \in 1 .. Len(t) PROVE t[j] \in Range(s) \cup {v}
      BY <1>3, <1>4, <1>6
    <2>2. v \in Range(t)
      BY <1>3, <1>4, <1>5
    <2>3. ASSUME NEW j \in 1 .. Len(s) PROVE s[j] \in Range(t)
      <3>1. j + 1 \in 1 .. Len(t) /\ t[j + 1] = s[j]
        BY <1>3, <1>5
      <3> QED
        BY <1>4, <3>1
    <2> QED
      BY <1>4, <2>1, <2>2, <2>3
  <1>8. ASSUME NEW i \in 1 .. Len(t), NEW j \in 1 .. Len(t), t[i] = t[j] PROVE i = j
    <2>1. ASSUME NEW k \in 1 .. Len(t), t[k] = v PROVE k = 1
      <3>1. k # 1 => t[k] \in Range(s)
        BY <1>4, <1>6
      <3> QED
        BY <2>1, <3>1
    <2>2. CASE t[i] = v
      BY <1>8, <2>1, <2>2
    <2>3. CASE t[i] # v
      <3>1. i - 1 \in 1 .. Len(s) /\ j - 1 \in 1 .. Len(s) /\ s[i - 1] = s[j - 1]
        BY <1>3, <1>6, <1>8, <2>3
      <3>2. i - 1 = j - 1
        BY <3>1 DEF ListOK
      <3> QED
        BY <3>2, SMTT(60)
    <2> QED
      BY <2>2, <2>3
  <1>9. MaxEntries # 0 => Len(t) <= MaxEntries
    BY <1>3, <1>5, LRUAssumption, SMTT(60)
  <1> QED
    BY <1>1, <1>3, <1>7, <1>8, <1>9 DEF ListOK

-----------------------------------------------------------------------------
\* The types of the LRU cache.
LRUTypes ==
    /\ keyOf \in [LRUValues -> LRUKeys \cup {Nothing}]
    /\ count \in [LRUValues -> Counters]
    /\ ref \in [Clients -> LRUValues \cup {Nothing}]
    /\ released \in [Clients -> BOOLEAN]

\* The counter of v agrees with the list and with its holders.
LRUBalanced(v) ==
    IF keyOf[v] = Nothing THEN count[v] = NewCounter
                          ELSE CounterOf(count[v], Referrers(v), v \in Range(order))

\* What is in the list or held was added.
RefsAreKnown ==
    /\ \A v \in Range(order) : keyOf[v] # Nothing
    /\ \A c \in Clients : ~released[c] => ref[c] # Nothing
    /\ \A c \in Clients : ref[c] # Nothing => keyOf[ref[c]] # Nothing

\* The inductive invariant.
LRUInv ==
    /\ LRUTypes
    /\ ListOK(order)
    /\ RefsAreKnown
    /\ \A v \in LRUValues : LRUBalanced(v)

\* What a step does to the list, as a set: c takes a value of the list;
Takes(c, v) ==
    /\ v \in Range(order) /\ ListOK(order') /\ Range(order') = Range(order)
    /\ count' = [count EXCEPT ![v] = inc(@)]
    /\ Refer(c, v) /\ keyOf' = keyOf

\* c adds v, and the values of D leave;
Puts(c, v, D) ==
    /\ v \in LRUValues /\ keyOf[v] = Nothing /\ D \in SUBSET Range(order)
    /\ ListOK(order') /\ Range(order') = (Range(order) \ D) \cup {v}
    /\ \E k \in LRUKeys : keyOf' = [keyOf EXCEPT ![v] = k]
    /\ count'[v] = inc(initialize(NewCounter))
    /\ \A u \in D : count'[u] = finalize(count[u])
    /\ \A u \in LRUValues \ (D \cup {v}) : count'[u] = count[u]
    /\ count' = [u \in LRUValues |-> count'[u]]
    /\ Refer(c, v)

\* v leaves.
Leaves(v) ==
    /\ v \in Range(order) /\ ListOK(order') /\ Range(order') = Range(order) \ {v}
    /\ count' = [count EXCEPT ![v] = finalize(@)]
    /\ UNCHANGED <<keyOf, ref, released>>

\* Get, and Add of a cached key, take the value found.
LEMMA HitTakes ==
    ASSUME LRUInv, NEW c \in Clients, NEW k \in LRUKeys, Hit(c, k)
    PROVE  \E v \in LRUValues : Takes(c, v)
  <1>1. PICK i \in At(k) :
           /\ order' = <<order[i]>> \o Without(i)
           /\ count' = [count EXCEPT ![order[i]] = inc(@)]
           /\ Refer(c, order[i]) /\ keyOf' = keyOf
    BY DEF Hit
  <1>2. i \in 1 .. Len(order) /\ ListOK(order) /\ order \in Seq(LRUValues)
    BY DEF At, LRUInv, ListOK
  <1>3. PICK s, v : s = Without(i) /\ v = order[i]
    OBVIOUS
  <1>4. ListOK(s) /\ Range(s) = Range(order) \ {v} /\ Len(s) = Len(order) - 1
    BY <1>2, <1>3, ListWithout
  <1>5. v \in Range(order) /\ v \in LRUValues /\ v \notin Range(s)
    BY <1>2, <1>3, <1>4, InRange
  <1>6. MaxEntries # 0 => Len(s) < MaxEntries
    BY <1>2, <1>4, LRUAssumption, SMTT(60) DEF ListOK
  <1>7. ListOK(<<v>> \o s) /\ Range(<<v>> \o s) = Range(s) \cup {v}
    BY <1>4, <1>5, <1>6, ListPush
  <1>8. Range(order) = Range(s) \cup {v}
    BY <1>4, <1>5
  <1> QED
    BY <1>1, <1>3, <1>5, <1>7, <1>8 DEF Takes

\* Add of another key puts a value into the list; the last one leaves when
\* there is no room.
LEMMA MissPuts ==
    ASSUME LRUInv, NEW c \in Clients, NEW k \in LRUKeys, Miss(c, k)
    PROVE  \E v \in LRUValues, D \in SUBSET LRUValues : Puts(c, v, D)
  <1>1. PICK v \in LRUValues :
           /\ keyOf[v] = Nothing /\ keyOf' = [keyOf EXCEPT ![v] = k] /\ Refer(c, v)
           /\ IF MaxEntries # 0 /\ Len(order) = MaxEntries
              THEN /\ order' = <<v>> \o Without(Len(order))
                   /\ count' = [[count EXCEPT ![v] = inc(initialize(@))]
                                   EXCEPT ![order[Len(order)]] = finalize(@)]
              ELSE order' = <<v>> \o order /\ count' = [count EXCEPT ![v] = inc(initialize(@))]
    BY DEF Miss
  <1>2. ListOK(order) /\ order \in Seq(LRUValues) /\ Len(order) \in Nat /\ v \notin Range(order)
    <2>1. ListOK(order) /\ order \in Seq(LRUValues) /\ v \notin Range(order)
      BY <1>1 DEF LRUInv, ListOK, RefsAreKnown
    <2> QED
      BY <2>1, SMTT(60)
  <1>3. count[v] = NewCounter /\ count \in [LRUValues -> Counters]
    BY <1>1 DEF LRUInv, LRUBalanced, LRUTypes
  <1>4. PICK f : f = [count EXCEPT ![v] = inc(initialize(@))]
    OBVIOUS
  <1>5. f[v] = inc(initialize(NewCounter)) /\ \A u \in LRUValues \ {v} : f[u] = count[u]
    BY <1>3, <1>4
  <1>6. f \in [LRUValues -> Counters]
    BY <1>3, <1>4, <1>5, Added DEF Fields
  <1>7. CASE MaxEntries # 0 /\ Len(order) = MaxEntries
    <2>1. Len(order) \in 1 .. Len(order)
      BY <1>2, <1>7, SMTT(60)
    <2>2. PICK s, l : s = Without(Len(order)) /\ l = order[Len(order)]
      OBVIOUS
    <2>3. ListOK(s) /\ Range(s) = Range(order) \ {l} /\ Len(s) = Len(order) - 1
      BY <1>2, <2>1, <2>2, ListWithout
    <2>4. l \in Range(order) /\ l \in LRUValues /\ l # v /\ v \notin Range(s)
      <3>1. l \in Range(order) /\ l \in LRUValues
        BY <1>2, <2>1, <2>2, InRange
      <3> QED
        BY <1>2, <2>3, <3>1
    <2>5. MaxEntries # 0 => Len(s) < MaxEntries
      BY <1>2, <1>7, <2>3, LRUAssumption, SMTT(60)
    <2>6. ListOK(<<v>> \o s) /\ Range(<<v>> \o s) = Range(s) \cup {v}
      BY <2>3, <2>4, <2>5, ListPush
    <2>7. order' = <<v>> \o s /\ count' = [f EXCEPT ![l] = finalize(@)]
      BY <1>1, <1>4, <1>7, <2>2
    <2>8. /\ count'[v] = inc(initialize(NewCounter)) /\ count'[l] = finalize(count[l])
          /\ \A u \in LRUValues \ {l, v} : count'[u] = count[u]
      BY <1>5, <1>6, <2>4, <2>7
    <2>9. Puts(c, v, {l})
      <3>1. count' = [u \in LRUValues |-> count'[u]]
        BY <1>6, <2>7
      <3> QED
        BY <1>1, <1>6, <2>3, <2>4, <2>6, <2>7, <2>8, <3>1 DEF Puts
    <2> QED
      BY <2>4, <2>9
  <1>8. CASE ~(MaxEntries # 0 /\ Len(order) = MaxEntries)
    <2>1. order' = <<v>> \o order /\ count' = f
      BY <1>1, <1>4, <1>8
    <2>2. MaxEntries # 0 => Len(order) < MaxEntries
      BY <1>2, <1>8, LRUAssumption, SMTT(60) DEF ListOK
    <2>3. ListOK(<<v>> \o order) /\ Range(<<v>> \o order) = Range(order) \cup {v}
      BY <1>2, <2>2, ListPush
    <2>4. count' = [u \in LRUValues |-> count'[u]]
      BY <1>6, <2>1
    <2>5. Puts(c, v, {})
      BY <1>1, <1>5, <1>6, <2>1, <2>3, <2>4 DEF Puts
    <2> QED
      BY <2>5
  <1> QED
    BY <1>7, <1>8

\* Remove takes a value out.
LEMMA RemoveLeaves ==
    ASSUME LRUInv, NEW k \in LRUKeys, RemoveKey(k)
    PROVE  \E v \in LRUValues : Leaves(v)
  <1>1. PICK i \in At(k) :
           /\ order' = Without(i)
           /\ count' = [count EXCEPT ![order[i]] = finalize(@)]
           /\ UNCHANGED <<keyOf, ref, released>>
    BY DEF RemoveKey
  <1>2. i \in 1 .. Len(order) /\ ListOK(order) /\ order \in Seq(LRUValues)
    BY DEF At, LRUInv, ListOK
  <1>3. ListOK(Without(i)) /\ Range(Without(i)) = Range(order) \ {order[i]}
    BY <1>2, ListWithout
  <1>4. order[i] \in Range(order) /\ order[i] \in LRUValues
    BY <1>2, InRange
  <1> QED
    BY <1>1, <1>3, <1>4 DEF Leaves

\* Finitely many clients hold a value.
LEMMA FiniteReferrers == ASSUME NEW v PROVE IsFiniteSet(Referrers(v))
  BY ClientsAssumption, FS_Subset DEF Referrers

\* A value whose counter, list entry and holders stay keeps its balance.
LEMMA LRUOthers ==
    ASSUME NEW v \in LRUValues, LRUBalanced(v), keyOf'[v] = keyOf[v], count'[v] = count[v],
           Referrers(v)' = Referrers(v), v \in Range(order') <=> v \in Range(order)
    PROVE  LRUBalanced(v)'
  BY DEF LRUBalanced, CounterOf

\* To take a value keeps the invariant.
LEMMA TakesPreserves ==
    ASSUME LRUInv, NEW c \in Clients, NEW v \in LRUValues, released[c], Takes(c, v)
    PROVE  LRUInv'
  <1> USE LRUAssumption
  <1>0. keyOf[v] # Nothing /\ v \in Range(order) /\ LRUBalanced(v) /\ LRUTypes
    BY DEF LRUInv, RefsAreKnown, Takes
  <1>1. /\ Referrers(v)' = Referrers(v) \cup {c} /\ c \notin Referrers(v)
        /\ \A u \in LRUValues \ {v} : Referrers(u)' = Referrers(u)
    BY SMTT(60) DEF Referrers, Takes, Refer, LRUInv, LRUTypes
  <1>2. count'[v] = inc(count[v]) /\ \A u \in LRUValues \ {v} : count'[u] = count[u]
    BY <1>0 DEF Takes, LRUTypes
  <1>3. CounterOf(count'[v], Referrers(v) \cup {c}, TRUE)
    <2>1. PICK r, H : r = count[v] /\ H = Referrers(v)
      OBVIOUS
    <2>2. IsFiniteSet(H) /\ c \notin H /\ CounterOf(r, H, TRUE)
      BY <1>0, <1>1, <2>1, FiniteReferrers DEF LRUBalanced, CounterOf
    <2>3. CounterOf(inc(r), H \cup {c}, TRUE)
      BY <2>2, CounterInc
    <2> QED
      BY <1>2, <2>1, <2>3
  <1>4. LRUTypes'
    <2>1. count'[v] \in Counters
      BY <1>3 DEF CounterOf, Fields
    <2> QED
      BY <1>0, <2>1 DEF LRUTypes, Takes, Refer
  <1>5. RefsAreKnown'
    <2>1. \A d \in Clients : d # c => ref'[d] = ref[d] /\ released'[d] = released[d]
      BY <1>0 DEF Takes, Refer, LRUTypes
    <2>2. ref'[c] = v
      BY <1>0 DEF Takes, Refer, LRUTypes
    <2> QED
      BY <1>0, <2>1, <2>2 DEF LRUInv, RefsAreKnown, Takes
  <1>6. LRUBalanced(v)'
    BY <1>0, <1>1, <1>3 DEF LRUBalanced, Takes, CounterOf
  <1>7. ASSUME NEW u \in LRUValues, u # v PROVE LRUBalanced(u)'
    <2>1. LRUBalanced(u) /\ keyOf'[u] = keyOf[u] /\ (u \in Range(order') <=> u \in Range(order))
      BY DEF LRUInv, Takes
    <2> QED
      BY <1>1, <1>2, <1>7, <2>1, LRUOthers
  <1> QED
    BY <1>4, <1>5, <1>6, <1>7 DEF LRUInv, Takes

\* A value that leaves the list gives up one reference.
LEMMA LRUFinalized ==
    ASSUME NEW v \in LRUValues, LRUBalanced(v), keyOf[v] # Nothing, keyOf'[v] = keyOf[v],
           v \in Range(order), count'[v] = finalize(count[v]), Referrers(v)' = Referrers(v),
           v \notin Range(order')
    PROVE  LRUBalanced(v)'
  <1>1. PICK r, H : r = count[v] /\ H = Referrers(v)
    OBVIOUS
  <1>2. IsFiniteSet(H) /\ TRUE \in BOOLEAN /\ CounterOf(r, H, TRUE)
    BY <1>1, FiniteReferrers DEF LRUBalanced, CounterOf
  <1>3. CounterOf(finalize(r), H, FALSE)
    BY <1>2, CounterFinalize
  <1> QED
    BY <1>1, <1>3 DEF LRUBalanced, CounterOf

\* To put a value keeps the invariant.
LEMMA PutsPreserves ==
    ASSUME LRUInv, NEW c \in Clients, NEW v \in LRUValues, NEW D \in SUBSET LRUValues,
           released[c], Puts(c, v, D)
    PROVE  LRUInv'
  <1> USE LRUAssumption
  <1>0. LRUTypes /\ RefsAreKnown /\ keyOf[v] = Nothing /\ v \notin Range(order) /\ v \notin D
    BY DEF LRUInv, RefsAreKnown, Puts
  <1>1. PICK k \in LRUKeys : keyOf' = [keyOf EXCEPT ![v] = k]
    BY DEF Puts
  <1>2. keyOf'[v] = k /\ k # Nothing /\ \A u \in LRUValues \ {v} : keyOf'[u] = keyOf[u]
    BY <1>0, <1>1 DEF LRUTypes
  <1>3. /\ Referrers(v)' = {c}
        /\ \A u \in LRUValues \ {v} : Referrers(u)' = Referrers(u)
    BY <1>0, SMTT(60) DEF Referrers, Puts, Refer, LRUTypes, RefsAreKnown
  <1>4. CounterOf(count'[v], {c}, TRUE)
    <2>1. Fields(count'[v], 2, {"initialize"}, 0)
      BY Added DEF Puts
    <2>2. Cardinality({c}) = 1
      BY FS_Singleton
    <2>3. Fields(count'[v], Cardinality({c}) + 1, {"initialize"}, 0)
      BY <2>1, <2>2, SMTT(60)
    <2> QED
      BY <2>3 DEF CounterOf
  <1>5. LRUBalanced(v)'
    <2>1. v \in Range(order')
      BY DEF Puts
    <2> QED
      BY <1>2, <1>3, <1>4, <2>1 DEF LRUBalanced, CounterOf
  <1>6. ASSUME NEW u \in LRUValues, u # v PROVE LRUBalanced(u)'
    <2>1. LRUBalanced(u) /\ keyOf'[u] = keyOf[u] /\ Referrers(u)' = Referrers(u)
      BY <1>2, <1>3, <1>6 DEF LRUInv
    <2>2. CASE u \in D
      <3>1. /\ keyOf[u] # Nothing /\ u \in Range(order)
            /\ count'[u] = finalize(count[u]) /\ u \notin Range(order')
        BY <1>0, <1>6, <2>2 DEF Puts, RefsAreKnown
      <3> QED
        BY <2>1, <3>1, LRUFinalized
    <2>3. CASE u \notin D
      <3>1. count'[u] = count[u] /\ (u \in Range(order') <=> u \in Range(order))
        BY <1>6, <2>3 DEF Puts
      <3> QED
        BY <2>1, <3>1, LRUOthers
    <2> QED
      BY <2>2, <2>3
  <1>7. LRUTypes'
    <2>1. ASSUME NEW u \in LRUValues PROVE count'[u] \in Counters
      <3>1. LRUBalanced(u)'
        BY <1>5, <1>6
      <3>2. CounterOf(count'[u], Referrers(u)', u \in Range(order')) => count'[u] \in Counters
        BY DEF CounterOf, Fields
      <3>3. NewCounter \in Counters
        BY New DEF Fields
      <3> QED
        BY <3>1, <3>2, <3>3 DEF LRUBalanced
    <2>2. count' \in [LRUValues -> Counters]
      BY <2>1 DEF Puts
    <2> QED
      BY <1>0, <1>1, <2>2 DEF LRUTypes, Puts, Refer
  <1>8. RefsAreKnown'
    <2>1. \A d \in Clients : d # c => ref'[d] = ref[d] /\ released'[d] = released[d]
      BY <1>0 DEF Puts, Refer, LRUTypes
    <2>2. ref'[c] = v
      BY <1>0 DEF Puts, Refer, LRUTypes
    <2>3. \A u \in LRUValues : keyOf[u] # Nothing => keyOf'[u] # Nothing
      BY <1>0, <1>2
    <2>4. Range(order) \in SUBSET LRUValues
      BY RangeIs DEF LRUInv, ListOK
    <2>5. \A u \in Range(order') : keyOf'[u] # Nothing
      BY <1>0, <1>2, <2>3, <2>4 DEF Puts, RefsAreKnown
    <2>6. \A d \in Clients : ref[d] # Nothing => ref[d] \in LRUValues
      BY <1>0 DEF LRUTypes
    <2> QED
      BY <1>0, <1>2, <2>1, <2>2, <2>3, <2>5, <2>6 DEF RefsAreKnown
  <1> QED
    BY <1>5, <1>6, <1>7, <1>8 DEF LRUInv, Puts

\* So does a value that leaves.
LEMMA LeavesPreserves ==
    ASSUME LRUInv, NEW v \in LRUValues, Leaves(v)
    PROVE  LRUInv'
  <1>0. keyOf[v] # Nothing /\ LRUTypes /\ RefsAreKnown
    BY DEF LRUInv, RefsAreKnown, Leaves
  <1>1. \A u \in LRUValues : Referrers(u)' = Referrers(u) /\ LRUBalanced(u) /\ keyOf'[u] = keyOf[u]
    BY DEF Referrers, Leaves, LRUInv
  <1>2. count'[v] = finalize(count[v]) /\ \A u \in LRUValues \ {v} : count'[u] = count[u]
    BY <1>0 DEF Leaves, LRUTypes
  <1>3. /\ v \in Range(order) /\ v \notin Range(order')
        /\ \A u \in LRUValues \ {v} : u \in Range(order') <=> u \in Range(order)
    BY DEF Leaves
  <1>4. LRUBalanced(v)'
    BY <1>0, <1>1, <1>2, <1>3, LRUFinalized
  <1>5. ASSUME NEW u \in LRUValues, u # v PROVE LRUBalanced(u)'
    BY <1>1, <1>2, <1>3, <1>5, LRUOthers
  <1>6. LRUTypes'
    <2>1. count'[v] \in Counters
      BY <1>0, <1>4 DEF LRUBalanced, CounterOf, Fields, Leaves
    <2> QED
      BY <1>0, <2>1 DEF LRUTypes, Leaves
  <1>7. RefsAreKnown'
    BY <1>0 DEF RefsAreKnown, Leaves
  <1> QED
    BY <1>4, <1>5, <1>6, <1>7 DEF LRUInv, Leaves

\* And the done function of a client, called once or again.
LEMMA LRUDonePreserves ==
    ASSUME LRUInv, NEW c \in Clients, LRUDone(c)
    PROVE  LRUInv'
  <1>1. PICK v : v = ref[c]
    OBVIOUS
  <1>2. v \in LRUValues /\ keyOf[v] # Nothing /\ LRUTypes /\ RefsAreKnown /\ LRUBalanced(v)
    BY <1>1 DEF LRUInv, LRUTypes, RefsAreKnown, LRUDone
  <1>3. /\ Referrers(v)' = Referrers(v) \ {c} /\ (released[c] <=> c \notin Referrers(v))
        /\ \A u \in LRUValues \ {v} : Referrers(u)' = Referrers(u)
    BY <1>1, <1>2 DEF Referrers, LRUDone, LRUTypes
  <1>4. CounterOf(count'[v], Referrers(v) \ {c}, v \in Range(order))
    <2>1. PICK r \in {count[v]}, H \in {Referrers(v)}, b \in BOOLEAN :
             r = count[v] /\ H = Referrers(v) /\ (b <=> v \in Range(order))
      OBVIOUS
    <2>2. IsFiniteSet(H) /\ CounterOf(r, H, b)
      BY <1>2, <2>1, FiniteReferrers DEF LRUBalanced, CounterOf
    <2>3. CASE released[c]
      <3>1. H \ {c} = H /\ count'[v] = r
        BY <1>3, <2>1, <2>3 DEF LRUDone
      <3> QED
        BY <2>1, <2>2, <3>1 DEF CounterOf
    <2>4. CASE ~released[c]
      <3>1. c \in H /\ count'[v] = dec(r)
        BY <1>1, <1>2, <1>3, <2>1, <2>4 DEF LRUDone, LRUTypes
      <3>2. CounterOf(dec(r), H \ {c}, b)
        BY <2>2, <3>1, CounterDec
      <3> QED
        BY <2>1, <3>1, <3>2 DEF CounterOf
    <2> QED
      BY <2>3, <2>4
  <1>5. LRUBalanced(v)'
    BY <1>2, <1>3, <1>4 DEF LRUBalanced, LRUDone, CounterOf
  <1>6. \A u \in LRUValues \ {v} : count'[u] = count[u]
    BY <1>1, <1>2 DEF LRUDone, LRUTypes
  <1>7. ASSUME NEW u \in LRUValues, u # v PROVE LRUBalanced(u)'
    <2>1. LRUBalanced(u) /\ keyOf'[u] = keyOf[u] /\ (u \in Range(order') <=> u \in Range(order))
      BY DEF LRUInv, LRUDone
    <2> QED
      BY <1>3, <1>6, <1>7, <2>1, LRUOthers
  <1>8. LRUTypes'
    <2>1. count'[v] \in Counters
      BY <1>4 DEF CounterOf, Fields
    <2>2. count' \in [LRUValues -> Counters]
      BY <1>1, <1>2, <2>1 DEF LRUDone, LRUTypes
    <2> QED
      BY <1>2, <2>2 DEF LRUDone, LRUTypes
  <1>9. RefsAreKnown' /\ ListOK(order')
    BY <1>2 DEF RefsAreKnown, LRUDone, LRUInv, LRUTypes
  <1> QED
    BY <1>5, <1>7, <1>8, <1>9 DEF LRUInv

\* The invariant of the LRU cache, its list and its counters.
THEOREM LRUInductive == LRUSpec => []LRUInv
  <1>1. LRUInit => LRUInv
    <2> SUFFICES ASSUME LRUInit PROVE LRUInv
      OBVIOUS
    <2>1. NewCounter \in Counters
      BY New DEF Fields
    <2>2. ListOK(order)
      <3>1. order = <<>> /\ MaxEntries \in Nat
        BY LRUAssumption DEF LRUInit
      <3> QED
        BY <3>1, SMTT(60) DEF ListOK
    <2>3. Range(order) = {}
      <3>1. order = <<>>
        BY DEF LRUInit
      <3> QED
        BY <3>1, SMTT(60) DEF Range
    <2> QED
      BY <2>1, <2>2, <2>3 DEF LRUInit, LRUInv, LRUTypes, RefsAreKnown, LRUBalanced
  <1>2. LRUInv /\ [LRUNext]_lruVars => LRUInv'
    <2> SUFFICES ASSUME LRUInv, [LRUNext]_lruVars PROVE LRUInv'
      OBVIOUS
    <2>1. ASSUME NEW c \in Clients, NEW k \in LRUKeys, LRUGet(c, k) \/ LRUAdd(c, k) PROVE LRUInv'
      BY <2>1, HitTakes, TakesPreserves, MissPuts, PutsPreserves DEF LRUGet, LRUAdd
    <2>2. ASSUME NEW k \in LRUKeys, RemoveKey(k) PROVE LRUInv'
      BY <2>2, RemoveLeaves, LeavesPreserves
    <2>3. CASE UNCHANGED lruVars
      <3>1. \A v \in LRUValues : Referrers(v)' = Referrers(v)
        BY <2>3 DEF lruVars, Referrers
      <3>2. \A v \in LRUValues : LRUBalanced(v)'
        BY <2>3, <3>1, LRUOthers DEF lruVars, LRUInv
      <3> QED
        BY <2>3, <3>2 DEF lruVars, LRUInv, LRUTypes, RefsAreKnown
    <2> QED
      BY <2>1, <2>2, <2>3, LRUDonePreserves DEF LRUNext
  <1> QED
    BY <1>1, <1>2, PTL DEF LRUSpec

\* The evictions of a value are one if it is dead, none otherwise.
LEMMA LRUEvictionsOf ==
    ASSUME LRUInv, NEW v \in LRUValues
    PROVE  /\ count[v].evictions =
                IF keyOf[v] # Nothing /\ v \notin Range(order) /\ Referrers(v) = {} THEN 1 ELSE 0
           /\ keyOf[v] = Nothing => v \notin Range(order) /\ Referrers(v) = {}
  <1>1. CASE keyOf[v] = Nothing
    <2>1. count[v].evictions = 0
      BY <1>1, New DEF LRUInv, LRUBalanced, Fields
    <2>2. v \notin Range(order) /\ Referrers(v) = {}
      BY <1>1 DEF LRUInv, RefsAreKnown, Referrers
    <2> QED
      BY <1>1, <2>1, <2>2
  <1>2. CASE keyOf[v] # Nothing
    BY <1>2 DEF LRUInv, LRUBalanced, CounterOf, Fields
  <1> QED
    BY <1>1, <1>2

\* So OnEvicted has run exactly for the dead values.
LEMMA LRUInvEvicts == LRUInv => OverflowEvictsOnce
  BY LRUEvictionsOf DEF OverflowEvictsOnce

\* The same in the next state.
LEMMA LRUInvEvictsPrime == LRUInv' => OverflowEvictsOnce'
  BY LRUInvEvicts, PTL

\* OnEvicted of the LRU cache runs exactly once for a value, when it has left the
\* list and its last holder is done.
THEOREM OverflowEvicts == LRUSpec => []OverflowEvictsOnce
  BY LRUInvEvicts, LRUInductive, PTL

\* A list has no more values than entries.
LEMMA ListSize ==
    ASSUME NEW S, NEW s \in Seq(S)
    PROVE  IsFiniteSet(Range(s)) /\ Cardinality(Range(s)) <= Len(s) /\ Cardinality(Range(s)) \in Nat
  <1>1. Len(s) \in Nat /\ s \in [1 .. Len(s) -> S]
    BY SMTT(60)
  <1>2. IsFiniteSet(1 .. Len(s)) /\ Cardinality(1 .. Len(s)) = Len(s)
    BY <1>1, FS_Interval, SMTT(60)
  <1>3. s \in Surjection(1 .. Len(s), Range(s))
    BY <1>1 DEF Surjection, Range
  <1>4. IsFiniteSet(Range(s)) /\ Cardinality(Range(s)) <= Cardinality(1 .. Len(s))
    BY <1>2, <1>3, FS_Surjection
  <1> QED
    BY <1>2, <1>4, FS_CardinalityType

\* The open resources are at most the limit of the cache and one for each client
\* that holds one, whatever the cache has evicted before.
THEOREM OpenResources == LRUSpec => []OpenResourcesBounded
  <1>1. LRUInv => OpenResourcesBounded
    <2> SUFFICES ASSUME LRUInv, MaxEntries # 0 PROVE OpenResourcesBounded
      BY DEF OpenResourcesBounded
    <2>1. PICK O, R, C : /\ O = {v \in LRUValues : keyOf[v] # Nothing /\ count[v].evictions = 0}
                         /\ R = Range(order) /\ C = {c \in Clients : ~released[c]}
      OBVIOUS
    <2>2. PICK H : H = {ref[c] : c \in C}
      OBVIOUS
    <2>3. IsFiniteSet(C) /\ Cardinality(C) \in Nat
      BY <2>1, ClientsAssumption, FS_Subset, FS_CardinalityType
    <2>4. [c \in C |-> ref[c]] \in Surjection(C, H)
      BY <2>2 DEF Surjection
    <2>5. IsFiniteSet(H) /\ Cardinality(H) <= Cardinality(C) /\ Cardinality(H) \in Nat
      BY <2>3, <2>4, FS_Surjection, FS_CardinalityType
    <2>6. order \in Seq(LRUValues) /\ Len(order) <= MaxEntries
      BY DEF LRUInv, ListOK
    <2>7. IsFiniteSet(R) /\ Cardinality(R) <= Len(order) /\ Cardinality(R) \in Nat
      BY <2>1, <2>6, ListSize
    <2>8. /\ IsFiniteSet(R \cup H) /\ Cardinality(R \cap H) \in Nat
          /\ Cardinality(R \cup H) = Cardinality(R) + Cardinality(H) - Cardinality(R \cap H)
      <3>1. IsFiniteSet(R \cap H)
        BY <2>7, FS_Subset
      <3> QED
        BY <2>5, <2>7, <3>1, FS_Union, FS_CardinalityType
    <2>9. O \in SUBSET (R \cup H)
      <3> SUFFICES ASSUME NEW v \in LRUValues, keyOf[v] # Nothing, count[v].evictions = 0
                   PROVE  v \in R \cup H
        BY <2>1
      <3>1. v \in Range(order) \/ Referrers(v) # {}
        <4>1. count[v].evictions =
                IF keyOf[v] # Nothing /\ v \notin Range(order) /\ Referrers(v) = {} THEN 1 ELSE 0
          BY LRUEvictionsOf
        <4> QED
          BY <4>1, SMTT(60)
      <3> QED
        BY <2>1, <2>2, <3>1 DEF Referrers
    <2>10. Cardinality(O) <= Cardinality(R \cup H) /\ Cardinality(O) \in Nat
      BY <2>8, <2>9, FS_Subset, FS_CardinalityType
    <2>11. Len(order) \in Nat /\ MaxEntries \in Nat
      BY <2>6, LRUAssumption, SMTT(60)
    <2>12. Cardinality(R \cup H) \in Nat
      BY <2>8, FS_CardinalityType
    <2>13. Cardinality(O) <= MaxEntries + Cardinality(C)
      BY <2>3, <2>5, <2>6, <2>7, <2>8, <2>10, <2>11, <2>12, SMTT(60)
    <2> QED
      BY <2>1, <2>13 DEF OpenResourcesBounded
  <1> QED
    BY <1>1, LRUInductive, PTL

-----------------------------------------------------------------------------
(* Refinement of RefCounted by the LRU cache. *)
LRUHeld == [v \in LRUValues |-> Referrers(v)]
LRUEvicted == {v \in LRUValues : count[v].evictions > 0}

\* If no added value is forgotten, none that died comes back and a new one is
\* held, then the values that die in a step are the ones evicted in it.
LEMMA LRUSettles ==
    ASSUME LRUInv, LRUInv',
           \A v \in LRUValues : keyOf[v] # Nothing => keyOf'[v] # Nothing,
           \A v \in LRUValues : keyOf[v] # Nothing /\ v \notin Range(order) /\ Referrers(v) = {}
                                  => v \notin Range(order') /\ Referrers(v)' = {},
           \A v \in LRUValues : keyOf[v] = Nothing /\ keyOf'[v] # Nothing => Referrers(v)' # {}
    PROVE  LRUAbstract!Settle
  <1> SUFFICES ASSUME NEW v \in LRUValues
               PROVE  (count'[v].evictions > 0) <=>
                        \/ count[v].evictions > 0
                        \/ /\ v \in Range(order) \/ Referrers(v) # {}
                           /\ ~(v \in Range(order') \/ Referrers(v)' # {})
    BY DEF LRUAbstract!Settle, LRUAbstract!Live
  <1>1. count[v].evictions > 0 <=> keyOf[v] # Nothing /\ v \notin Range(order) /\ Referrers(v) = {}
    BY LRUEvictionsOf, SMTT(60)
  <1>2. count'[v].evictions > 0 <=> keyOf'[v] # Nothing /\ v \notin Range(order') /\ Referrers(v)' = {}
    <2>1. count'[v].evictions =
            IF keyOf'[v] # Nothing /\ v \notin Range(order') /\ Referrers(v)' = {} THEN 1 ELSE 0
      BY LRUInvEvictsPrime DEF OverflowEvictsOnce
    <2> QED
      BY <2>1, SMTT(60)
  <1>3. v \in Range(order) \/ Referrers(v) # {} => keyOf[v] # Nothing
    BY LRUEvictionsOf
  <1> QED
    BY <1>1, <1>2, <1>3

\* To take a value of the list is Borrow of RefCounted.
LEMMA TakesRefines ==
    ASSUME LRUInv, LRUInv', NEW c \in Clients, NEW v \in LRUValues, released[c], Takes(c, v)
    PROVE  LRUAbstract!Borrow(c, v)
  <1>1. /\ Referrers(v)' = Referrers(v) \cup {c}
        /\ \A u \in LRUValues \ {v} : Referrers(u)' = Referrers(u)
    BY LRUAssumption, SMTT(60) DEF Referrers, Takes, Refer, LRUInv, LRUTypes
  <1>2. Range(order') = Range(order) /\ keyOf' = keyOf /\ v \in Range(order)
    BY DEF Takes
  <1>3. LRUAbstract!Settle
    BY <1>1, <1>2, LRUSettles
  <1>4. LRUHeld' = [LRUHeld EXCEPT ![v] = @ \cup {c}]
    BY <1>1 DEF LRUHeld
  <1> QED
    BY <1>2, <1>3, <1>4 DEF LRUAbstract!Borrow, LRUHeld

\* To put one is its Insert.
LEMMA PutsRefines ==
    ASSUME LRUInv, LRUInv', NEW c \in Clients, NEW v \in LRUValues, NEW D \in SUBSET LRUValues,
           released[c], Puts(c, v, D)
    PROVE  LRUAbstract!Insert(c, v)
  <1>0. count[v].evictions = 0 /\ v \notin Range(order) /\ Referrers(v) = {} /\ keyOf[v] = Nothing
    BY LRUEvictionsOf DEF Puts
  <1>1. /\ Referrers(v)' = {c}
        /\ \A u \in LRUValues \ {v} : Referrers(u)' = Referrers(u)
    BY <1>0, LRUAssumption, SMTT(60) DEF Referrers, Puts, Refer, LRUInv, LRUTypes
  <1>2. Range(order') = (Range(order) \ D) \cup {v} /\ D \in SUBSET Range(order)
    BY DEF Puts
  <1>3. \A u \in LRUValues \ {v} : keyOf'[u] = keyOf[u]
    BY DEF Puts, LRUInv, LRUTypes
  <1>4. LRUAbstract!Settle
    BY <1>0, <1>1, <1>2, <1>3, LRUSettles
  <1>5. LRUHeld' = [LRUHeld EXCEPT ![v] = {c}] /\ LRUHeld[v] = {}
    BY <1>0, <1>1 DEF LRUHeld
  <1>6. v \notin LRUEvicted
    BY <1>0, SMTT(60) DEF LRUEvicted
  <1> QED
    BY <1>0, <1>2, <1>4, <1>5, <1>6 DEF LRUAbstract!Insert, LRUAbstract!Live, LRUHeld, LRUEvicted

\* To remove one is its Drop.
LEMMA LeavesRefines ==
    ASSUME LRUInv, LRUInv', NEW v \in LRUValues, Leaves(v)
    PROVE  LRUAbstract!Drop
  <1>1. \A u \in LRUValues : Referrers(u)' = Referrers(u)
    BY DEF Referrers, Leaves
  <1>2. Range(order') \in SUBSET Range(order) /\ keyOf' = keyOf
    BY DEF Leaves
  <1>3. LRUAbstract!Settle
    BY <1>1, <1>2, LRUSettles
  <1>4. LRUHeld' = LRUHeld
    BY <1>1 DEF LRUHeld
  <1> QED
    BY <1>2, <1>3, <1>4 DEF LRUAbstract!Drop, LRUHeld

\* To give one back is its Return.
LEMMA LRUDoneRefines ==
    ASSUME LRUInv, LRUInv', NEW c \in Clients, LRUDone(c)
    PROVE  \E v \in LRUValues : LRUAbstract!Return(c, v)
  <1>0. PICK v \in LRUValues : v = ref[c]
    BY DEF LRUInv, LRUTypes, LRUDone
  <1>1. /\ Referrers(v)' = Referrers(v) \ {c}
        /\ \A u \in LRUValues \ {v} : Referrers(u)' = Referrers(u)
    BY <1>0 DEF Referrers, LRUDone, LRUInv, LRUTypes
  <1>2. Range(order') = Range(order) /\ keyOf' = keyOf
    BY DEF LRUDone
  <1>3. LRUAbstract!Settle
    BY <1>1, <1>2, LRUSettles
  <1>4. LRUHeld' = [LRUHeld EXCEPT ![v] = @ \ {c}]
    BY <1>1 DEF LRUHeld
  <1> QED
    BY <1>2, <1>3, <1>4 DEF LRUAbstract!Return, LRUHeld

\* LRUCache implements RefCounted: an entry that overflows, or is removed, is
\* dropped, and evicted in the very step in which nobody has it any more.
THEOREM LRURefinement == LRUSpec => LRUImplementsRefCounted
  <1>1. LRUInit => LRUAbstract!Init
    <2> SUFFICES ASSUME LRUInit PROVE LRUAbstract!Init
      OBVIOUS
    <2>1. Range(order) = {}
      <3>1. order = <<>>
        BY DEF LRUInit
      <3> QED
        BY <3>1, SMTT(60) DEF Range
    <2>2. \A v \in LRUValues : Referrers(v) = {} /\ count[v].evictions = 0
      BY LRUAssumption DEF LRUInit, Referrers, NewCounter
    <2> QED
      BY <2>1, <2>2, SMTT(60) DEF LRUAbstract!Init
  <1>2. LRUInv /\ LRUInv' /\ [LRUNext]_lruVars => [LRUAbstract!Next]_(LRUAbstract!vars)
    <2> SUFFICES ASSUME LRUInv, LRUInv', [LRUNext]_lruVars
                 PROVE  [LRUAbstract!Next]_(LRUAbstract!vars)
      OBVIOUS
    <2>1. ASSUME NEW c \in Clients, NEW k \in LRUKeys, released[c], Hit(c, k) PROVE LRUAbstract!Next
      BY <2>1, HitTakes, TakesRefines DEF LRUAbstract!Next
    <2>2. ASSUME NEW c \in Clients, NEW k \in LRUKeys, released[c], Miss(c, k) PROVE LRUAbstract!Next
      BY <2>2, MissPuts, PutsRefines DEF LRUAbstract!Next
    <2>3. ASSUME NEW k \in LRUKeys, RemoveKey(k) PROVE LRUAbstract!Next
      BY <2>3, RemoveLeaves, LeavesRefines DEF LRUAbstract!Next
    <2>4. ASSUME NEW c \in Clients, LRUDone(c) PROVE LRUAbstract!Next
      BY <2>4, LRUDoneRefines DEF LRUAbstract!Next
    <2>5. CASE UNCHANGED lruVars
      <3>1. Range(order') = Range(order) /\ LRUHeld' = LRUHeld /\ LRUEvicted' = LRUEvicted
        BY <2>5 DEF lruVars, LRUHeld, LRUEvicted, Referrers
      <3> QED
        BY <3>1 DEF LRUHeld, LRUEvicted, LRUAbstract!vars
    <2> QED
      BY <2>1, <2>2, <2>3, <2>4, <2>5 DEF LRUNext, LRUGet, LRUAdd
  <1> QED
    BY <1>1, <1>2, LRUInductive, PTL DEF LRUSpec, LRUImplementsRefCounted, LRUAbstract!Spec

\* Both caches keep what they promise, for any clients, keys, values and limit: each
\* implements RefCounted, and the LRU cache evicts once and bounds what is open.
THEOREM CachesKeepTheirPromise == TTLSpec /\ LRUSpec => CachesImplementRefCounted
  BY Refinement, LRURefinement, OverflowEvicts, OpenResources, PTL DEF CachesImplementRefCounted

-----------------------------------------------------------------------------
(* The filesystem and its resolver. *)

\* The control of Mount and Unmount of a request, and of a goroutine.
Mains == {"idle", "wait", "verify", "fuse", "mounted", "failed", "unmount", "done"}
Gos == {"off", "lock", "get", "blob", "fetch", "meta", "resolved", "failed", "end"}

\* The types of the caches, the references and the layers made.
CacheTypes ==
    /\ layerCache \in [Names -> Layers \cup {None}]
    /\ blobCache \in [Names -> (1 .. blobs) \cup {None}]
    /\ holds \in [Layers -> SUBSET Goroutines]
    /\ uses \in [Blobs -> SUBSET Goroutines]
    /\ blobOf \in [Layers -> Blobs \cup {None}]
    /\ blobs \in 0 .. MaxBlobs

\* The types of the requests and their goroutines.
ProcTypes ==
    /\ target \in [Requests -> Names]
    /\ main \in [Requests -> Mains] /\ go \in [Goroutines -> Gos]
    /\ name \in [Goroutines -> Names \cup {None}]
    /\ myBlob \in [Goroutines -> (1 .. blobs) \cup {None}]
    /\ myLayer \in [Goroutines -> Layers \cup {None}]
    /\ registered \in [Requests -> Layers \cup {None}]
    /\ mounted \in [Requests -> Layers \cup {None}]

\* Layers are made in order, and only those are cached.
MadeInv ==
    /\ \E n \in 0 .. MaxLayers : Made = 1 .. n
    /\ \A n \in Names : layerCache[n] # None => layerCache[n] \in Made

\* What is closed: the layers neither cached nor held, the blobs neither cached nor used
\* by a goroutine or an open layer.
ClosedInv ==
    /\ closedLayers = {l \in Layers : blobOf[l] # None /\ l \notin Range(layerCache) /\ holds[l] = {}}
    /\ closedBlobs = {b \in 1 .. blobs : /\ b \notin Range(blobCache) /\ uses[b] = {}
                                        /\ \A l \in Layers \ closedLayers : blobOf[l] # b}

\* Mount of r has a layer, or the kernel serves it.
Serving(r) == main[r] \in {"verify", "fuse", "mounted"}

\* A goroutine that runs has a name to resolve, and a blob exactly while it builds
\* the layer, with a reference that counts.  Before Mount nothing runs, and Mount only
\* goes on with the layer of a goroutine that has ended.
GoInv ==
    /\ \A g \in Goroutines :
         /\ go[g] # "off" => name[g] \in Names
         /\ go[g] = "meta" <=> myBlob[g] # None
         /\ myBlob[g] # None => g \in uses[myBlob[g]]
    /\ \A r \in Requests :
         /\ main[r] = "idle" => go[Target(r)] = "off" /\ go[Neighbor(r)] = "off"
         /\ Serving(r) => go[Target(r)] = "end"

\* g has a layer: it resolved one that nobody took yet, or Mount goes on with it.
Holding(g) == go[g] = "resolved" \/ \E r \in Requests : g = Target(r) /\ Serving(r)

\* The references that count are exactly those of the goroutines that hold, each of
\* them to the layer it resolved.
HoldInv ==
    /\ \A g \in Goroutines : Holding(g) => myLayer[g] \in Made
    /\ \A l \in Layers : holds[l] = {g \in Goroutines : Holding(g) /\ myLayer[g] = l}

\* What is registered and what the kernel serves is the layer of the target's goroutine;
\* a registration left behind by a failed mount belongs to a goroutine that has ended.
RegInv ==
    \A r \in Requests :
        /\ main[r] \in {"fuse", "mounted"} => registered[r] = myLayer[Target(r)]
        /\ main[r] = "mounted" => mounted[r] = myLayer[Target(r)]
        /\ registered[r] # None => go[Target(r)] = "end" /\ main[r] \in {"fuse", "mounted", "failed"}

\* The invariant of the filesystem.
FsInv == CacheTypes /\ ProcTypes /\ MadeInv /\ ClosedInv /\ GoInv /\ HoldInv /\ RegInv

\* The goroutines of the requests are distinct.
LEMMA Pairs ==
    \A r, s \in Requests : /\ Target(r) \in Goroutines /\ Neighbor(r) \in Goroutines
                           /\ Target(r) = Target(s) => r = s
                           /\ Target(r) # Neighbor(s)
  BY SMTT(60) DEF Target, Neighbor, Goroutines

\* The invariant implies both properties.
LEMMA InvImplies == ASSUME FsInv PROVE MountedIsOpen /\ LayersDoNotLeak
  <1> USE FilesystemAssumption, Pairs
  <1>t. CacheTypes /\ ProcTypes
     BY DEF FsInv
  <1>0. \A l \in Layers : l \in Made <=> blobOf[l] # None
    BY DEF Made
  <1>1. \A l \in Made \ closedLayers : blobOf[l] \notin closedBlobs
    BY SMTT(60) DEF FsInv, ClosedInv, Made
  <1>2. \A g \in Goroutines : myBlob[g] # None => myBlob[g] \notin closedBlobs
    BY SMTT(60) DEF FsInv, GoInv, ClosedInv
  <1>3. ASSUME NEW g \in Goroutines, Holding(g) PROVE myLayer[g] \in Made \ closedLayers
    <2>1. myLayer[g] \in Made /\ myLayer[g] \in Layers
      BY <1>3 DEF FsInv, HoldInv, Made
    <2>2. g \in holds[myLayer[g]]
      BY <1>3, <2>1 DEF FsInv, HoldInv
    <2> QED BY <2>1, <2>2 DEF FsInv, ClosedInv
  <1>4. ASSUME NEW r \in Requests, main[r] = "mounted"
        PROVE mounted[r] \notin closedLayers /\ blobOf[mounted[r]] \notin closedBlobs
    <2>1. Holding(Target(r))
      BY <1>4 DEF Holding, Serving
    <2>2. mounted[r] = myLayer[Target(r)]
      BY <1>4 DEF FsInv, RegInv
    <2> QED BY <2>1, <2>2, <1>3, <1>1
  <1>5. MountedIsOpen
    BY <1>1, <1>2, <1>4 DEF MountedIsOpen, BlobOutlivesLayer
  <1>6. ASSUME NEW l \in Made \ closedLayers, l \notin Range(layerCache)
        PROVE \/ \E r \in Requests : registered[r] = l /\ main[r] \in {"fuse", "mounted"}
              \/ \E g \in Goroutines : g \in holds[l] /\ go[g] = "resolved"
              \/ \E r \in Requests : main[r] = "verify" /\ myLayer[Target(r)] = l
    <2>1. l \in Layers /\ blobOf[l] # None
      BY DEF Made
    <2>2. holds[l] # {}
      BY <1>6, <2>1 DEF FsInv, ClosedInv
    <2>3. PICK g \in holds[l] : g \in Goroutines /\ Holding(g) /\ myLayer[g] = l
      <3>1. PICK g : g \in holds[l]  BY <2>2
      <3>2. holds[l] = {x \in Goroutines : Holding(x) /\ myLayer[x] = l}
        BY <2>1 DEF FsInv, HoldInv
      <3> QED BY <3>1, <3>2
    <2>4. CASE go[g] = "resolved"  BY <2>3, <2>4
    <2>5. ASSUME NEW r \in Requests, g = Target(r), Serving(r)
          PROVE  \/ registered[r] = l /\ main[r] \in {"fuse", "mounted"}
                 \/ main[r] = "verify" /\ myLayer[Target(r)] = l
      BY <2>3, <2>5 DEF Serving, FsInv, RegInv
    <2> QED BY <2>3, <2>4, <2>5 DEF Holding
  <1> QED BY <1>5, <1>6 DEF LayersDoNotLeak

\* It holds before anything is mounted.
LEMMA FsInitInv == FsInit => FsInv
  <1> SUFFICES ASSUME FsInit PROVE FsInv
    OBVIOUS
  <1> USE FilesystemAssumption, Pairs DEF FsInit, FsIdle
  <1>0. Made = {}  BY DEF Made
  <1>1. CacheTypes  BY SMTT(60) DEF CacheTypes
  <1>2. ProcTypes  BY DEF ProcTypes, Mains, Gos
  <1>3. MadeInv
    <2>1. 0 \in 0 .. MaxLayers /\ {} = 1 .. 0
      BY SMTT(60)
    <2> QED BY <1>0, <2>1 DEF MadeInv
  <1>4. ClosedInv
    <2>1. 1 .. 0 = {}  BY SMTT(60)
    <2> QED BY <2>1 DEF ClosedInv
  <1>5. GoInv /\ RegInv  BY DEF GoInv, Serving, RegInv
  <1>6. \A g \in Goroutines : ~Holding(g)  BY DEF Holding, Serving
  <1>7. HoldInv  BY <1>6 DEF HoldInv
  <1> QED BY <1>1, <1>2, <1>3, <1>4, <1>5, <1>7 DEF FsInv

\* Whatever the caches and references become, OnEvicted closes what died with them.
LEMMA SettleEffect ==
    ASSUME NEW lc, NEW bc, NEW h, NEW u, NEW bo, NEW nb,
           Settle(lc, bc, h, u, bo, nb), blobOf' = bo, blobs' = nb, nb \in 0 .. MaxBlobs,
           lc \in [Names -> Layers \cup {None}], bc \in [Names -> (1 .. nb) \cup {None}],
           h \in [Layers -> SUBSET Goroutines], u \in [Blobs -> SUBSET Goroutines],
           bo \in [Layers -> Blobs \cup {None}]
    PROVE  /\ CacheTypes' /\ ClosedInv'
           /\ layerCache' = lc /\ holds' = h /\ uses' = u
  <1> DEFINE dead == {l \in Layers : bo[l] # None /\ l \notin Range(lc) /\ h[l] = {}}
             freed == {bo[l] : l \in dead \ closedLayers}
             bc2 == [n \in Names |-> IF bc[n] \in freed THEN None ELSE bc[n]]
  <1>1. /\ layerCache' = lc /\ holds' = h /\ closedLayers' = dead
        /\ blobCache' = bc2 /\ uses' = u
        /\ closedBlobs' = {b \in 1 .. nb : /\ b \notin Range(bc2) /\ u[b] = {}
                                          /\ \A l \in Layers \ dead : bo[l] # b}
    BY DEF Settle
  <1>2. bc2 \in [Names -> (1 .. nb) \cup {None}]
    OBVIOUS
  <1> HIDE DEF bc2
  <1>3. CacheTypes'
    BY <1>1, <1>2 DEF CacheTypes
  <1>4. ClosedInv'
    BY <1>1 DEF ClosedInv
  <1> QED BY <1>1, <1>3, <1>4

\* A step that leaves the caches alone leaves everything about them alone.
LEMMA Control ==
    ASSUME FsInv, UNCHANGED <<resolverVars, blobOf, blobs>>
    PROVE  CacheTypes' /\ MadeInv' /\ ClosedInv' /\ Made' = Made
  BY DEF FsInv, resolverVars, CacheTypes, MadeInv, ClosedInv, Made

\* Dropping entries from the layer cache caches no layer that was not made.
LEMMA MadeKept ==
    ASSUME FsInv, UNCHANGED blobOf, \A n \in Names : layerCache'[n] \in {None, layerCache[n]}
    PROVE  MadeInv' /\ Made' = Made
  <1>1. Made' = Made  BY DEF Made
  <1> QED BY <1>1 DEF FsInv, MadeInv

\* A goroutine that is not done holds no layer.
LEMMA NotHolding ==
    ASSUME FsInv, NEW g \in Goroutines, go[g] \notin {"resolved", "end"}
    PROVE  ~Holding(g)
  BY Pairs DEF FsInv, GoInv, Holding

\* A step of one goroutine leaves what the others hold alone.
LEMMA OnlyGo ==
    ASSUME FsInv, NEW x \in Goroutines, NEW p, Go(x, p), UNCHANGED main
    PROVE  /\ go'[x] = p
           /\ \A g \in Goroutines \ {x} : go'[g] = go[g] /\ (Holding(g)' <=> Holding(g))
  <1>1. go'[x] = p /\ \A g \in Goroutines \ {x} : go'[g] = go[g]
    BY DEF Go, FsInv, ProcTypes
  <1> QED BY <1>1 DEF Holding, Serving

\* A step of Mount or Unmount leaves alone what goroutines other than its own hold.
LEMMA OnlyMain ==
    ASSUME FsInv, NEW r \in Requests, NEW p, To(r, p), UNCHANGED go
    PROVE  /\ main'[r] = p
           /\ \A s \in Requests \ {r} : main'[s] = main[s]
           /\ \A g \in Goroutines \ {Target(r)} : Holding(g)' <=> Holding(g)
  <1>1. main'[r] = p /\ \A s \in Requests \ {r} : main'[s] = main[s]
    BY DEF To, FsInv, ProcTypes
  <1>2. ASSUME NEW g \in Goroutines \ {Target(r)}  PROVE Holding(g)' <=> Holding(g)
    BY <1>1 DEF Holding, Serving
  <1> QED BY <1>1, <1>2

\* The references stay right when nobody starts or stops holding a layer.
LEMMA HoldKept ==
    ASSUME FsInv, UNCHANGED holds, Made' = Made,
           \A g \in Goroutines : Holding(g)' <=> Holding(g),
           \A g \in Goroutines : Holding(g) => myLayer'[g] = myLayer[g]
    PROVE  HoldInv'
  <1>1. \A g \in Goroutines : Holding(g)' => myLayer'[g] \in Made'
    BY DEF FsInv, HoldInv
  <1>2. ASSUME NEW l \in Layers PROVE holds'[l] = {g \in Goroutines : Holding(g)' /\ myLayer'[g] = l}
    <2>1. holds[l] = {g \in Goroutines : Holding(g) /\ myLayer[g] = l}
      BY DEF FsInv, HoldInv
    <2> QED BY <2>1
  <1> QED BY <1>1, <1>2 DEF HoldInv

\* They stay right when x gives its layer back.
LEMMA Released ==
    ASSUME FsInv, NEW x \in Goroutines, ~Holding(x)', Made' = Made,
           \A g \in Goroutines \ {x} : Holding(g)' <=> Holding(g),
           \A g \in Goroutines \ {x} : myLayer'[g] = myLayer[g],
           holds' = [holds EXCEPT ![myLayer[x]] = @ \ {x}]
    PROVE  HoldInv'
  <1>1. \A g \in Goroutines : Holding(g)' => myLayer'[g] \in Made'
    BY DEF FsInv, HoldInv
  <1>2. ASSUME NEW l \in Layers PROVE holds'[l] = {g \in Goroutines : Holding(g)' /\ myLayer'[g] = l}
    <2>1. holds[l] = {g \in Goroutines : Holding(g) /\ myLayer[g] = l}
      BY DEF FsInv, HoldInv
    <2>2. holds'[l] = holds[l] \ {x}
      BY <2>1 DEF FsInv, CacheTypes
    <2> QED BY <2>1, <2>2
  <1> QED BY <1>1, <1>2 DEF HoldInv

\* They stay right when x gets the layer k.
LEMMA Acquired ==
    ASSUME FsInv, NEW x \in Goroutines, NEW k \in Layers, ~Holding(x), Holding(x)',
           k \in Made', Made \subseteq Made',
           \A g \in Goroutines \ {x} : Holding(g)' <=> Holding(g),
           myLayer' = [myLayer EXCEPT ![x] = k],
           holds' = [holds EXCEPT ![k] = @ \cup {x}]
    PROVE  HoldInv'
  <1>0. myLayer'[x] = k /\ \A g \in Goroutines \ {x} : myLayer'[g] = myLayer[g]
    BY DEF FsInv, ProcTypes
  <1>1. \A g \in Goroutines : Holding(g)' => myLayer'[g] \in Made'
    BY <1>0 DEF FsInv, HoldInv
  <1>2. ASSUME NEW l \in Layers PROVE holds'[l] = {g \in Goroutines : Holding(g)' /\ myLayer'[g] = l}
    <2>1. holds[l] = {g \in Goroutines : Holding(g) /\ myLayer[g] = l}
      BY DEF FsInv, HoldInv
    <2>2. holds'[l] = IF l = k THEN holds[l] \cup {x} ELSE holds[l]
      BY DEF FsInv, CacheTypes
    <2>3. CASE l = k  BY <1>0, <2>1, <2>2, <2>3
    <2>4. CASE l # k  BY <1>0, <2>1, <2>2, <2>4
    <2> QED BY <2>3, <2>4
  <1> QED BY <1>1, <1>2 DEF HoldInv

\* Resolve takes its lock.
LEMMA LockStep ==
    ASSUME FsInv, NEW g \in Goroutines, Lock(g)
    PROVE  FsInv'
  <1>0. go[g] = "lock" /\ Go(g, "get") /\ UNCHANGED <<main, resolverVars, blobOf, blobs>>
    BY DEF Lock
  <1>1. go'[g] = "get" /\ \A x \in Goroutines \ {g} : go'[x] = go[x] /\ (Holding(x)' <=> Holding(x))
    BY <1>0, OnlyGo
  <1>2. CacheTypes' /\ MadeInv' /\ ClosedInv' /\ Made' = Made
    BY <1>0, Control
  <1>3. ~Holding(g)  BY <1>0, NotHolding
  <1>4. ProcTypes'
    BY <1>0 DEF FsInv, ProcTypes, Lock, Go, Gos
  <1>5. GoInv'
    BY <1>0, <1>1, Pairs DEF FsInv, GoInv, Lock, resolverVars, Serving
  <1>6. RegInv'
    BY <1>0, <1>1, Pairs DEF FsInv, RegInv, Lock
  <1>7. ~Holding(g)'
    BY <1>0, <1>1, <1>5 DEF GoInv, Holding
  <1>8. HoldInv'
    BY <1>0, <1>1, <1>2, <1>3, <1>7, HoldKept DEF Lock, resolverVars
  <1> QED BY <1>2, <1>4, <1>5, <1>6, <1>8 DEF FsInv

\* Mount starts its two goroutines.
LEMMA MountStep ==
    ASSUME FsInv, NEW r \in Requests, Mount(r)
    PROVE  FsInv'
  <1> DEFINE t == Target(r)
             n == Neighbor(r)
  <1>0. /\ main[r] = "idle" /\ go[t] = "off" /\ go[n] = "off"
        /\ To(r, "wait") /\ UNCHANGED <<resolverVars, blobOf, blobs>>
        /\ t \in Goroutines /\ n \in Goroutines /\ t # n
    BY Pairs DEF Mount, FsInv, GoInv
  <1>1. /\ go'[t] = "lock" /\ go'[n] = "lock" /\ main'[r] = "wait"
        /\ \A x \in Goroutines \ {t, n} : go'[x] = go[x]
        /\ \A q \in Requests \ {r} : main'[q] = main[q]
    BY <1>0 DEF Mount, FsInv, ProcTypes, To
  <1>n. /\ name'[t] \in Names /\ name'[n] \in Names
        /\ \A x \in Goroutines \ {t, n} : name'[x] = name[x]
        /\ name' \in [Goroutines -> Names \cup {None}]
    BY <1>0 DEF Mount, FsInv, ProcTypes
  <1>2. CacheTypes' /\ MadeInv' /\ ClosedInv' /\ Made' = Made
    BY <1>0, Control
  <1>3. ~Holding(t) /\ ~Holding(n)  BY <1>0, NotHolding
  <1>4. ProcTypes'
    BY <1>0, <1>n DEF FsInv, ProcTypes, Mount, To, Mains, Gos
  <1>5. GoInv'
    <2>1. UNCHANGED <<myBlob, uses>> /\ myBlob[t] = None /\ myBlob[n] = None
      BY <1>0 DEF Mount, resolverVars, FsInv, GoInv
    <2>2. ASSUME NEW x \in Goroutines
          PROVE  /\ go'[x] # "off" => name'[x] \in Names
                 /\ go'[x] = "meta" <=> myBlob'[x] # None
                 /\ myBlob'[x] # None => x \in uses'[myBlob'[x]]
      BY <1>0, <1>1, <1>n, <2>1 DEF FsInv, GoInv
    <2>3. ASSUME NEW q \in Requests
          PROVE  /\ main'[q] = "idle" => go'[Target(q)] = "off" /\ go'[Neighbor(q)] = "off"
                 /\ Serving(q)' => go'[Target(q)] = "end"
      <3>1. CASE q = r  BY <1>1, <3>1 DEF Serving
      <3>2. CASE q # r
        <4>1. Target(q) \notin {t, n} /\ Neighbor(q) \notin {t, n}
          BY <3>2, Pairs, SMTT(60) DEF Target, Neighbor
        <4> QED BY <1>1, <3>2, <4>1, Pairs DEF FsInv, GoInv, Serving
      <3> QED BY <3>1, <3>2
    <2> QED BY <2>2, <2>3 DEF GoInv
  <1>6. RegInv'
    BY <1>0, <1>1, Pairs DEF FsInv, RegInv, Mount
  <1>7. \A x \in Goroutines : Holding(x)' <=> Holding(x)
    BY <1>0, <1>1, <1>3, Pairs DEF Holding, Serving
  <1>8. HoldInv'
    BY <1>0, <1>2, <1>7, HoldKept DEF Mount, resolverVars
  <1> QED BY <1>2, <1>4, <1>5, <1>6, <1>8 DEF FsInv

\* Mount takes the result over: the reference is now Mount's.
LEMMA ReceiveStep ==
    ASSUME FsInv, NEW r \in Requests, Receive(r)
    PROVE  FsInv'
  <1> DEFINE t == Target(r)
             p == IF go[t] = "resolved" THEN "verify" ELSE "failed"
  <1>0. /\ main[r] = "wait" /\ go[t] \in {"resolved", "failed"}
        /\ To(r, p) /\ Go(t, "end") /\ UNCHANGED <<resolverVars, blobOf, blobs>>
        /\ t \in Goroutines
    BY Pairs DEF Receive
  <1>1. /\ go'[t] = "end" /\ main'[r] = p
        /\ \A x \in Goroutines \ {t} : go'[x] = go[x]
        /\ \A q \in Requests \ {r} : main'[q] = main[q]
    BY <1>0 DEF FsInv, ProcTypes, To, Go
  <1>2. CacheTypes' /\ MadeInv' /\ ClosedInv' /\ Made' = Made
    BY <1>0, Control
  <1>4. ProcTypes'
    BY <1>0 DEF FsInv, ProcTypes, Receive, To, Go, Mains, Gos
  <1>5. GoInv'
    BY <1>0, <1>1, Pairs, SMTT(60) DEF FsInv, GoInv, Receive, resolverVars, Serving
  <1>6. RegInv'
    BY <1>0, <1>1, Pairs DEF FsInv, RegInv, Receive
  <1>7. \A x \in Goroutines : Holding(x)' <=> Holding(x)
    BY <1>0, <1>1, Pairs DEF Holding, Serving
  <1>8. HoldInv'
    BY <1>0, <1>2, <1>7, HoldKept DEF Receive, resolverVars
  <1> QED BY <1>2, <1>4, <1>5, <1>6, <1>8 DEF FsInv

\* Steps of Mount and Unmount that neither take nor give a layer.
LEMMA MainStep ==
    ASSUME FsInv, NEW r \in Requests,
           Timeout(r) \/ Register(r) \/ Serve(r) \/ UnmountKernel(r)
    PROVE  FsInv'
  <1> DEFINE t == Target(r)
  <1>0. /\ t \in Goroutines
        /\ UNCHANGED <<target, go, name, myBlob, myLayer, resolverVars, blobOf, blobs>>
    BY Pairs DEF Timeout, Register, Serve, UnmountKernel
  <1>a. PICK p \in Mains :
             /\ To(r, p) /\ (Serving(r) <=> p \in {"verify", "fuse", "mounted"})
             /\ p # "idle" /\ main[r] # "idle"
    BY DEF Timeout, Register, Serve, UnmountKernel, Serving, Mains
  <1>1. /\ main'[r] = p
        /\ \A q \in Requests \ {r} : main'[q] = main[q]
    BY <1>a DEF FsInv, ProcTypes, To
  <1>2. CacheTypes' /\ MadeInv' /\ ClosedInv' /\ Made' = Made
    BY <1>0, Control
  <1>s. \A q \in Requests : Serving(q)' <=> Serving(q)
    BY <1>1, <1>a DEF Serving
  <1>4. ProcTypes'
    <2>1. myLayer[t] \in Layers \cup {None}  BY <1>0 DEF FsInv, ProcTypes
    <2>2. registered' \in [Requests -> Layers \cup {None}] /\ mounted' \in [Requests -> Layers \cup {None}]
      BY <2>1 DEF FsInv, ProcTypes, Timeout, Register, Serve, UnmountKernel
    <2> QED BY <1>0, <1>a, <2>2 DEF FsInv, ProcTypes, To
  <1>5. GoInv'
    BY <1>0, <1>1, <1>a, <1>s, Pairs DEF FsInv, GoInv, resolverVars
  <1>6. RegInv'
    <2>1. CASE Timeout(r)
      BY <1>0, <2>1, <1>1, Pairs, SMTT(60) DEF FsInv, RegInv, GoInv, Timeout, To, ProcTypes
    <2>2. CASE Register(r)
      BY <1>0, <2>2, Pairs, SMTT(60) DEF FsInv, RegInv, GoInv, Register, To, ProcTypes, Serving
    <2>3. CASE Serve(r)
      BY <1>0, <2>3, Pairs, SMTT(60) DEF FsInv, RegInv, GoInv, Serve, To, ProcTypes
    <2>4. CASE UnmountKernel(r)
      BY <1>0, <2>4, Pairs, SMTT(60) DEF FsInv, RegInv, GoInv, UnmountKernel, To, ProcTypes
    <2> QED BY <2>1, <2>2, <2>3, <2>4
  <1>7. \A x \in Goroutines : Holding(x)' <=> Holding(x)
    BY <1>0, <1>s DEF Holding
  <1>8. HoldInv'
    BY <1>0, <1>2, <1>7, HoldKept DEF resolverVars
  <1> QED BY <1>2, <1>4, <1>5, <1>6, <1>8 DEF FsInv

\* A release takes away the reference of x and no other.
LEMMA ReleaseEffect ==
    ASSUME FsInv, NEW x \in Goroutines, NEW evict \in BOOLEAN, Release(x, evict),
           UNCHANGED <<blobOf, blobs>>
    PROVE  /\ CacheTypes' /\ ClosedInv' /\ MadeInv' /\ Made' = Made
           /\ uses' = uses /\ holds' = [holds EXCEPT ![myLayer[x]] = @ \ {x}]
  <1> DEFINE lc == IF evict THEN Drop(layerCache, myLayer[x]) ELSE layerCache
             h == [holds EXCEPT ![myLayer[x]] = @ \ {x}]
  <1>1. Settle(lc, blobCache, h, uses, blobOf, blobs)
    BY DEF Release
  <1>2. /\ lc \in [Names -> Layers \cup {None}] /\ h \in [Layers -> SUBSET Goroutines]
        /\ \A n \in Names : lc[n] \in {None, layerCache[n]}
    BY DEF FsInv, CacheTypes, Drop
  <1> HIDE DEF lc, h
  <1>3. CacheTypes' /\ ClosedInv' /\ layerCache' = lc /\ holds' = h /\ uses' = uses
    BY <1>1, <1>2, SettleEffect DEF FsInv, CacheTypes
  <1>4. MadeInv' /\ Made' = Made
    BY <1>2, <1>3, MadeKept
  <1> QED BY <1>3, <1>4 DEF h

\* Mount fails with a layer, or Unmount closes it: possibly for the second time, after
\* a mount that failed in FUSE, and then without an effect on the other references.
LEMMA GiveUp ==
    ASSUME FsInv, NEW r \in Requests, VerifyFails(r) \/ FuseFails(r) \/ Unmount(r)
    PROVE  FsInv'
  <1> DEFINE t == Target(r)
  <1>0. /\ t \in Goroutines /\ go[t] = "end" /\ main[r] \in {"verify", "fuse", "mounted", "failed"}
        /\ UNCHANGED <<target, go, name, myBlob, myLayer, blobOf, blobs, mounted>>
    BY Pairs DEF VerifyFails, FuseFails, Unmount, FsInv, GoInv, RegInv, Serving
  <1>a. PICK p \in {"failed", "unmount", "done"} : To(r, p)
    BY DEF VerifyFails, FuseFails, Unmount
  <1>b. PICK evict \in BOOLEAN : Release(t, evict)
    BY DEF VerifyFails, FuseFails, Unmount
  <1>1. /\ main'[r] = p
        /\ \A q \in Requests \ {r} : main'[q] = main[q]
        /\ \A g \in Goroutines \ {t} : Holding(g)' <=> Holding(g)
    BY <1>0, <1>a, OnlyMain
  <1>2. /\ CacheTypes' /\ ClosedInv' /\ MadeInv' /\ Made' = Made
        /\ uses' = uses /\ holds' = [holds EXCEPT ![myLayer[t]] = @ \ {t}]
    BY <1>0, <1>b, ReleaseEffect
  <1>4. ProcTypes'
    <2>1. registered' \in [Requests -> Layers \cup {None}]
      BY DEF FsInv, ProcTypes, VerifyFails, FuseFails, Unmount
    <2>2. p \in Mains  BY <1>a DEF Mains
    <2> QED BY <1>0, <1>a, <2>1, <2>2 DEF FsInv, ProcTypes, To
  <1>5. GoInv'
    BY <1>0, <1>1, <1>2, <1>a, Pairs DEF FsInv, GoInv, Serving
  <1>6. RegInv'
    <2>1. \A q \in Requests \ {r} : registered'[q] = registered[q]
      BY DEF FsInv, ProcTypes, VerifyFails, FuseFails, Unmount
    <2>2. registered'[r] # None => main'[r] = "failed"
      BY <1>1 DEF FsInv, ProcTypes, RegInv, VerifyFails, FuseFails, Unmount, To
    <2>3. main'[r] \notin {"fuse", "mounted"}
      BY <1>1, <1>a
    <2> QED BY <1>0, <1>1, <2>1, <2>2, <2>3 DEF FsInv, RegInv
  <1>7. ~Holding(t)'
    BY <1>0, <1>1, <1>a, Pairs DEF Holding, Serving
  <1>8. HoldInv'
    BY <1>0, <1>1, <1>2, <1>7, Released
  <1> QED BY <1>2, <1>4, <1>5, <1>6, <1>8 DEF FsInv

\* A pre-resolution ends and gives its layer back.
LEMMA NeighborStep ==
    ASSUME FsInv, NEW r \in Requests, NeighborDone(r)
    PROVE  FsInv'
  <1> DEFINE g == Neighbor(r)
  <1>0. /\ g \in Goroutines /\ go[g] \in {"resolved", "failed"} /\ Go(g, "end")
        /\ myLayer' = [myLayer EXCEPT ![g] = None]
        /\ UNCHANGED <<target, main, name, myBlob, blobOf, blobs, registered, mounted>>
        /\ \A q \in Requests : Target(q) \in Goroutines \ {g}
    BY Pairs DEF NeighborDone
  <1>1. go'[g] = "end" /\ \A x \in Goroutines \ {g} : go'[x] = go[x] /\ (Holding(x)' <=> Holding(x))
    BY <1>0, OnlyGo
  <1>l. /\ myLayer' \in [Goroutines -> Layers \cup {None}]
        /\ \A x \in Goroutines \ {g} : myLayer'[x] = myLayer[x]
    BY <1>0 DEF FsInv, ProcTypes
  <1>3. ~Holding(g)'
    BY <1>0, <1>1, Pairs DEF Holding
  <1>2. /\ CacheTypes' /\ ClosedInv' /\ MadeInv' /\ Made' = Made
        /\ uses' = uses /\ HoldInv'
    <2>1. CASE go[g] = "resolved"
      <3>1. Release(g, FALSE)  BY <2>1 DEF NeighborDone
      <3>2. /\ CacheTypes' /\ ClosedInv' /\ MadeInv' /\ Made' = Made
            /\ uses' = uses /\ holds' = [holds EXCEPT ![myLayer[g]] = @ \ {g}]
        BY <1>0, <3>1, ReleaseEffect
      <3>3. HoldInv'
        BY <1>0, <1>1, <1>l, <1>3, <3>2, Released
      <3> QED BY <3>2, <3>3
    <2>2. CASE go[g] = "failed"
      <3>1. UNCHANGED resolverVars  BY <2>2 DEF NeighborDone
      <3>2. CacheTypes' /\ MadeInv' /\ ClosedInv' /\ Made' = Made
        BY <1>0, <3>1, Control
      <3>3. ~Holding(g)  BY <1>0, <2>2, NotHolding
      <3>4. HoldInv'
        BY <1>1, <1>3, <1>l, <3>1, <3>2, <3>3, HoldKept DEF resolverVars
      <3> QED BY <3>1, <3>2, <3>4 DEF resolverVars
    <2> QED BY <1>0, <2>1, <2>2
  <1>4. ProcTypes'
    BY <1>0, <1>l DEF FsInv, ProcTypes, Go, Gos
  <1>n. name[g] \in Names /\ myBlob[g] = None
    BY <1>0 DEF FsInv, GoInv
  <1>i. main[r] # "idle"
    BY <1>0 DEF FsInv, GoInv
  <1>5. GoInv'
    <2>1. \A x \in Goroutines :
          /\ go'[x] # "off" => name'[x] \in Names
          /\ go'[x] = "meta" <=> myBlob'[x] # None
          /\ myBlob'[x] # None => x \in uses'[myBlob'[x]]
      BY <1>0, <1>1, <1>n, <1>2 DEF FsInv, GoInv
    <2>2. \A q \in Requests \ {r} : Neighbor(q) \in Goroutines \ {g}
      BY Pairs, SMTT(60) DEF Neighbor
    <2>3. \A q \in Requests :
            /\ main'[q] = "idle" => go'[Target(q)] = "off" /\ go'[Neighbor(q)] = "off"
            /\ Serving(q)' => go'[Target(q)] = "end"
      BY <1>0, <1>1, <1>i, <2>2 DEF FsInv, GoInv, Serving
    <2> QED BY <2>1, <2>3 DEF GoInv
  <1>6. RegInv'
    BY <1>0, <1>1, <1>l DEF FsInv, RegInv
  <1> QED BY <1>2, <1>4, <1>5, <1>6 DEF FsInv

\* A timer takes a layer or a blob out of its cache.
LEMMA ExpireStep ==
    ASSUME FsInv, NEW n \in Names, Expire(n)
    PROVE  FsInv'
  <1>0. UNCHANGED <<procVars, blobOf, blobs, registered, mounted>>
    BY DEF Expire
  <1>1. PICK lc \in [Names -> Layers \cup {None}], bc \in [Names -> (1 .. blobs) \cup {None}] :
           /\ Settle(lc, bc, holds, uses, blobOf, blobs)
           /\ \A k \in Names : lc[k] \in {None, layerCache[k]}
    <2> DEFINE lc == [layerCache EXCEPT ![n] = None]
               bc == [blobCache EXCEPT ![n] = None]
    <2>1. /\ layerCache \in [Names -> Layers \cup {None}]
          /\ blobCache \in [Names -> (1 .. blobs) \cup {None}]
      BY DEF FsInv, CacheTypes
    <2>2. /\ lc \in [Names -> Layers \cup {None}] /\ bc \in [Names -> (1 .. blobs) \cup {None}]
          /\ \A k \in Names : lc[k] \in {None, layerCache[k]}
      BY <2>1
    <2>3. \/ Settle(lc, blobCache, holds, uses, blobOf, blobs)
          \/ Settle(layerCache, bc, holds, uses, blobOf, blobs)
      BY DEF Expire
    <2> HIDE DEF lc, bc
    <2> QED BY <2>1, <2>2, <2>3
  <1>2. CacheTypes' /\ ClosedInv' /\ layerCache' = lc /\ holds' = holds /\ uses' = uses
    BY <1>0, <1>1, SettleEffect DEF FsInv, CacheTypes
  <1>3. MadeInv' /\ Made' = Made
    BY <1>0, <1>1, <1>2, MadeKept
  <1>4. ProcTypes' /\ GoInv' /\ RegInv'
    BY <1>0, <1>2 DEF FsInv, procVars, ProcTypes, GoInv, RegInv, Serving
  <1>5. HoldInv'
    BY <1>0, <1>2, <1>3, HoldKept DEF procVars, Holding, Serving
  <1> QED BY <1>2, <1>3, <1>4, <1>5 DEF FsInv

\* What a step of Resolve other than Lock does to the goroutines.
LEMMA Resolving ==
    ASSUME FsInv, NEW g \in Goroutines, NEW p \in Gos \ {"off"},
           go[g] \in {"get", "blob", "fetch", "meta"}, Go(g, p),
           UNCHANGED <<target, main, name, registered, mounted>>,
           myBlob' \in [Goroutines -> (1 .. blobs') \cup {None}],
           myLayer' \in [Goroutines -> Layers \cup {None}],
           \A x \in Goroutines \ {g} : myBlob'[x] = myBlob[x] /\ myLayer'[x] = myLayer[x],
           p = "meta" <=> myBlob'[g] # None,
           \A x \in Goroutines : myBlob'[x] # None => x \in uses'[myBlob'[x]]
    PROVE  /\ ProcTypes' /\ GoInv' /\ RegInv'
           /\ ~Holding(g) /\ (Holding(g)' <=> p = "resolved")
           /\ \A x \in Goroutines \ {g} : Holding(x)' <=> Holding(x)
  <1>1. go'[g] = p /\ \A x \in Goroutines \ {g} : go'[x] = go[x] /\ (Holding(x)' <=> Holding(x))
    BY OnlyGo
  <1>2. \A r \in Requests : go[Target(r)] = "end" => Target(r) \in Goroutines \ {g}
    BY Pairs
  <1>3. ~Holding(g)
    BY NotHolding
  <1>4. Holding(g)' <=> p = "resolved"
    BY <1>1, <1>3 DEF Holding, Serving
  <1>5. ProcTypes'
    BY DEF FsInv, ProcTypes, Go
  <1>6. GoInv'
    <2>1. \A x \in Goroutines :
          /\ go'[x] # "off" => name'[x] \in Names
          /\ go'[x] = "meta" <=> myBlob'[x] # None
      BY <1>1 DEF FsInv, GoInv
    <2>2. \A r \in Requests :
            /\ main'[r] = "idle" => go'[Target(r)] = "off" /\ go'[Neighbor(r)] = "off"
            /\ Serving(r)' => go'[Target(r)] = "end"
      BY <1>1, <1>2, Pairs DEF FsInv, GoInv, Serving
    <2> QED BY <2>1, <2>2 DEF GoInv
  <1>7. RegInv'
    <2>1. \A r \in Requests : main[r] \in {"fuse", "mounted"} => go[Target(r)] = "end"
      BY DEF FsInv, GoInv, Serving
    <2> QED BY <1>1, <1>2, <2>1 DEF FsInv, RegInv
  <1> QED BY <1>1, <1>3, <1>4, <1>5, <1>6, <1>7

\* A step of Resolve that gets no layer preserves the invariant.
LEMMA StillResolving ==
    ASSUME FsInv, NEW g \in Goroutines, NEW p \in Gos \ {"off", "resolved"},
           go[g] \in {"get", "blob", "fetch", "meta"}, Go(g, p),
           UNCHANGED <<target, main, name, myLayer, blobOf, registered, mounted>>,
           NEW lc \in [Names -> Layers \cup {None}], NEW nb \in 0 .. MaxBlobs,
           NEW bc \in [Names -> (1 .. nb) \cup {None}], NEW u \in [Blobs -> SUBSET Goroutines],
           Settle(lc, bc, holds, u, blobOf, nb), blobs' = nb,
           \A n \in Names : lc[n] \in {None, layerCache[n]},
           myBlob' \in [Goroutines -> (1 .. nb) \cup {None}],
           \A x \in Goroutines \ {g} : myBlob'[x] = myBlob[x],
           p = "meta" <=> myBlob'[g] # None,
           \A x \in Goroutines : myBlob'[x] # None => x \in u[myBlob'[x]]
    PROVE  FsInv'
  <1>1. /\ holds \in [Layers -> SUBSET Goroutines] /\ blobOf \in [Layers -> Blobs \cup {None}]
        /\ myLayer \in [Goroutines -> Layers \cup {None}]
    BY DEF FsInv, CacheTypes, ProcTypes
  <1>2. CacheTypes' /\ ClosedInv' /\ layerCache' = lc /\ holds' = holds /\ uses' = u
    BY <1>1, SettleEffect
  <1>3. MadeInv' /\ Made' = Made
    BY <1>2, MadeKept
  <1>4. /\ ProcTypes' /\ GoInv' /\ RegInv'
        /\ ~Holding(g) /\ ~Holding(g)'
        /\ \A x \in Goroutines \ {g} : Holding(x)' <=> Holding(x)
    BY <1>1, <1>2, Resolving
  <1>5. HoldInv'
    BY <1>2, <1>3, <1>4, HoldKept
  <1> QED BY <1>2, <1>3, <1>4, <1>5 DEF FsInv

\* Resolve looks into the layer cache.
LEMMA GetLayerStep ==
    ASSUME FsInv, NEW g \in Goroutines, GetLayer(g)
    PROVE  FsInv'
  <1> DEFINE l == layerCache[name[g]]
             h == [holds EXCEPT ![l] = @ \cup {g}]
             lc == Drop(layerCache, l)
  <1>0. /\ go[g] = "get" /\ name[g] \in Names /\ l \in Layers \cup {None} /\ myBlob[g] = None
        /\ UNCHANGED <<target, main, name, myBlob, blobOf, blobs, registered, mounted>>
        /\ l # None => l \in Made
    BY DEF GetLayer, FsInv, GoInv, CacheTypes, MadeInv
  <1>t. /\ myBlob' \in [Goroutines -> (1 .. blobs') \cup {None}]
        /\ "resolved" \in Gos \ {"off"} /\ "blob" \in Gos \ {"off", "resolved"}
        /\ layerCache \in [Names -> Layers \cup {None}] /\ blobCache \in [Names -> (1 .. blobs) \cup {None}]
        /\ holds \in [Layers -> SUBSET Goroutines] /\ uses \in [Blobs -> SUBSET Goroutines]
        /\ blobOf \in [Layers -> Blobs \cup {None}] /\ blobs \in 0 .. MaxBlobs
        /\ myLayer \in [Goroutines -> Layers \cup {None}]
        /\ \A x \in Goroutines : myBlob[x] # None => x \in uses[myBlob[x]]
    BY <1>0 DEF FsInv, ProcTypes, CacheTypes, Gos, GoInv
  <1>1. CASE /\ l # None /\ Go(g, "resolved")
             /\ myLayer' = [myLayer EXCEPT ![g] = l]
             /\ Settle(layerCache, blobCache, h, uses, blobOf, blobs)
    <2>1. h \in [Layers -> SUBSET Goroutines]
      BY <1>t
    <2>2. CacheTypes' /\ ClosedInv' /\ layerCache' = layerCache /\ holds' = h /\ uses' = uses
      <3> HIDE DEF h
      <3> QED BY <1>0, <1>1, <1>t, <2>1, SettleEffect
    <2>3. MadeInv' /\ Made' = Made
      BY <1>0, <2>2, MadeKept
    <2>4. /\ myLayer' \in [Goroutines -> Layers \cup {None}]
          /\ \A x \in Goroutines \ {g} : myLayer'[x] = myLayer[x]
      BY <1>0, <1>1, <1>t
    <2>5. /\ ProcTypes' /\ GoInv' /\ RegInv'
          /\ ~Holding(g) /\ Holding(g)'
          /\ \A x \in Goroutines \ {g} : Holding(x)' <=> Holding(x)
      BY <1>0, <1>t, <1>1, <2>2, <2>4, Resolving
    <2>6. HoldInv'
      BY <1>0, <1>1, <2>2, <2>3, <2>5, Acquired
    <2> QED BY <2>2, <2>3, <2>5, <2>6 DEF FsInv
  <1>2. CASE /\ Go(g, "blob") /\ Settle(lc, blobCache, holds, uses, blobOf, blobs)
             /\ UNCHANGED myLayer
    <2>1. lc \in [Names -> Layers \cup {None}] /\ \A n \in Names : lc[n] \in {None, layerCache[n]}
      BY <1>t DEF Drop
    <2>2. myBlob' \in [Goroutines -> (1 .. blobs) \cup {None}] /\ myBlob'[g] = None
      BY <1>0, <1>t
    <2>3. /\ go[g] \in {"get", "blob", "fetch", "meta"} /\ ("blob" = "meta" <=> myBlob'[g] # None)
          /\ \A x \in Goroutines : myBlob'[x] = myBlob[x]
          /\ \A x \in Goroutines : myBlob'[x] # None => x \in uses[myBlob'[x]]
          /\ UNCHANGED <<target, main, name, myLayer, blobOf, blobs, registered, mounted>>
      BY <1>0, <1>2, <1>t, <2>2
    <2>4. /\ blobs \in 0 .. MaxBlobs /\ blobCache \in [Names -> (1 .. blobs) \cup {None}]
          /\ uses \in [Blobs -> SUBSET Goroutines] /\ "blob" \in Gos \ {"off", "resolved"}
      BY <1>t
    <2> HIDE DEF lc
    <2> QED BY <1>2, <2>1, <2>2, <2>3, <2>4, StillResolving, SMTT(60)
  <1> QED BY <1>1, <1>2 DEF GetLayer


\* resolveBlob looks into the blob cache.
LEMMA GetBlobStep ==
    ASSUME FsInv, NEW g \in Goroutines, GetBlob(g)
    PROVE  FsInv'
  <1> DEFINE b == blobCache[name[g]]
             u == [uses EXCEPT ![b] = @ \cup {g}]
             bc == Drop(blobCache, b)
  <1>t. /\ layerCache \in [Names -> Layers \cup {None}] /\ blobCache \in [Names -> (1 .. blobs) \cup {None}]
        /\ uses \in [Blobs -> SUBSET Goroutines] /\ blobs \in 0 .. MaxBlobs
        /\ myBlob \in [Goroutines -> (1 .. blobs) \cup {None}]
        /\ \A x \in Goroutines : myBlob[x] # None => x \in uses[myBlob[x]]
        /\ "meta" \in Gos \ {"off", "resolved"} /\ "fetch" \in Gos \ {"off", "resolved"}
    BY DEF FsInv, ProcTypes, CacheTypes, Gos, GoInv
  <1>0. /\ go[g] = "blob" /\ name[g] \in Names /\ b \in (1 .. blobs) \cup {None} /\ myBlob[g] = None
        /\ UNCHANGED <<target, main, name, myLayer, blobOf, blobs, registered, mounted>>
    BY <1>t DEF GetBlob, FsInv, GoInv
  <1>s. 1 .. blobs \subseteq Blobs
    BY <1>t, FilesystemAssumption, SMTT(60) DEF Blobs
  <1>1. CASE /\ b # None /\ Go(g, "meta") /\ myBlob' = [myBlob EXCEPT ![g] = b]
             /\ Settle(layerCache, blobCache, holds, u, blobOf, blobs)
    <2>1. /\ u \in [Blobs -> SUBSET Goroutines]
          /\ myBlob' \in [Goroutines -> (1 .. blobs) \cup {None}] /\ myBlob'[g] = b
          /\ \A x \in Goroutines \ {g} : myBlob'[x] = myBlob[x]
      BY <1>0, <1>1, <1>t
    <2>2. ASSUME NEW x \in Goroutines, myBlob'[x] # None PROVE x \in u[myBlob'[x]]
      <3>1. myBlob'[x] \in Blobs  BY <1>s, <2>1, <2>2
      <3>2. u[myBlob'[x]] = IF myBlob'[x] = b THEN uses[b] \cup {g} ELSE uses[myBlob'[x]]
        BY <1>t, <3>1
      <3> HIDE DEF u
      <3>3. CASE x = g  BY <2>1, <3>2, <3>3
      <3>4. CASE x # g  BY <1>t, <2>1, <2>2, <3>2, <3>4
      <3> QED BY <3>3, <3>4
    <2> HIDE DEF u
    <2> QED BY <1>0, <1>1, <1>t, <2>1, <2>2, StillResolving
  <1>2. CASE /\ Go(g, "fetch") /\ Settle(layerCache, bc, holds, uses, blobOf, blobs)
             /\ UNCHANGED myBlob
    <2>1. bc \in [Names -> (1 .. blobs) \cup {None}]
      BY <1>t DEF Drop
    <2> HIDE DEF bc
    <2> QED BY <1>0, <1>2, <1>t, <2>1, StillResolving
  <1> QED BY <1>1, <1>2 DEF GetBlob

\* A new blob has a reference of the goroutine that made it, and no other.
LEMMA AddBlobStep ==
    ASSUME FsInv, NEW g \in Goroutines, AddBlob(g)
    PROVE  FsInv'
  <1> DEFINE b == blobs + 1
             bc == [blobCache EXCEPT ![name[g]] = b]
             u == [uses EXCEPT ![b] = {g}]
  <1>t. /\ layerCache \in [Names -> Layers \cup {None}] /\ blobCache \in [Names -> (1 .. blobs) \cup {None}]
        /\ uses \in [Blobs -> SUBSET Goroutines] /\ blobs \in 0 .. MaxBlobs
        /\ myBlob \in [Goroutines -> (1 .. blobs) \cup {None}]
        /\ \A x \in Goroutines : myBlob[x] # None => x \in uses[myBlob[x]]
        /\ "meta" \in Gos \ {"off", "resolved"}
    BY DEF FsInv, ProcTypes, CacheTypes, Gos, GoInv
  <1>0. /\ go[g] = "fetch" /\ Go(g, "meta") /\ b <= MaxBlobs /\ blobs' = b
        /\ myBlob' = [myBlob EXCEPT ![g] = b]
        /\ Settle(layerCache, bc, holds, u, blobOf, b)
        /\ UNCHANGED <<target, main, name, myLayer, blobOf, registered, mounted>>
    BY DEF AddBlob
  <1>1. /\ b \in 0 .. MaxBlobs /\ b \in Blobs /\ b \in 1 .. b /\ b \notin 1 .. blobs
        /\ 1 .. blobs \subseteq 1 .. b /\ 1 .. blobs \subseteq Blobs /\ b # None
    BY <1>0, <1>t, FilesystemAssumption, SMTT(60) DEF Blobs
  <1> HIDE DEF b
  <1>2. /\ bc \in [Names -> (1 .. b) \cup {None}] /\ u \in [Blobs -> SUBSET Goroutines]
        /\ myBlob' \in [Goroutines -> (1 .. b) \cup {None}] /\ myBlob'[g] = b
        /\ \A x \in Goroutines \ {g} : myBlob'[x] = myBlob[x]
    BY <1>0, <1>1, <1>t
  <1>3. ASSUME NEW x \in Goroutines, myBlob'[x] # None PROVE x \in u[myBlob'[x]]
    <2>1. CASE x = g  BY <1>1, <1>2, <1>t, <2>1
    <2>2. CASE x # g
      <3>1. myBlob'[x] = myBlob[x] /\ myBlob[x] \in 1 .. blobs  BY <1>2, <1>3, <1>t, <2>2
      <3>2. u[myBlob[x]] = uses[myBlob[x]]  BY <1>1, <1>t, <3>1
      <3> QED BY <1>3, <1>t, <3>1, <3>2
    <2> QED BY <2>1, <2>2
  <1> HIDE DEF bc, u
  <1> QED BY <1>0, <1>1, <1>2, <1>3, <1>t, StillResolving

\* A failure gives the blob up.
LEMMA ResolveFailsStep ==
    ASSUME FsInv, NEW g \in Goroutines, ResolveFails(g)
    PROVE  FsInv'
  <1> DEFINE b == myBlob[g]
             bc == IF b = None THEN blobCache ELSE Drop(blobCache, b)
             u == [c \in Blobs |-> uses[c] \ {g}]
  <1>t. /\ layerCache \in [Names -> Layers \cup {None}] /\ blobCache \in [Names -> (1 .. blobs) \cup {None}]
        /\ uses \in [Blobs -> SUBSET Goroutines] /\ blobs \in 0 .. MaxBlobs
        /\ myBlob \in [Goroutines -> (1 .. blobs) \cup {None}]
        /\ \A x \in Goroutines : myBlob[x] # None => x \in uses[myBlob[x]]
        /\ "failed" \in Gos \ {"off", "resolved"}
    BY DEF FsInv, ProcTypes, CacheTypes, Gos, GoInv
  <1>0. /\ go[g] \in {"fetch", "meta"} /\ Go(g, "failed")
        /\ myBlob' = [myBlob EXCEPT ![g] = None]
        /\ Settle(layerCache, bc, holds, u, blobOf, blobs)
        /\ UNCHANGED <<target, main, name, myLayer, blobOf, blobs, registered, mounted>>
    BY DEF ResolveFails
  <1>1. 1 .. blobs \subseteq Blobs
    BY <1>t, FilesystemAssumption, SMTT(60) DEF Blobs
  <1>2. /\ bc \in [Names -> (1 .. blobs) \cup {None}] /\ u \in [Blobs -> SUBSET Goroutines]
        /\ myBlob' \in [Goroutines -> (1 .. blobs) \cup {None}] /\ myBlob'[g] = None
        /\ \A x \in Goroutines \ {g} : myBlob'[x] = myBlob[x]
    BY <1>0, <1>t DEF Drop
  <1>3. ASSUME NEW x \in Goroutines, myBlob'[x] # None PROVE x \in u[myBlob'[x]]
    <2>1. x # g /\ myBlob'[x] = myBlob[x]  BY <1>2, <1>3
    <2>2. myBlob[x] \in Blobs  BY <1>1, <1>3, <1>t, <2>1
    <2> QED BY <1>3, <1>t, <2>1, <2>2
  <1>4. go[g] \in {"get", "blob", "fetch", "meta"} /\ ("failed" = "meta" <=> myBlob'[g] # None)
    BY <1>0, <1>2
  <1> HIDE DEF b, bc, u
  <1> QED BY <1>0, <1>2, <1>3, <1>4, <1>t, StillResolving

\* A new layer is one that nobody holds or caches yet; it keeps its blob open when the
\* goroutine gives its own reference up.
LEMMA AddLayerStep ==
    ASSUME FsInv, NEW g \in Goroutines, AddLayer(g)
    PROVE  FsInv'
  <1> DEFINE l == Cardinality(Made) + 1
             b == myBlob[g]
             made == [blobOf EXCEPT ![l] = b]
             lc == [layerCache EXCEPT ![name[g]] = l]
             h == [holds EXCEPT ![l] = {g}]
             u == [uses EXCEPT ![b] = @ \ {g}]
  <1>t. /\ layerCache \in [Names -> Layers \cup {None}] /\ blobCache \in [Names -> (1 .. blobs) \cup {None}]
        /\ holds \in [Layers -> SUBSET Goroutines] /\ blobOf \in [Layers -> Blobs \cup {None}]
        /\ uses \in [Blobs -> SUBSET Goroutines] /\ blobs \in 0 .. MaxBlobs
        /\ myBlob \in [Goroutines -> (1 .. blobs) \cup {None}]
        /\ myLayer \in [Goroutines -> Layers \cup {None}]
        /\ \A x \in Goroutines : myBlob[x] # None => x \in uses[myBlob[x]]
        /\ "resolved" \in Gos \ {"off"}
    BY DEF FsInv, ProcTypes, CacheTypes, Gos, GoInv
  <1>0. /\ go[g] = "meta" /\ l <= MaxLayers /\ Go(g, "resolved") /\ b # None /\ name[g] \in Names
        /\ blobOf' = made /\ myLayer' = [myLayer EXCEPT ![g] = l]
        /\ myBlob' = [myBlob EXCEPT ![g] = None]
        /\ Settle(lc, blobCache, h, u, made, blobs)
        /\ UNCHANGED <<target, main, name, blobs, registered, mounted>>
    BY DEF AddLayer, FsInv, GoInv
  <1>1. b \in Blobs
    BY <1>0, <1>t, FilesystemAssumption, SMTT(60) DEF Blobs
  <1>2. PICK n \in 0 .. MaxLayers : Made = 1 .. n
    BY DEF FsInv, MadeInv
  <1>3. Cardinality(Made) = n
    BY <1>2, FilesystemAssumption, FS_Interval, SMTT(60)
  <1>4. l \in Layers /\ l \notin Made /\ l \in 0 .. MaxLayers /\ 1 .. l = (1 .. n) \cup {l}
    BY <1>0, <1>2, <1>3, FilesystemAssumption, SMTT(60) DEF Layers
  <1> HIDE DEF l
  <1>5. Made' = Made \cup {l}
    BY <1>0, <1>4, <1>t DEF Made
  <1>6. holds[l] = {}
    <2>1. holds[l] = {x \in Goroutines : Holding(x) /\ myLayer[x] = l}
      BY <1>4 DEF FsInv, HoldInv
    <2>2. \A x \in Goroutines : ~(Holding(x) /\ myLayer[x] = l)
      BY <1>4 DEF FsInv, HoldInv
    <2> QED BY <2>1, <2>2
  <1>7. h = [holds EXCEPT ![l] = @ \cup {g}]
    BY <1>6, <1>t, <1>4
  <1>8. /\ lc \in [Names -> Layers \cup {None}] /\ h \in [Layers -> SUBSET Goroutines]
        /\ u \in [Blobs -> SUBSET Goroutines] /\ made \in [Layers -> Blobs \cup {None}]
        /\ myBlob' \in [Goroutines -> (1 .. blobs) \cup {None}] /\ myBlob'[g] = None
        /\ myLayer' \in [Goroutines -> Layers \cup {None}]
        /\ \A x \in Goroutines \ {g} : myBlob'[x] = myBlob[x] /\ myLayer'[x] = myLayer[x]
    BY <1>0, <1>1, <1>4, <1>t
  <1>9. CacheTypes' /\ ClosedInv' /\ layerCache' = lc /\ holds' = h /\ uses' = u
    <2> HIDE DEF lc, h, u, made
    <2> QED BY <1>0, <1>8, <1>t, SettleEffect
  <1>10. MadeInv'
    <2>1. Made' = 1 .. l  BY <1>2, <1>4, <1>5
    <2>2. \A k \in Names : lc[k] # None => lc[k] \in Made'
      BY <1>t, <1>5 DEF FsInv, MadeInv
    <2> QED BY <1>4, <1>9, <2>1, <2>2 DEF MadeInv
  <1>11. ASSUME NEW x \in Goroutines, myBlob'[x] # None PROVE x \in uses'[myBlob'[x]]
    <2>1. x # g /\ myBlob'[x] = myBlob[x]  BY <1>8, <1>11
    <2>2. myBlob[x] \in Blobs
      BY <1>11, <1>t, <2>1, FilesystemAssumption, SMTT(60) DEF Blobs
    <2> QED BY <1>9, <1>11, <1>t, <2>1, <2>2
  <1>12. /\ ProcTypes' /\ GoInv' /\ RegInv'
         /\ ~Holding(g) /\ Holding(g)'
         /\ \A x \in Goroutines \ {g} : Holding(x)' <=> Holding(x)
    BY <1>0, <1>8, <1>11, <1>t, Resolving
  <1>13. HoldInv'
    BY <1>0, <1>4, <1>5, <1>7, <1>9, <1>12, Acquired
  <1> QED BY <1>9, <1>10, <1>12, <1>13 DEF FsInv

\* Every step preserves the invariant.
LEMMA FsStep ==
    ASSUME FsInv, [FsNext]_fsVars
    PROVE  FsInv'
  <1>1. CASE UNCHANGED fsVars
    <2> USE <1>1 DEF fsVars, procVars
    <2>1. CacheTypes' /\ MadeInv' /\ ClosedInv' /\ Made' = Made
      BY Control
    <2>2. ProcTypes' /\ GoInv' /\ RegInv'
      BY DEF FsInv, resolverVars, ProcTypes, GoInv, RegInv, Serving
    <2>3. HoldInv'
      BY <2>1, HoldKept DEF resolverVars, Holding, Serving
    <2> QED BY <2>1, <2>2, <2>3 DEF FsInv
  <1>2. ASSUME NEW g \in Goroutines, Lock(g) \/ GetLayer(g) \/ GetBlob(g) \/ AddBlob(g)
                                     \/ ResolveFails(g) \/ AddLayer(g)
        PROVE  FsInv'
    BY <1>2, LockStep, GetLayerStep, GetBlobStep, AddBlobStep, ResolveFailsStep, AddLayerStep
  <1>3. ASSUME NEW n \in Names, Expire(n)  PROVE FsInv'
    BY <1>3, ExpireStep
  <1>4. ASSUME NEW r \in Requests,
               \/ Mount(r) \/ NeighborDone(r) \/ Receive(r) \/ Timeout(r) \/ VerifyFails(r)
               \/ Register(r) \/ Serve(r) \/ FuseFails(r) \/ Unmount(r) \/ UnmountKernel(r)
        PROVE  FsInv'
    BY <1>4, MountStep, NeighborStep, ReceiveStep, MainStep, GiveUp
  <1> QED BY <1>1, <1>2, <1>3, <1>4 DEF FsNext

\* The invariant holds in every reachable state.
THEOREM FsInductive == FsSpec => []FsInv
  <1>1. FsInv /\ [FsNext]_fsVars => FsInv'  BY FsStep
  <1> QED BY <1>1, FsInitInv, PTL DEF FsSpec

\* fs.Mount, fs.Unmount and the resolver: the layer and the blob that the kernel serves
\* at a mountpoint are open until its Unmount, and no open layer or goroutine has a
\* closed blob, whatever timers, failures, timeouts and other mounts do.
THEOREM MountedStaysOpen == FsSpec => []MountedIsOpen
  <1>1. FsInv => MountedIsOpen  BY InvImplies
  <1> QED BY <1>1, FsInductive, PTL

\* Release and OnEvicted: a layer that is still open is cached, mounted, or in the hands
\* of a goroutine or of Mount.
THEOREM NoLayerLeaks == FsSpec => []LayersDoNotLeak
  <1>1. FsInv => LayersDoNotLeak  BY InvImplies
  <1> QED BY <1>1, FsInductive, PTL
=============================================================================
