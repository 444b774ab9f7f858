------------------------ MODULE SessionCache_proofs ------------------------
(***************************************************************************)
(* For every number of threads, sessions and ids and every limit: reference *)
(* counts are exact, so that no session is freed while a thread or the      *)
(* cache has it and none is leaked, list and table hold the same sessions,  *)
(* and eviction gets the cache down to its limit, as long as no ticket of a *)
(* resumed session is renewed.                                              *)
(***************************************************************************)
EXTENDS SessionCache, FiniteSetTheorems, FunctionTheorems, WellFoundedInduction, TLAPS

(* How many of the variables in h point to o.                              *)
Holders(h, o) == {k \in Keys : h[k] = o}
Count(h, o) == Cardinality(Holders(h, o))
Hold == [Keys -> Sessions \cup {Null}]
Objects == [Sessions -> [refs : Nat, id : Ids \cup {NoId}, expired : BOOLEAN,
                         notResumable : BOOLEAN]]

LEMMA KeysFinite ==
  ASSUME NEW h, NEW o
  PROVE  IsFiniteSet(Holders(h, o)) /\ Count(h, o) \in Nat
<1>1. IsFiniteSet(Slots)
  <2>1. Slots = (((({} \cup {"session"}) \cup {"sess"}) \cup {"add"}) \cup {"r"}) \cup {"saved"}
    BY DEF Slots
  <2>2. IsFiniteSet({})
    BY FS_EmptySet
  <2>3. IsFiniteSet({} \cup {"session"})
    BY <2>2, FS_AddElement
  <2>4. IsFiniteSet(({} \cup {"session"}) \cup {"sess"})
    BY <2>3, FS_AddElement
  <2>5. IsFiniteSet((({} \cup {"session"}) \cup {"sess"}) \cup {"add"})
    BY <2>4, FS_AddElement
  <2>6. IsFiniteSet(((({} \cup {"session"}) \cup {"sess"}) \cup {"add"}) \cup {"r"})
    BY <2>5, FS_AddElement
  <2> QED
    BY <2>1, <2>6, FS_AddElement
<1>2. IsFiniteSet(Keys)
  BY <1>1, FS_Product, SessionCacheAssumption DEF Keys
<1>3. Holders(h, o) \in SUBSET Keys
  BY DEF Holders
<1> QED
  BY <1>2, <1>3, FS_Subset, FS_CardinalityType DEF Count

(* Pointing variable k to v instead changes the count of what it pointed   *)
(* to and of v, by one, and of nothing else.                               *)
LEMMA CountUpdate ==
  ASSUME NEW h \in Hold, NEW k \in Keys, NEW v \in Sessions \cup {Null}, NEW o \in Sessions
  PROVE  Count([h EXCEPT ![k] = v], o) =
           (IF h[k] = o THEN Count(h, o) - 1 ELSE Count(h, o)) + (IF v = o THEN 1 ELSE 0)
<1> DEFINE g == [h EXCEPT ![k] = v]
<1>1. g \in Hold /\ \A j \in Keys : g[j] = IF j = k THEN v ELSE h[j]
  BY DEF Hold
<1> DEFINE rest == Holders(h, o) \ {k}
<1>2. IsFiniteSet(rest) /\ Cardinality(rest) = IF h[k] = o THEN Count(h, o) - 1 ELSE Count(h, o)
  <2>1. IsFiniteSet(Holders(h, o))
    BY KeysFinite
  <2>2. k \in Holders(h, o) <=> h[k] = o
    BY DEF Holders
  <2> QED
    BY <2>1, <2>2, FS_RemoveElement DEF Count
<1>a. k \notin rest /\ Cardinality(rest) \in Nat
  BY <1>2, FS_CardinalityType
<1>3. CASE v = o
  <2>1. Holders(g, o) = rest \cup {k}
    BY <1>1, <1>3 DEF Holders
  <2>2. Cardinality(rest \cup {k}) = Cardinality(rest) + 1
    BY <1>2, <1>a, FS_AddElement
  <2>3. Count(g, o) = Cardinality(rest) + 1
    BY <2>1, <2>2 DEF Count
  <2> QED
    BY <2>3, <1>2, <1>3
<1>4. CASE v # o
  <2>1. Holders(g, o) = rest
    BY <1>1, <1>4 DEF Holders
  <2>2. Count(g, o) = Cardinality(rest)
    BY <2>1 DEF Count
  <2> QED
    BY <2>2, <1>2, <1>a, <1>4
<1> QED
  BY <1>3, <1>4

(* The counts after variable k of h, which pointed to u, points to v.      *)
Moved(h, g, u, v) ==
  /\ g \in Hold
  /\ \A o \in Sessions : Count(h, o) \in Nat /\ Count(g, o) \in Nat
  /\ \A o \in Sessions : u = o /\ v # o => Count(g, o) = Count(h, o) - 1
  /\ \A o \in Sessions : u # o /\ v = o => Count(g, o) = Count(h, o) + 1
  /\ \A o \in Sessions : u # o /\ v # o => Count(g, o) = Count(h, o)

LEMMA CountMoved ==
  ASSUME NEW h \in Hold, NEW k \in Keys, NEW v \in Sessions \cup {Null}
  PROVE  Moved(h, [h EXCEPT ![k] = v], h[k], v)
<1> DEFINE g == [h EXCEPT ![k] = v]
<1>1. g \in Hold
  BY DEF Hold
<1>2. ASSUME NEW o \in Sessions
      PROVE  /\ Count(h, o) \in Nat /\ Count(g, o) \in Nat
             /\ h[k] = o /\ v # o => Count(g, o) = Count(h, o) - 1
             /\ h[k] # o /\ v = o => Count(g, o) = Count(h, o) + 1
             /\ h[k] # o /\ v # o => Count(g, o) = Count(h, o)
  <2>1. Count(h, o) \in Nat /\ Count(g, o) \in Nat
    BY KeysFinite
  <2>2. Count(g, o) = (IF h[k] = o THEN Count(h, o) - 1 ELSE Count(h, o)) + (IF v = o THEN 1 ELSE 0)
    BY CountUpdate
  <2> QED
    BY <2>1, <2>2
<1> QED
  BY <1>1, <1>2 DEF Moved

LEMMA CountPositive ==
  ASSUME NEW h \in Hold, NEW k \in Keys, NEW o \in Sessions, h[k] = o
  PROVE  Count(h, o) >= 1
<1>1. k \in Holders(h, o) /\ IsFiniteSet(Holders(h, o)) /\ Count(h, o) \in Nat
  BY KeysFinite DEF Holders
<1>2. Cardinality(Holders(h, o)) # 0
  BY <1>1, FS_EmptySet
<1> QED
  BY <1>1, <1>2 DEF Count

------------------------------------------------------------------------------
(* The invariant of the reference counts.                                  *)

Share(o) == IF o \in Cached THEN 1 ELSE 0

Core ==
  /\ obj \in Objects /\ table \subseteq Nodes /\ hold \in Hold
  /\ \A n \in table : obj[n.obj].id = n.key
  /\ \A n, m \in table : n.key = m.key => n = m
  /\ \A o \in Sessions : obj[o].refs = Count(hold, o) + Share(o)

(* The id of a session that somebody keeps stays what it is.               *)
Kept == \A o \in Sessions : obj[o].refs > 0 /\ obj'[o].refs > 0 => obj'[o].id = obj[o].id

LEMMA LessIs ==
  ASSUME NEW os \in Objects, NEW o \in Sessions, os[o].refs >= 1
  PROVE  /\ Less(os, o) \in Objects
         /\ \A p \in Sessions : Less(os, o)[p].refs = IF p = o THEN os[p].refs - 1 ELSE os[p].refs
         /\ \A p \in Sessions : Less(os, o)[p].refs > 0 => Less(os, o)[p].id = os[p].id
<1>1. os[o] \in [refs : Nat, id : Ids \cup {NoId}, expired : BOOLEAN, notResumable : BOOLEAN]
  BY DEF Objects
<1>2. Free \in [refs : Nat, id : Ids \cup {NoId}, expired : BOOLEAN, notResumable : BOOLEAN]
  BY DEF Free
<1>3. CASE os[o].refs = 1
  <2>1. Less(os, o) = [os EXCEPT ![o] = Free]
    BY <1>3 DEF Less, Objects
  <2> QED
    BY <1>1, <1>2, <1>3, <2>1 DEF Objects, Free
<1>4. CASE os[o].refs # 1
  <2>1. Less(os, o) = [os EXCEPT ![o] = [os[o] EXCEPT !.refs = os[o].refs - 1]]
    BY <1>4 DEF Less, Objects
  <2>2. /\ [os[o] EXCEPT !.refs = os[o].refs - 1] \in
             [refs : Nat, id : Ids \cup {NoId}, expired : BOOLEAN, notResumable : BOOLEAN]
        /\ [os[o] EXCEPT !.refs = os[o].refs - 1].refs = os[o].refs - 1
        /\ [os[o] EXCEPT !.refs = os[o].refs - 1].id = os[o].id
    BY <1>1, <1>4
  <2> QED
    BY <2>1, <2>2 DEF Objects
<1> QED
  BY <1>3, <1>4

(* What the table says of a session that is cached.                        *)
LEMMA TableOf ==
  ASSUME Core, NEW n \in table
  PROVE  /\ n.obj \in Sessions /\ n.obj \in Cached /\ n.key \in Ids
         /\ n = [key |-> n.key, obj |-> n.obj]
         /\ obj[n.obj].refs >= 1 /\ obj[n.obj].id = n.key
         /\ Find(obj[n.obj].id) = {n}
         /\ \A m \in table : m.obj = n.obj => m = n
<1>1. n \in Nodes /\ n.obj \in Sessions /\ n.key \in Ids /\ n = [key |-> n.key, obj |-> n.obj]
  BY DEF Core, Nodes
<1>2. n.obj \in Cached /\ obj[n.obj].id = n.key
  BY DEF Cached, Core
<1>3. obj[n.obj].refs >= 1
  BY <1>1, <1>2, KeysFinite DEF Core, Share
<1>4. \A m \in table : m.obj = n.obj => m = n
  BY DEF Core
<1>5. Find(obj[n.obj].id) = {n}
  BY <1>2 DEF Find, Core
<1> QED
  BY <1>1, <1>2, <1>3, <1>4, <1>5

(* A variable gets a reference.                                            *)
LEMMA TakeCore ==
  ASSUME Core, NEW k \in Keys, NEW o \in Sessions, hold[k] = Null, Take(k, o), table' = table
  PROVE  Core' /\ Kept
<1>1. obj' \in Objects /\ hold' \in Hold
  BY DEF Core, Take, Objects, Hold
<1>2. \A p \in Sessions : /\ obj'[p].refs = IF p = o THEN obj[p].refs + 1 ELSE obj[p].refs
                          /\ obj'[p].id = obj[p].id
  BY DEF Core, Take, Objects
<1>3. \A p \in Sessions : Count(hold', p) = Count(hold, p) + (IF p = o THEN 1 ELSE 0)
  <2>1. hold \in Hold /\ o \in Sessions \cup {Null} /\ hold' = [hold EXCEPT ![k] = o]
    BY DEF Core, Take
  <2>2. \A p \in Sessions : hold[k] # p
    BY SessionCacheAssumption
  <2>3. \A p \in Sessions : Count([hold EXCEPT ![k] = o], p) =
           (IF hold[k] = p THEN Count(hold, p) - 1 ELSE Count(hold, p)) + (IF o = p THEN 1 ELSE 0)
    BY <2>1, CountUpdate
  <2> QED
    BY <2>1, <2>2, <2>3
<1>4. \A p \in Sessions : Share(p)' = Share(p)
  BY DEF Share, Cached
<1>5. \A n \in table : n.obj \in Sessions
  BY DEF Core, Nodes
<1>6. \A p \in Sessions : obj[p].refs = Count(hold, p) + Share(p) /\ Count(hold, p) \in Nat
  BY KeysFinite DEF Core
<1>7. \A p \in Sessions : obj'[p].refs = Count(hold', p) + Share(p)'
  BY <1>2, <1>3, <1>4, <1>6 DEF Share
<1>8. Kept
  BY <1>2 DEF Kept
<1> QED
  BY <1>1, <1>2, <1>5, <1>7, <1>8 DEF Core

(* A variable gives its reference back.                                    *)
LEMMA FreeCore ==
  ASSUME Core, NEW k \in Keys, NEW o \in Sessions, hold[k] = o, table' = table,
         hold' = [hold EXCEPT ![k] = Null],
         NEW os \in Objects, \A p \in Sessions : os[p].refs = obj[p].refs /\ os[p].id = obj[p].id,
         obj' = Less(os, o)
  PROVE  Core' /\ Kept
<1>1. hold \in Hold /\ hold' \in Hold /\ Null \in Sessions \cup {Null}
  BY DEF Core, Hold
<1>2. os[o].refs >= 1
  BY <1>1, CountPositive, KeysFinite DEF Core, Share
<1>3. /\ obj' \in Objects
      /\ \A p \in Sessions : obj'[p].refs = IF p = o THEN obj[p].refs - 1 ELSE obj[p].refs
      /\ \A p \in Sessions : obj'[p].refs > 0 => obj'[p].id = obj[p].id
  BY <1>2, LessIs
<1>4. /\ Count(hold', o) = Count(hold, o) - 1
      /\ \A p \in Sessions \ {o} : Count(hold', p) = Count(hold, p)
      /\ \A p \in Sessions : Count(hold, p) \in Nat /\ Count(hold', p) \in Nat
  <2>1. \A p \in Sessions : Null # p
    BY SessionCacheAssumption
  <2>2. Moved(hold, hold', o, Null)
    BY <1>1, CountMoved
  <2> QED
    BY <2>1, <2>2 DEF Moved
<1>5. ASSUME NEW p \in Sessions
      PROVE  obj'[p].refs = Count(hold', p) + Share(p)' /\ Share(p)' = Share(p)
  <2>1. Share(p)' = Share(p) /\ Share(p) \in Nat
    BY DEF Share, Cached
  <2>2. obj[p].refs = Count(hold, p) + Share(p)
    BY DEF Core
  <2>3. CASE p = o
    <3>1. obj'[p].refs = obj[p].refs - 1
      BY <1>3, <2>3
    <3>2. Count(hold', p) = Count(hold, p) - 1 /\ Count(hold, p) \in Nat
      BY <1>4, <2>3
    <3> QED
      BY <3>1, <3>2, <2>1, <2>2
  <2>4. CASE p # o
    BY <2>1, <2>2, <2>4, <1>3, <1>4
  <2> QED
    BY <2>3, <2>4
<1>6. ASSUME NEW n \in table
      PROVE  obj'[n.obj].id = n.key
  <2>1. n.obj \in Sessions /\ Share(n.obj) = 1 /\ obj[n.obj].id = n.key
    BY DEF Core, Nodes, Share, Cached
  <2>2. Count(hold', n.obj) \in Nat /\ obj'[n.obj].refs = Count(hold', n.obj) + 1
    BY <2>1, <1>4, <1>5
  <2>3. obj'[n.obj].refs > 0
    BY <2>2
  <2> QED
    BY <2>1, <2>3, <1>3
<1>7. Kept
  BY <1>3 DEF Kept
<1> QED
  BY <1>1, <1>3, <1>5, <1>6, <1>7 DEF Core

(* Neither references nor ids change.                                      *)
LEMMA SameCore ==
  ASSUME Core, obj' \in Objects, table' = table, hold' = hold,
         \A p \in Sessions : obj'[p].refs = obj[p].refs /\ obj'[p].id = obj[p].id
  PROVE  Core' /\ Kept
<1>1. \A p \in Sessions : Share(p)' = Share(p)
  BY DEF Share, Cached
<1>2. \A n \in table : n.obj \in Sessions
  BY DEF Core, Nodes
<1>3. Kept
  BY DEF Kept
<1> QED
  BY <1>1, <1>2, <1>3 DEF Core

(* A variable gets a new session.                                          *)
LEMMA NewCore ==
  ASSUME Core, NEW k \in Keys, NEW o \in Sessions, NEW i \in Ids \cup {NoId}, hold[k] = Null,
         SSL_SESSION_new(k, o, i), table' = table
  PROVE  Core' /\ Kept
<1>1. obj' = [obj EXCEPT ![o] = Born(i)] /\ hold' = [hold EXCEPT ![k] = o] /\ obj[o].refs = 0
  BY DEF SSL_SESSION_new, Unused
<1>2. Born(i) \in [refs : Nat, id : Ids \cup {NoId}, expired : BOOLEAN, notResumable : BOOLEAN]
  BY DEF Born
<1>3. /\ obj' \in Objects /\ obj'[o].refs = 1
      /\ \A p \in Sessions \ {o} : obj'[p] = obj[p]
  BY <1>1, <1>2 DEF Core, Objects, Born
<1>4. hold \in Hold /\ o \in Sessions \cup {Null}
  BY DEF Core
<1>5. Moved(hold, hold', Null, o)
  BY <1>1, <1>4, CountMoved
<1>6. obj[o].refs = Count(hold, o) + Share(o) /\ Count(hold, o) \in Nat
  BY <1>4, KeysFinite DEF Core
<1>7. Count(hold, o) = 0 /\ Share(o) = 0
  BY <1>1, <1>6 DEF Share
<1>8. \A p \in Sessions : Null # p
  BY SessionCacheAssumption
<1>9. \A p \in Sessions : Share(p)' = Share(p)
  BY DEF Share, Cached
<1>10. ASSUME NEW p \in Sessions
       PROVE  obj'[p].refs = Count(hold', p) + Share(p)'
  <2>1. CASE p = o
    <3>1. Count(hold', o) = Count(hold, o) + 1
      BY <1>5, <1>8 DEF Moved
    <3> QED
      BY <3>1, <2>1, <1>3, <1>7, <1>9
  <2>2. CASE p # o
    <3>1. Count(hold', p) = Count(hold, p)
      BY <1>5, <1>8, <2>2 DEF Moved
    <3> QED
      BY <3>1, <2>2, <1>3, <1>9 DEF Core
  <2> QED
    BY <2>1, <2>2
<1>11. \A n \in table : n.obj \in Sessions /\ n.obj # o
  BY <1>7 DEF Core, Nodes, Share, Cached
<1>12. Kept
  BY <1>1, <1>3 DEF Kept
<1>13. hold' \in Hold
  BY <1>5 DEF Moved
<1> QED
  BY <1>3, <1>10, <1>11, <1>12, <1>13 DEF Core

(* A reference moves from variable a to variable b.                        *)
LEMMA MoveCore ==
  ASSUME Core, NEW a \in Keys, NEW b \in Keys, a # b, NEW o \in Sessions,
         hold[a] = o, hold[b] = Null, hold' = [hold EXCEPT ![a] = Null, ![b] = o],
         obj' = obj, table' = table
  PROVE  Core' /\ Kept
<1> DEFINE h == [hold EXCEPT ![a] = Null]
<1>1. hold \in Hold /\ Null \in Sessions \cup {Null} /\ o \in Sessions \cup {Null}
  BY DEF Core
<1>2. Moved(hold, h, o, Null) /\ h \in Hold
  <2>1. Moved(hold, [hold EXCEPT ![a] = Null], hold[a], Null)
    BY <1>1, CountMoved
  <2> QED
    BY <2>1 DEF Moved
<1>3. hold' = [h EXCEPT ![b] = o] /\ h[b] = Null
  BY <1>1 DEF Hold
<1> HIDE DEF h
<1>4. Moved(h, hold', Null, o)
  <2>1. Moved(h, [h EXCEPT ![b] = o], h[b], o)
    BY <1>1, <1>2, CountMoved
  <2> QED
    BY <2>1, <1>3
<1>5. \A p \in Sessions : Null # p
  BY SessionCacheAssumption
<1>6. ASSUME NEW p \in Sessions
      PROVE  Count(hold', p) = Count(hold, p)
  <2>1. CASE p = o
    <3>1. Count(h, o) = Count(hold, o) - 1 /\ Count(hold, o) \in Nat
      BY <1>2, <1>5 DEF Moved
    <3>2. Count(hold', o) = Count(h, o) + 1
      BY <1>4, <1>5 DEF Moved
    <3> QED
      BY <3>1, <3>2, <2>1
  <2>2. CASE p # o
    <3>1. Count(h, p) = Count(hold, p)
      BY <1>2, <1>5, <2>2 DEF Moved
    <3>2. Count(hold', p) = Count(h, p)
      BY <1>4, <1>5, <2>2 DEF Moved
    <3> QED
      BY <3>1, <3>2
  <2> QED
    BY <2>1, <2>2
<1>7. \A p \in Sessions : Share(p)' = Share(p)
  BY DEF Share, Cached
<1>8. hold' \in Hold /\ Kept
  BY <1>4 DEF Moved, Kept
<1> QED
  BY <1>6, <1>7, <1>8 DEF Core

(* The reference of a variable becomes the one of the cache.               *)
LEMMA InsertCore ==
  ASSUME Core, NEW k \in Keys, NEW c \in Sessions, hold[k] = c, obj[c].id # NoId,
         Find(obj[c].id) = {}, obj' = obj, hold' = [hold EXCEPT ![k] = Null],
         table' = table \cup {[key |-> obj[c].id, obj |-> c]}
  PROVE  Core' /\ Kept
<1>1. hold \in Hold /\ Null \in Sessions \cup {Null} /\ \A p \in Sessions : Null # p
  BY SessionCacheAssumption DEF Core
<1>2. Moved(hold, hold', c, Null)
  BY <1>1, CountMoved
<1>3. \A n \in table : n.key # obj[c].id
  BY DEF Find, Core
<1>4. c \notin Cached
  BY <1>3 DEF Cached, Core
<1>5. obj[c].id \in Ids /\ [key |-> obj[c].id, obj |-> c] \in Nodes
  BY DEF Core, Objects, Nodes
<1>6. Cached' = Cached \cup {c}
  <2> DEFINE r == [key |-> obj[c].id, obj |-> c]
  <2>1. r.obj = c /\ table' = table \cup {r}
    OBVIOUS
  <2> HIDE DEF r
  <2> QED
    BY <2>1 DEF Cached
<1>7. ASSUME NEW p \in Sessions
      PROVE  obj'[p].refs = Count(hold', p) + Share(p)'
  <2>0. obj[p].refs = Count(hold, p) + Share(p) /\ Count(hold, p) \in Nat
    BY <1>2 DEF Core, Moved
  <2>1. CASE p = c
    <3>1. Count(hold', p) = Count(hold, p) - 1 /\ Share(p) = 0 /\ Share(p)' = 1
      BY <1>1, <1>2, <1>4, <1>6, <2>1 DEF Moved, Share
    <3> QED
      BY <3>1, <2>0
  <2>2. CASE p # c
    BY <1>1, <1>2, <1>6, <2>0, <2>2 DEF Moved, Share
  <2> QED
    BY <2>1, <2>2
<1>8. table' \subseteq Nodes /\ hold' \in Hold /\ obj' \in Objects /\ Kept
  BY <1>2, <1>5 DEF Core, Moved, Kept
<1>9. /\ \A n \in table' : obj'[n.obj].id = n.key
      /\ \A n, m \in table' : n.key = m.key => n = m
  BY <1>3 DEF Core
<1> QED
  BY <1>7, <1>8, <1>9 DEF Core

(* Node n of the table leaves it, and what it points to with it.           *)
LEMMA WithoutNode ==
  ASSUME Core, NEW n \in table
  PROVE  /\ table \ Find(obj[n.obj].id) = table \ {n}
         /\ {m.obj : m \in table \ {n}} = Cached \ {n.obj}
BY TableOf DEF Cached

(* ... and the reference of the cache becomes the one of variable k.       *)
LEMMA UnlinkCore ==
  ASSUME Core, NEW k \in Keys, hold[k] = Null, NEW n \in table,
         obj' = obj, hold' = [hold EXCEPT ![k] = n.obj],
         table' = table \ Find(obj[n.obj].id)
  PROVE  Core' /\ Kept
<1> DEFINE c == n.obj
<1>1. c \in Sessions /\ hold \in Hold /\ c \in Sessions \cup {Null} /\ c \in Cached
  BY TableOf DEF Core
<1>2. Moved(hold, hold', Null, c)
  BY <1>1, CountMoved
<1>3. table' = table \ {n} /\ Cached' = Cached \ {c}
  BY WithoutNode DEF Cached
<1>4. \A p \in Sessions : Null # p
  BY SessionCacheAssumption
<1> HIDE DEF c
<1>5. ASSUME NEW p \in Sessions
      PROVE  obj'[p].refs = Count(hold', p) + Share(p)'
  <2>0. obj[p].refs = Count(hold, p) + Share(p) /\ Count(hold, p) \in Nat
    BY <1>2 DEF Core, Moved
  <2>1. CASE p = c
    <3>1. Count(hold', p) = Count(hold, p) + 1 /\ Share(p) = 1 /\ Share(p)' = 0
      BY <1>1, <1>2, <1>3, <1>4, <2>1 DEF Moved, Share
    <3> QED
      BY <3>1, <2>0
  <2>2. CASE p # c
    BY <1>2, <1>3, <1>4, <2>0, <2>2 DEF Moved, Share
  <2> QED
    BY <2>1, <2>2
<1>6. hold' \in Hold /\ Kept
  BY <1>2 DEF Moved, Kept
<1> QED
  BY <1>3, <1>5, <1>6 DEF Core

(* ... and the reference of the cache goes.                                *)
LEMMA UncacheCore ==
  ASSUME Core, NEW n \in table, Uncache(n.obj), hold' = hold
  PROVE  Core' /\ Kept /\ table' = table \ {n}
<1> DEFINE c == n.obj
           os == [obj EXCEPT ![c].notResumable = TRUE]
<1>1. c \in Sessions /\ c \in Cached /\ obj[c].refs >= 1
  BY TableOf
<1>2. os \in Objects /\ \A p \in Sessions : os[p].refs = obj[p].refs /\ os[p].id = obj[p].id
  BY <1>1 DEF Core, Objects
<1>3. obj' = Less(os, c)
  BY DEF Uncache
<1>4. table' = table \ {n} /\ Cached' = Cached \ {c}
  BY WithoutNode DEF Cached, Uncache
<1> HIDE DEF os, c
<1>5. /\ obj' \in Objects
      /\ \A p \in Sessions : obj'[p].refs = IF p = c THEN obj[p].refs - 1 ELSE obj[p].refs
      /\ \A p \in Sessions : obj'[p].refs > 0 => obj'[p].id = obj[p].id
  BY <1>1, <1>2, <1>3, LessIs
<1>6. ASSUME NEW p \in Sessions
      PROVE  obj'[p].refs = Count(hold', p) + Share(p)' /\ Count(hold', p) \in Nat
  <2>0. obj[p].refs = Count(hold, p) + Share(p) /\ Count(hold, p) \in Nat
    BY KeysFinite DEF Core
  <2>1. CASE p = c
    <3>1. obj'[p].refs = obj[p].refs - 1 /\ Share(p) = 1 /\ Share(p)' = 0
      BY <1>1, <1>4, <1>5, <2>1 DEF Share
    <3> QED
      BY <3>1, <2>0
  <2>2. CASE p # c
    BY <1>4, <1>5, <2>0, <2>2 DEF Share
  <2> QED
    BY <2>1, <2>2
<1>7. ASSUME NEW m \in table'
      PROVE  obj'[m.obj].id = m.key
  <2>1. m.obj \in Sessions /\ Share(m.obj)' = 1 /\ obj[m.obj].id = m.key
    BY <1>4 DEF Core, Nodes, Share, Cached
  <2>2. obj'[m.obj].refs = Count(hold', m.obj) + 1 /\ Count(hold', m.obj) \in Nat
    BY <2>1, <1>6
  <2>3. obj'[m.obj].refs > 0
    BY <2>2
  <2> QED
    BY <2>1, <2>3, <1>5
<1>8. Kept
  BY <1>5 DEF Kept
<1> QED
  BY <1>4, <1>5, <1>6, <1>7, <1>8 DEF Core

(* Session c takes the place of the session of node n.                     *)
LEMMA ReplaceCore ==
  ASSUME Core, NEW k \in Keys, NEW c \in Sessions, hold[k] = c, NEW n \in Find(obj[c].id),
         n.obj # c, obj' = Less(obj, n.obj), hold' = [hold EXCEPT ![k] = Null],
         table' = (table \ {n}) \cup {[n EXCEPT !.obj = c]}
  PROVE  Core' /\ Kept
<1> DEFINE b == n.obj
           r == [n EXCEPT !.obj = c]
<1>1. n \in table /\ n.key = obj[c].id
  BY DEF Find
<1>2. b \in Sessions /\ obj[b].refs >= 1 /\ n \in Nodes
  BY <1>1, TableOf DEF Core
<1>3. \A m \in table : m.obj = b => m = n
  BY <1>1, TableOf
<1>4. r \in Nodes /\ r.key = n.key /\ r.obj = c /\ b # c
  BY <1>2 DEF Nodes
<1>5. c \notin Cached
  <2> SUFFICES ASSUME NEW m \in table, m.obj = c PROVE FALSE
    BY DEF Cached
  <2>1. m.key = obj[c].id
    BY DEF Core
  <2>2. m = n
    BY <2>1, <1>1 DEF Core
  <2> QED
    BY <2>2
<1>6. obj \in Objects /\ obj' = Less(obj, b)
  BY DEF Core
<1> HIDE DEF b, r
<1>7. /\ obj' \in Objects
      /\ \A p \in Sessions : obj'[p].refs = IF p = b THEN obj[p].refs - 1 ELSE obj[p].refs
      /\ \A p \in Sessions : obj'[p].refs > 0 => obj'[p].id = obj[p].id
  BY <1>2, <1>6, LessIs
<1>8. hold \in Hold /\ Null \in Sessions \cup {Null} /\ \A p \in Sessions : Null # p
  BY SessionCacheAssumption DEF Core
<1>9. Moved(hold, hold', c, Null)
  BY <1>8, CountMoved
<1>10. table' = (table \ {n}) \cup {r}
  BY DEF r
<1>11. b \in Cached /\ b \notin Cached' /\ c \in Cached'
  <2>1. \A m \in table' : m.obj # b
    BY <1>3, <1>4, <1>10
  <2>2. n.obj = b
    BY DEF b
  <2> QED
    BY <1>1, <1>4, <1>10, <2>1, <2>2 DEF Cached
<1>12. \A p \in Sessions \ {b, c} : p \in Cached' <=> p \in Cached
  <2>1. n.obj = b
    BY DEF b
  <2> QED
    BY <1>1, <1>4, <1>10, <2>1 DEF Cached
<1>13. ASSUME NEW p \in Sessions
       PROVE  /\ obj'[p].refs = Count(hold', p) + Share(p)'
              /\ Count(hold', p) \in Nat
  <2>0. obj[p].refs = Count(hold, p) + Share(p) /\ Count(hold, p) \in Nat /\ Count(hold', p) \in Nat
    BY <1>9 DEF Core, Moved
  <2>1. CASE p = b
    <3>1. obj'[p].refs = obj[p].refs - 1 /\ Share(p) = 1 /\ Share(p)' = 0
      BY <1>7, <1>11, <2>1 DEF Share
    <3>2. Count(hold', p) = Count(hold, p)
      BY <1>4, <1>8, <1>9, <2>1 DEF Moved
    <3> QED
      BY <3>1, <3>2, <2>0
  <2>2. CASE p = c
    <3>1. obj'[p].refs = obj[p].refs /\ Share(p) = 0 /\ Share(p)' = 1
      BY <1>4, <1>5, <1>7, <1>11, <2>2 DEF Share
    <3>2. Count(hold', p) = Count(hold, p) - 1
      BY <1>8, <1>9, <2>2 DEF Moved
    <3> QED
      BY <3>1, <3>2, <2>0
  <2>3. CASE p # b /\ p # c
    <3>1. obj'[p].refs = obj[p].refs /\ Share(p)' = Share(p)
      BY <1>7, <1>12, <2>3 DEF Share
    <3>2. Count(hold', p) = Count(hold, p)
      BY <1>8, <1>9, <2>3 DEF Moved
    <3> QED
      BY <3>1, <3>2, <2>0
  <2> QED
    BY <2>1, <2>2, <2>3
<1>14. \A m \in table' : m.obj \in Sessions /\ obj[m.obj].id = m.key
  BY <1>1, <1>4, <1>10 DEF Core, Nodes
<1>15. ASSUME NEW m \in table'
       PROVE  obj'[m.obj].id = m.key
  <2>1. m.obj \in Sessions /\ Share(m.obj)' = 1
    BY <1>14 DEF Share, Cached
  <2>2. obj'[m.obj].refs = Count(hold', m.obj) + 1 /\ Count(hold', m.obj) \in Nat
    BY <2>1, <1>13
  <2>3. obj'[m.obj].refs > 0
    BY <2>2
  <2> QED
    BY <2>1, <2>3, <1>7, <1>14
<1>16. \A m, q \in table' : m.key = q.key => m = q
  BY <1>1, <1>4, <1>10 DEF Core
<1>17. hold' \in Hold /\ Kept /\ table' \subseteq Nodes
  BY <1>4, <1>7, <1>9, <1>10 DEF Moved, Kept, Core
<1> QED
  BY <1>7, <1>13, <1>15, <1>16, <1>17 DEF Core

------------------------------------------------------------------------------
(* Where a thread is says which of its variables have a reference, whether *)
(* it holds the lock, and that what it adds has an id.                     *)

Calls == {"add", "insert", "evict", "remove", "removed", "flush", "walk"}
Within(t) == IF pc[t] \in Calls THEN then[t] ELSE pc[t]

Control(t) ==
  /\ pc[t] \in {"add", "insert", "evict"} => then[t] \in {"check", "notify", "open"}
  /\ pc[t] \in {"remove", "removed"} => then[t] \in {"drop", "close"}
  /\ pc[t] \in {"flush", "walk"} => then[t] = "open"
  /\ hold[<<t, "sess">>] # Null <=> Within(t) \in {"check", "drop"}
  /\ hold[<<t, "session">>] # Null <=> Within(t) \in {"handshake", "notify", "open", "close"}
  /\ hold[<<t, "add">>] # Null <=> pc[t] = "insert"
  /\ hold[<<t, "r">>] # Null <=> pc[t] = "removed"
  /\ lock = t <=> pc[t] \in {"evict", "walk"}
  /\ pc[t] = "walk" => todo \subseteq table
  /\ Within(t) = "notify" => obj[session(t)].id # NoId
  /\ pc[t] = "add" => obj[Adding(t)].id # NoId
  /\ pc[t] = "insert" => obj[hold[<<t, "add">>]].id # NoId

Types ==
  /\ ctx \in Contexts
  /\ todo \subseteq Nodes /\ ext \subseteq Ids
  /\ lock \in Threads \cup {Null}
  /\ pc \in [Threads -> Places] /\ then \in [Threads -> Places]
  /\ hit \in [Threads -> {"no", "server", "client"}]

IInv == Types /\ Core /\ \A t \in Threads : Control(t)

(* What a step of thread t leaves to the others.                           *)
Others(t) ==
  /\ \A u \in Threads \ {t} :
       /\ pc'[u] = pc[u] /\ then'[u] = then[u]
       /\ \A s \in Slots : hold'[<<u, s>>] = hold[<<u, s>>]
  /\ \/ lock' = lock
     \/ lock \in {Null, t} /\ lock' \in {Null, t}
  /\ \/ table' = table /\ todo' = todo
     \/ lock \in {Null, t}

(* A session that a variable has before and after a step keeps its id.     *)
LEMMA HeldKeepsId ==
  ASSUME Core, Core', Kept, NEW k \in Keys, NEW o \in Sessions, hold[k] = o, hold'[k] = o
  PROVE  obj'[o].id = obj[o].id
<1>1. Count(hold, o) >= 1 /\ Count(hold, o) \in Nat
  BY CountPositive, KeysFinite DEF Core
<1>2. Count(hold', o) >= 1 /\ Count(hold', o) \in Nat
  BY CountPositive, KeysFinite DEF Core
<1>3. obj[o].refs = Count(hold, o) + Share(o) /\ obj'[o].refs = Count(hold', o) + Share(o)'
  BY DEF Core
<1>4. obj[o].refs > 0 /\ obj'[o].refs > 0
  BY <1>1, <1>2, <1>3 DEF Share
<1> QED
  BY <1>4 DEF Kept

LEMMA OthersKeep ==
  ASSUME IInv, NEW t \in Threads, NEW u \in Threads \ {t}, Core', Kept, Others(t)
  PROVE  Control(u)'
<1>1. /\ pc'[u] = pc[u] /\ then'[u] = then[u] /\ Control(u)
      /\ \A s \in Slots : hold'[<<u, s>>] = hold[<<u, s>>] /\ <<u, s>> \in Keys
  BY DEF Others, IInv, Keys
<1>2. Within(u)' = Within(u)
  BY <1>1 DEF Within
<1>3. /\ hold'[<<u, "sess">>] = hold[<<u, "sess">>] /\ <<u, "sess">> \in Keys
      /\ hold'[<<u, "session">>] = hold[<<u, "session">>] /\ <<u, "session">> \in Keys
      /\ hold'[<<u, "add">>] = hold[<<u, "add">>] /\ <<u, "add">> \in Keys
      /\ hold'[<<u, "r">>] = hold[<<u, "r">>]
  BY <1>1 DEF Slots
<1>4. lock' = u <=> lock = u
  BY SessionCacheAssumption DEF Others
<1>5. pc[u] = "walk" => todo' \subseteq table'
  <2> SUFFICES ASSUME pc[u] = "walk" PROVE todo' \subseteq table'
    OBVIOUS
  <2>1. lock = u /\ todo \subseteq table
    BY <1>1 DEF Control
  <2>2. lock \notin {Null, t}
    BY <2>1, SessionCacheAssumption
  <2> QED
    BY <2>1, <2>2 DEF Others
<1>6. pc[u] = "add" => obj'[Adding(u)'].id # NoId
  <2> SUFFICES ASSUME pc[u] = "add" PROVE obj'[Adding(u)'].id # NoId
    OBVIOUS
  <2>1. then[u] \in {"check", "notify", "open"} /\ obj[Adding(u)].id # NoId
    BY <1>1 DEF Control
  <2>2. CASE then[u] = "check"
    <3>1. hold[<<u, "sess">>] \in Sessions
      BY <1>1, <1>3, <2>2 DEF Control, Within, Calls, IInv, Core, Hold
    <3>2. Adding(u) = hold[<<u, "sess">>] /\ Adding(u)' = hold[<<u, "sess">>]
      BY <1>1, <1>3, <2>2 DEF Adding
    <3> QED
      BY <1>3, <2>1, <3>1, <3>2, HeldKeepsId DEF IInv
  <2>3. CASE then[u] # "check"
    <3>1. hold[<<u, "session">>] \in Sessions
      BY <1>1, <1>3, <2>1, <2>3 DEF Control, Within, Calls, IInv, Core, Hold
    <3>2. Adding(u) = hold[<<u, "session">>] /\ Adding(u)' = hold[<<u, "session">>]
      BY <1>1, <1>3, <2>3 DEF Adding, session
    <3> QED
      BY <1>3, <2>1, <3>1, <3>2, HeldKeepsId DEF IInv
  <2> QED
    BY <2>2, <2>3
<1>7. pc[u] = "insert" => obj'[hold'[<<u, "add">>]].id # NoId
  <2> SUFFICES ASSUME pc[u] = "insert" PROVE obj'[hold'[<<u, "add">>]].id # NoId
    OBVIOUS
  <2>1. hold[<<u, "add">>] \in Sessions /\ obj[hold[<<u, "add">>]].id # NoId
    BY <1>1, <1>3 DEF Control, IInv, Core, Hold
  <2> QED
    BY <1>3, <2>1, HeldKeepsId DEF IInv
<1>8. Within(u) = "notify" => obj'[session(u)'].id # NoId
  <2> SUFFICES ASSUME Within(u) = "notify" PROVE obj'[session(u)'].id # NoId
    OBVIOUS
  <2>1. session(u) \in Sessions /\ obj[session(u)].id # NoId /\ session(u)' = session(u)
    BY <1>1, <1>3 DEF Control, IInv, Core, Hold, session
  <2> QED
    BY <1>3, <2>1, HeldKeepsId DEF IInv, session
<1> QED
  BY <1>1, <1>2, <1>3, <1>4, <1>5, <1>6, <1>7, <1>8 DEF Control, session

LEMMA HoldAt ==
  ASSUME NEW h \in Hold, NEW t \in Threads, NEW s \in Slots, NEW v
  PROVE  /\ [h EXCEPT ![<<t, s>>] = v][<<t, s>>] = v
         /\ \A r \in Slots \ {s} : [h EXCEPT ![<<t, s>>] = v][<<t, r>>] = h[<<t, r>>]
         /\ \A u \in Threads \ {t}, r \in Slots :
              [h EXCEPT ![<<t, s>>] = v][<<u, r>>] = h[<<u, r>>]
BY DEF Hold, Keys

(* The steps that change neither references nor table.                     *)
Quiet(t) ==
  NoPrevious(t) \/ TooOld(t) \/ NoMemory(t) \/ FinishNew(t) \/ Notify(t) \/ Offer(t)
  \/ Fail(t) \/ NotThere(t) \/ StartFlush(t) \/ Flushed(t) \/ Added(t) \/ KeepOne(t)

LEMMA QuietKeeps ==
  ASSUME IInv, NEW t \in Threads, Quiet(t), ctx' = ctx
  PROVE  Core' /\ Kept /\ Others(t) /\ Types' /\ Control(t)'
<1>1. obj' = obj /\ table' = table /\ hold' = hold
  BY DEF Quiet, cache, NoPrevious, TooOld, NoMemory, FinishNew, Notify, Offer, Fail, NotThere, StartFlush, Flushed, Added, KeepOne
<1>2. Core' /\ Kept
  BY <1>1, SameCore DEF IInv, Core
<1>3. Core /\ Types /\ Control(t)
  BY DEF IInv
<1>4. Adding(t)' = IF then'[t] = "check" THEN hold[<<t, "sess">>] ELSE hold[<<t, "session">>]
  BY <1>1 DEF Adding, session
<1>5. CASE NoPrevious(t)
  <2>1. Others(t) /\ Types'
    BY <1>1, <1>3, <1>5, SessionCacheAssumption DEF NoPrevious, Goto, Call, Return, cache, Others, Types, Places, Core, Hold, Objects, Control, Keys, Slots, Within, Calls, session
  <2>2. Control(t)'
    BY <1>1, <1>3, <1>4, <1>5, SessionCacheAssumption DEF NoPrevious, Goto, Call, Return, cache, Control, Within, Calls, Types, Adding, session
  <2> QED
    BY <1>2, <2>1, <2>2
<1>6. CASE TooOld(t)
  <2>1. Others(t) /\ Types'
    BY <1>1, <1>3, <1>6, SessionCacheAssumption DEF TooOld, Goto, Call, Return, cache, Others, Types, Places, Core, Hold, Objects, Control, Keys, Slots, Within, Calls, session
  <2>2. Control(t)'
    BY <1>1, <1>3, <1>4, <1>6, SessionCacheAssumption DEF TooOld, Goto, Call, Return, cache, Control, Within, Calls, Types, Adding, session
  <2> QED
    BY <1>2, <2>1, <2>2
<1>7. CASE NoMemory(t)
  <2>1. Others(t) /\ Types'
    BY <1>1, <1>3, <1>7, SessionCacheAssumption DEF NoMemory, Goto, Call, Return, cache, Others, Types, Places, Core, Hold, Objects, Control, Keys, Slots, Within, Calls, session
  <2>2. Control(t)'
    BY <1>1, <1>3, <1>4, <1>7, SessionCacheAssumption DEF NoMemory, Goto, Call, Return, cache, Control, Within, Calls, Types, Adding, session
  <2> QED
    BY <1>2, <2>1, <2>2
<1>8. CASE FinishNew(t)
  <2>1. Others(t) /\ Types'
    BY <1>1, <1>3, <1>8, SessionCacheAssumption DEF FinishNew, Goto, Call, Return, cache, Others, Types, Places, Core, Hold, Objects, Control, Keys, Slots, Within, Calls, session
  <2>2. Control(t)'
    BY <1>1, <1>3, <1>4, <1>8, SessionCacheAssumption DEF FinishNew, Goto, Call, Return, cache, Control, Within, Calls, Types, Adding, session
  <2> QED
    BY <1>2, <2>1, <2>2
<1>9. CASE Notify(t)
  <2>0. ext' \subseteq Ids
    <3>1. session(t) \in Sessions /\ obj[session(t)].id # NoId
      BY <1>3, <1>9 DEF Notify, Control, Within, Calls, session, IInv, Core, Hold, Keys, Slots
    <3>2. obj[session(t)].id \in Ids /\ ext \subseteq Ids
      BY <1>3, <3>1 DEF Types, Core, Objects
    <3> QED
      BY <1>9, <3>2 DEF Notify
  <2>1. Others(t) /\ Types'
    BY <1>1, <1>3, <1>9, <2>0, SessionCacheAssumption DEF Notify, Goto, Call, cache, Others, Types, Places
  <2>2. Control(t)'
    BY <1>1, <1>3, <1>4, <1>9, SessionCacheAssumption DEF Notify, Goto, Call, Return, cache, Control, Within, Calls, Types, Adding, session
  <2> QED
    BY <1>2, <2>1, <2>2
<1>10. CASE Offer(t)
  <2>1. Others(t) /\ Types'
    BY <1>1, <1>3, <1>10, SessionCacheAssumption DEF Offer, Goto, Call, Return, cache, Others, Types, Places, Core, Hold, Objects, Control, Keys, Slots, Within, Calls, session
  <2>2. Control(t)'
    BY <1>1, <1>3, <1>4, <1>10, SessionCacheAssumption DEF Offer, Goto, Call, Return, cache, Control, Within, Calls, Types, Adding, session
  <2> QED
    BY <1>2, <2>1, <2>2
<1>11. CASE Fail(t)
  <2>1. Others(t) /\ Types'
    BY <1>1, <1>3, <1>11, SessionCacheAssumption DEF Fail, Goto, Call, Return, cache, Others, Types, Places, Core, Hold, Objects, Control, Keys, Slots, Within, Calls, session
  <2>2. Control(t)'
    BY <1>1, <1>3, <1>4, <1>11, SessionCacheAssumption DEF Fail, Goto, Call, Return, cache, Control, Within, Calls, Types, Adding, session
  <2> QED
    BY <1>2, <2>1, <2>2
<1>12. CASE NotThere(t)
  <2>1. Others(t) /\ Types'
    BY <1>1, <1>3, <1>12, SessionCacheAssumption DEF NotThere, Goto, Call, Return, cache, Others, Types, Places, Core, Hold, Objects, Control, Keys, Slots, Within, Calls, session
  <2>2. Control(t)'
    BY <1>1, <1>3, <1>4, <1>12, SessionCacheAssumption DEF NotThere, Goto, Call, Return, cache, Control, Within, Calls, Types, Adding, session
  <2> QED
    BY <1>2, <2>1, <2>2
<1>13. CASE StartFlush(t)
  <2>1. Others(t) /\ Types'
    BY <1>1, <1>3, <1>13, SessionCacheAssumption DEF StartFlush, Goto, Call, Return, cache, Others, Types, Places, Core, Hold, Objects, Control, Keys, Slots, Within, Calls, session
  <2>2. Control(t)'
    BY <1>1, <1>3, <1>4, <1>13, SessionCacheAssumption DEF StartFlush, Goto, Call, Return, cache, Control, Within, Calls, Types, Adding, session
  <2> QED
    BY <1>2, <2>1, <2>2
<1>14. CASE Flushed(t)
  <2>1. Others(t) /\ Types'
    BY <1>1, <1>3, <1>14, SessionCacheAssumption DEF Flushed, Goto, Call, Return, cache, Others, Types, Places, Core, Hold, Objects, Control, Keys, Slots, Within, Calls, session
  <2>2. Control(t)'
    BY <1>1, <1>3, <1>4, <1>14, SessionCacheAssumption DEF Flushed, Goto, Call, Return, cache, Control, Within, Calls, Types, Adding, session
  <2> QED
    BY <1>2, <2>1, <2>2
<1>15. CASE Added(t)
  <2>1. Others(t) /\ Types'
    BY <1>1, <1>3, <1>15, SessionCacheAssumption DEF Added, Goto, Call, Return, cache, Others, Types, Places, Core, Hold, Objects, Control, Keys, Slots, Within, Calls, session
  <2>2. Control(t)'
    BY <1>1, <1>3, <1>4, <1>15, SessionCacheAssumption DEF Added, Goto, Call, Return, cache, Control, Within, Calls, Types, Adding, session
  <2> QED
    BY <1>2, <2>1, <2>2
<1>16. CASE KeepOne(t)
  <2>1. Others(t) /\ Types'
    BY <1>1, <1>3, <1>16, SessionCacheAssumption DEF KeepOne, Goto, Call, Return, cache, Others, Types, Places, Core, Hold, Objects, Control, Keys, Slots, Within, Calls, session
  <2>2. Control(t)'
    BY <1>1, <1>3, <1>4, <1>16, SessionCacheAssumption DEF KeepOne, Goto, Call, Return, cache, Control, Within, Calls, Types, Adding, session
  <2> QED
    BY <1>2, <2>1, <2>2
<1> QED
  BY <1>5, <1>6, <1>7, <1>8, <1>9, <1>10, <1>11, <1>12, <1>13, <1>14, <1>15, <1>16 DEF Quiet
(* FromCache *)
LEMMA FromCacheKeeps ==
  ASSUME IInv, NEW t \in Threads, FromCache(t), ctx' = ctx
  PROVE  Core' /\ Kept /\ Others(t) /\ Types' /\ Control(t)'
<1>0. /\ Core /\ Types /\ Control(t) /\ hold \in Hold /\ "sess" \in Slots
      /\ \A s \in Slots : <<t, s>> \in Keys
  BY DEF IInv, Core, Keys, Slots
<1>1. PICK o \in Sessions : Take(<<t, "sess">>, o)
  BY <1>0 DEF FromCache, FindSession, Find, Core, Nodes
<1>2. hold[<<t, "sess">>] = Null
  BY <1>0 DEF FromCache, Control, Within, Calls
<1>3. Core' /\ Kept
  BY <1>0, <1>1, <1>2, TakeCore DEF FromCache, cache
<1>4. /\ hold'[<<t, "sess">>] = o
      /\ \A r \in Slots \ {"sess"} : hold'[<<t, r>>] = hold[<<t, r>>]
      /\ \A u \in Threads \ {t}, r \in Slots : hold'[<<u, r>>] = hold[<<u, r>>]
  BY <1>0, <1>1, HoldAt DEF Take, SSL_SESSION_new
<1>5. Others(t) /\ Types'
  BY <1>0, <1>1, <1>4 DEF FromCache, Goto, Call, Return, cache, Others, Types, Places, Slots
<1>6. Control(t)'
  BY <1>0, <1>1, <1>4, SessionCacheAssumption DEF FromCache, Goto, Call, Return, cache, Control, Within, Calls, Types, Adding, session, Slots
<1> QED
  BY <1>3, <1>5, <1>6

(* ConnectWith *)
LEMMA ConnectWithKeeps ==
  ASSUME IInv, NEW t \in Threads, ConnectWith(t), ctx' = ctx
  PROVE  Core' /\ Kept /\ Others(t) /\ Types' /\ Control(t)'
<1>0. /\ Core /\ Types /\ Control(t) /\ hold \in Hold /\ "session" \in Slots
      /\ \A s \in Slots : <<t, s>> \in Keys
  BY DEF IInv, Core, Keys, Slots
<1>1. PICK o \in Sessions : Take(<<t, "session">>, o)
  BY <1>0 DEF ConnectWith, Hold, Slots
<1>2. hold[<<t, "session">>] = Null
  BY <1>0 DEF ConnectWith, Control, Within, Calls
<1>3. Core' /\ Kept
  BY <1>0, <1>1, <1>2, TakeCore DEF ConnectWith, cache
<1>4. /\ hold'[<<t, "session">>] = o
      /\ \A r \in Slots \ {"session"} : hold'[<<t, r>>] = hold[<<t, r>>]
      /\ \A u \in Threads \ {t}, r \in Slots : hold'[<<u, r>>] = hold[<<u, r>>]
  BY <1>0, <1>1, HoldAt DEF Take, SSL_SESSION_new
<1>5. Others(t) /\ Types'
  BY <1>0, <1>1, <1>4 DEF ConnectWith, Goto, Call, Return, cache, Others, Types, Places, Slots
<1>6. Control(t)'
  BY <1>0, <1>1, <1>4, SessionCacheAssumption DEF ConnectWith, Goto, Call, Return, cache, Control, Within, Calls, Types, Adding, session, Slots
<1> QED
  BY <1>3, <1>5, <1>6

(* Save *)
LEMMA SaveKeeps ==
  ASSUME IInv, NEW t \in Threads, Save(t), ctx' = ctx
  PROVE  Core' /\ Kept /\ Others(t) /\ Types' /\ Control(t)'
<1>0. /\ Core /\ Types /\ Control(t) /\ hold \in Hold /\ "saved" \in Slots
      /\ \A s \in Slots : <<t, s>> \in Keys
  BY DEF IInv, Core, Keys, Slots
<1>1. PICK o \in Sessions : Take(<<t, "saved">>, o) /\ o = session(t)
  BY <1>0 DEF Save, Hold, Slots, session, Control, Within, Calls
<1>2. hold[<<t, "saved">>] = Null
  BY DEF Save
<1>3. Core' /\ Kept
  BY <1>0, <1>1, <1>2, TakeCore DEF Save, cache
<1>4. /\ hold'[<<t, "saved">>] = o
      /\ \A r \in Slots \ {"saved"} : hold'[<<t, r>>] = hold[<<t, r>>]
      /\ \A u \in Threads \ {t}, r \in Slots : hold'[<<u, r>>] = hold[<<u, r>>]
  BY <1>0, <1>1, HoldAt DEF Take, SSL_SESSION_new
<1>5. Others(t) /\ Types'
  BY <1>0, <1>1, <1>4 DEF Save, Goto, Call, Return, cache, Others, Types, Places, Slots
<1>6. Control(t)'
  BY <1>0, <1>1, <1>4, SessionCacheAssumption DEF Save, Goto, Call, Return, cache, Control, Within, Calls, Types, Adding, session, Slots
<1> QED
  BY <1>3, <1>5, <1>6

(* AddReference *)
LEMMA AddReferenceKeeps ==
  ASSUME IInv, NEW t \in Threads, AddReference(t), ctx' = ctx
  PROVE  Core' /\ Kept /\ Others(t) /\ Types' /\ Control(t)'
<1>0. /\ Core /\ Types /\ Control(t) /\ hold \in Hold /\ "add" \in Slots
      /\ \A s \in Slots : <<t, s>> \in Keys
  BY DEF IInv, Core, Keys, Slots
<1>1. PICK o \in Sessions : Take(<<t, "add">>, o) /\ o = Adding(t)
  BY <1>0 DEF AddReference, Hold, Slots, Adding, session, Control, Within, Calls
<1>2. hold[<<t, "add">>] = Null
  BY <1>0 DEF AddReference, Control, Within, Calls
<1>3. Core' /\ Kept
  BY <1>0, <1>1, <1>2, TakeCore DEF AddReference, cache
<1>4. /\ hold'[<<t, "add">>] = o
      /\ \A r \in Slots \ {"add"} : hold'[<<t, r>>] = hold[<<t, r>>]
      /\ \A u \in Threads \ {t}, r \in Slots : hold'[<<u, r>>] = hold[<<u, r>>]
  BY <1>0, <1>1, HoldAt DEF Take, SSL_SESSION_new
<1>5. Others(t) /\ Types'
  BY <1>0, <1>1, <1>4 DEF AddReference, Goto, Call, Return, cache, Others, Types, Places, Slots
<1>6. Control(t)'
  <2>1. \A p \in Sessions : obj'[p].id = obj[p].id
    BY <1>0, <1>1 DEF Take, Core, Objects
  <2>2. obj[o].id # NoId /\ pc'[t] = "insert" /\ then' = then
    BY <1>0, <1>1 DEF AddReference, Control, Goto, Types
  <2>3. session(t)' = session(t) /\ session(t) \in Sessions \cup {Null}
    BY <1>0, <1>4 DEF session, Hold, Slots
  <2>4. then[t] = "notify" => session(t) \in Sessions /\ obj[session(t)].id # NoId
    BY <1>0, <1>1, <2>3, SessionCacheAssumption DEF AddReference, Control, Within, Calls, session
  <2>5. Within(t)' = "notify" => obj'[session(t)'].id # NoId
    BY <2>1, <2>2, <2>3, <2>4 DEF Within, Calls
  <2> QED
    BY <1>0, <1>1, <1>4, <2>1, <2>2, <2>5, SessionCacheAssumption DEF AddReference, Goto, Call, Return, cache, Control, Within, Calls, Types, Adding, session, Slots
<1> QED
  BY <1>3, <1>5, <1>6

(* New *)
LEMMA NewKeeps ==
  ASSUME IInv, NEW t \in Threads, New(t), ctx' = ctx
  PROVE  Core' /\ Kept /\ Others(t) /\ Types' /\ Control(t)'
<1>0. /\ Core /\ Types /\ Control(t) /\ hold \in Hold /\ "session" \in Slots
      /\ \A s \in Slots : <<t, s>> \in Keys
  BY DEF IInv, Core, Keys, Slots
<1>1. PICK o \in Sessions : \E i \in Ids \cup {NoId} : SSL_SESSION_new(<<t, "session">>, o, i)
  BY <1>0 DEF New, Types
<1>2. hold[<<t, "session">>] = Null
  BY <1>0 DEF New, Control, Within, Calls
<1>3. Core' /\ Kept
  BY <1>0, <1>1, <1>2, NewCore DEF New, cache
<1>4. /\ hold'[<<t, "session">>] = o
      /\ \A r \in Slots \ {"session"} : hold'[<<t, r>>] = hold[<<t, r>>]
      /\ \A u \in Threads \ {t}, r \in Slots : hold'[<<u, r>>] = hold[<<u, r>>]
  BY <1>0, <1>1, HoldAt DEF Take, SSL_SESSION_new
<1>5. Others(t) /\ Types'
  BY <1>0, <1>1, <1>4 DEF New, Goto, Call, Return, cache, Others, Types, Places, Slots
<1>6. Control(t)'
  BY <1>0, <1>1, <1>4, SessionCacheAssumption DEF New, Goto, Call, Return, cache, Control, Within, Calls, Types, Adding, session, Slots
<1> QED
  BY <1>3, <1>5, <1>6

(* Connect *)
LEMMA ConnectKeeps ==
  ASSUME IInv, NEW t \in Threads, Connect(t), ctx' = ctx
  PROVE  Core' /\ Kept /\ Others(t) /\ Types' /\ Control(t)'
<1>0. /\ Core /\ Types /\ Control(t) /\ hold \in Hold /\ "session" \in Slots
      /\ \A s \in Slots : <<t, s>> \in Keys
  BY DEF IInv, Core, Keys, Slots
<1>1. PICK o \in Sessions : \E i \in Ids \cup {NoId} : SSL_SESSION_new(<<t, "session">>, o, i)
  BY <1>0 DEF Connect, Types
<1>2. hold[<<t, "session">>] = Null
  BY <1>0 DEF Connect, Control, Within, Calls
<1>3. Core' /\ Kept
  BY <1>0, <1>1, <1>2, NewCore DEF Connect, cache
<1>4. /\ hold'[<<t, "session">>] = o
      /\ \A r \in Slots \ {"session"} : hold'[<<t, r>>] = hold[<<t, r>>]
      /\ \A u \in Threads \ {t}, r \in Slots : hold'[<<u, r>>] = hold[<<u, r>>]
  BY <1>0, <1>1, HoldAt DEF Take, SSL_SESSION_new
<1>5. Others(t) /\ Types'
  BY <1>0, <1>1, <1>4 DEF Connect, Goto, Call, Return, cache, Others, Types, Places, Slots
<1>6. Control(t)'
  BY <1>0, <1>1, <1>4, SessionCacheAssumption DEF Connect, Goto, Call, Return, cache, Control, Within, Calls, Types, Adding, session, Slots
<1> QED
  BY <1>3, <1>5, <1>6

(* FromCallback *)
LEMMA FromCallbackKeeps ==
  ASSUME IInv, NEW t \in Threads, FromCallback(t), ctx' = ctx
  PROVE  Core' /\ Kept /\ Others(t) /\ Types' /\ Control(t)'
<1>0. /\ Core /\ Types /\ Control(t) /\ hold \in Hold /\ "sess" \in Slots
      /\ \A s \in Slots : <<t, s>> \in Keys
  BY DEF IInv, Core, Keys, Slots
<1>1. PICK o \in Sessions, i \in Ids : SSL_SESSION_new(<<t, "sess">>, o, i)
  BY <1>0 DEF FromCallback, Types
<1>2. hold[<<t, "sess">>] = Null
  BY <1>0 DEF FromCallback, Control, Within, Calls
<1>3. Core' /\ Kept
  BY <1>0, <1>1, <1>2, NewCore DEF FromCallback, cache
<1>4. /\ hold'[<<t, "sess">>] = o
      /\ \A r \in Slots \ {"sess"} : hold'[<<t, r>>] = hold[<<t, r>>]
      /\ \A u \in Threads \ {t}, r \in Slots : hold'[<<u, r>>] = hold[<<u, r>>]
  BY <1>0, <1>1, HoldAt DEF Take, SSL_SESSION_new
<1>5. Others(t) /\ Types'
  BY <1>0, <1>1, <1>4 DEF FromCallback, Goto, Call, Return, cache, Others, Types, Places, Slots
<1>6. Control(t)'
  <2>1. obj'[o].id = i
    BY <1>0, <1>1 DEF SSL_SESSION_new, Core, Objects, Born
  <2> QED
    BY <1>0, <1>1, <1>4, <2>1, SessionCacheAssumption DEF FromCallback, Goto, Call, Return, cache, Control, Within, Calls, Types, Adding, session, Slots
<1> QED
  BY <1>3, <1>5, <1>6
(* Drop *)
LEMMA DropKeeps ==
  ASSUME IInv, NEW t \in Threads, Drop(t), ctx' = ctx
  PROVE  Core' /\ Kept /\ Others(t) /\ Types' /\ Control(t)'
<1>0. /\ Core /\ Types /\ Control(t) /\ hold \in Hold /\ "sess" \in Slots
      /\ \A s \in Slots : <<t, s>> \in Keys
  BY DEF IInv, Core, Keys, Slots
<1>1. PICK o \in Sessions : hold[<<t, "sess">>] = o
  BY <1>0 DEF Drop, Hold, Slots, Control, Within, Calls
<1>2. obj' = Less(obj, o) /\ hold' = [hold EXCEPT ![<<t, "sess">>] = Null] /\ table' = table
  BY <1>1, SessionCacheAssumption DEF Drop, SSL_SESSION_free, cache
<1>3. Core' /\ Kept
  <2>1. /\ obj \in Objects
        /\ \A p \in Sessions : obj[p].refs = obj[p].refs /\ obj[p].id = obj[p].id
    BY <1>0 DEF Core
  <2> QED
    BY <1>0, <1>1, <1>2, <2>1, FreeCore
<1>4. /\ hold'[<<t, "sess">>] = Null
      /\ \A r \in Slots \ {"sess"} : hold'[<<t, r>>] = hold[<<t, r>>]
      /\ \A u \in Threads \ {t}, r \in Slots : hold'[<<u, r>>] = hold[<<u, r>>]
  BY <1>0, <1>2, HoldAt
<1>5. Others(t) /\ Types'
  BY <1>0, <1>1, <1>4 DEF Drop, Control, Goto, Call, Return, cache, Others, Types, Places, Slots
<1>6. session(t)' = session(t) /\ session(t) \in Sessions => obj'[session(t)].id = obj[session(t)].id
  BY <1>0, <1>3, HeldKeepsId DEF session, Slots
<1>7. Control(t)'
  BY <1>0, <1>1, <1>4, <1>6, SessionCacheAssumption DEF Drop, Goto, Call, Return, cache, Control, Within, Calls, Types, Adding, session, Slots, Core, Hold
<1> QED
  BY <1>3, <1>5, <1>7

(* Close *)
LEMMA CloseKeeps ==
  ASSUME IInv, NEW t \in Threads, Close(t), ctx' = ctx
  PROVE  Core' /\ Kept /\ Others(t) /\ Types' /\ Control(t)'
<1>0. /\ Core /\ Types /\ Control(t) /\ hold \in Hold /\ "session" \in Slots
      /\ \A s \in Slots : <<t, s>> \in Keys
  BY DEF IInv, Core, Keys, Slots
<1>1. PICK o \in Sessions : hold[<<t, "session">>] = o
  BY <1>0 DEF Close, Hold, Slots, Control, Within, Calls
<1>2. obj' = Less(obj, o) /\ hold' = [hold EXCEPT ![<<t, "session">>] = Null] /\ table' = table
  BY <1>1, SessionCacheAssumption DEF Close, SSL_SESSION_free, cache
<1>3. Core' /\ Kept
  <2>1. /\ obj \in Objects
        /\ \A p \in Sessions : obj[p].refs = obj[p].refs /\ obj[p].id = obj[p].id
    BY <1>0 DEF Core
  <2> QED
    BY <1>0, <1>1, <1>2, <2>1, FreeCore
<1>4. /\ hold'[<<t, "session">>] = Null
      /\ \A r \in Slots \ {"session"} : hold'[<<t, r>>] = hold[<<t, r>>]
      /\ \A u \in Threads \ {t}, r \in Slots : hold'[<<u, r>>] = hold[<<u, r>>]
  BY <1>0, <1>2, HoldAt
<1>5. Others(t) /\ Types'
  BY <1>0, <1>1, <1>4 DEF Close, Control, Goto, Call, Return, cache, Others, Types, Places, Slots
<1>6. session(t)' = session(t) /\ session(t) \in Sessions => obj'[session(t)].id = obj[session(t)].id
  BY <1>0, <1>3, HeldKeepsId DEF session, Slots
<1>7. Control(t)'
  BY <1>0, <1>1, <1>4, <1>6, SessionCacheAssumption DEF Close, Goto, Call, Return, cache, Control, Within, Calls, Types, Adding, session, Slots, Core, Hold
<1> QED
  BY <1>3, <1>5, <1>7

(* Forget *)
LEMMA ForgetKeeps ==
  ASSUME IInv, NEW t \in Threads, Forget(t), ctx' = ctx
  PROVE  Core' /\ Kept /\ Others(t) /\ Types' /\ Control(t)'
<1>0. /\ Core /\ Types /\ Control(t) /\ hold \in Hold /\ "saved" \in Slots
      /\ \A s \in Slots : <<t, s>> \in Keys
  BY DEF IInv, Core, Keys, Slots
<1>1. PICK o \in Sessions : hold[<<t, "saved">>] = o
  BY <1>0 DEF Forget, Hold, Slots, Control, Within, Calls
<1>2. obj' = Less(obj, o) /\ hold' = [hold EXCEPT ![<<t, "saved">>] = Null] /\ table' = table
  BY <1>1, SessionCacheAssumption DEF Forget, SSL_SESSION_free, cache
<1>3. Core' /\ Kept
  <2>1. /\ obj \in Objects
        /\ \A p \in Sessions : obj[p].refs = obj[p].refs /\ obj[p].id = obj[p].id
    BY <1>0 DEF Core
  <2> QED
    BY <1>0, <1>1, <1>2, <2>1, FreeCore
<1>4. /\ hold'[<<t, "saved">>] = Null
      /\ \A r \in Slots \ {"saved"} : hold'[<<t, r>>] = hold[<<t, r>>]
      /\ \A u \in Threads \ {t}, r \in Slots : hold'[<<u, r>>] = hold[<<u, r>>]
  BY <1>0, <1>2, HoldAt
<1>5. Others(t) /\ Types'
  BY <1>0, <1>1, <1>4 DEF Forget, Control, Goto, Call, Return, cache, Others, Types, Places, Slots
<1>6. session(t)' = session(t) /\ session(t) \in Sessions => obj'[session(t)].id = obj[session(t)].id
  BY <1>0, <1>3, HeldKeepsId DEF session, Slots
<1>7. Control(t)'
  BY <1>0, <1>1, <1>4, <1>6, SessionCacheAssumption DEF Forget, Goto, Call, Return, cache, Control, Within, Calls, Types, Adding, session, Slots, Core, Hold
<1> QED
  BY <1>3, <1>5, <1>7

(* InsertAgain *)
LEMMA InsertAgainKeeps ==
  ASSUME IInv, NEW t \in Threads, InsertAgain(t), ctx' = ctx
  PROVE  Core' /\ Kept /\ Others(t) /\ Types' /\ Control(t)'
<1>0. /\ Core /\ Types /\ Control(t) /\ hold \in Hold /\ "add" \in Slots
      /\ \A s \in Slots : <<t, s>> \in Keys
  BY DEF IInv, Core, Keys, Slots
<1>1. PICK o \in Sessions : hold[<<t, "add">>] = o
  BY <1>0 DEF InsertAgain, Hold, Slots, Control, Within, Calls
<1>2. obj' = Less(obj, o) /\ hold' = [hold EXCEPT ![<<t, "add">>] = Null] /\ table' = table
  BY <1>1, SessionCacheAssumption DEF InsertAgain, SSL_SESSION_free, cache
<1>3. Core' /\ Kept
  <2>1. /\ obj \in Objects
        /\ \A p \in Sessions : obj[p].refs = obj[p].refs /\ obj[p].id = obj[p].id
    BY <1>0 DEF Core
  <2> QED
    BY <1>0, <1>1, <1>2, <2>1, FreeCore
<1>4. /\ hold'[<<t, "add">>] = Null
      /\ \A r \in Slots \ {"add"} : hold'[<<t, r>>] = hold[<<t, r>>]
      /\ \A u \in Threads \ {t}, r \in Slots : hold'[<<u, r>>] = hold[<<u, r>>]
  BY <1>0, <1>2, HoldAt
<1>5. Others(t) /\ Types'
  BY <1>0, <1>1, <1>4 DEF InsertAgain, Control, Goto, Call, Return, cache, Others, Types, Places, Slots
<1>6. session(t)' = session(t) /\ session(t) \in Sessions => obj'[session(t)].id = obj[session(t)].id
  BY <1>0, <1>3, HeldKeepsId DEF session, Slots
<1>7. Control(t)'
  BY <1>0, <1>1, <1>4, <1>6, SessionCacheAssumption DEF InsertAgain, Goto, Call, Return, cache, Control, Within, Calls, Types, Adding, session, Slots, Core, Hold
<1> QED
  BY <1>3, <1>5, <1>7

(* Removed *)
LEMMA RemovedKeeps ==
  ASSUME IInv, NEW t \in Threads, Removed(t), ctx' = ctx
  PROVE  Core' /\ Kept /\ Others(t) /\ Types' /\ Control(t)'
<1>0. /\ Core /\ Types /\ Control(t) /\ hold \in Hold /\ "r" \in Slots
      /\ \A s \in Slots : <<t, s>> \in Keys
  BY DEF IInv, Core, Keys, Slots
<1>1. PICK o \in Sessions : hold[<<t, "r">>] = o
  BY <1>0 DEF Removed, Hold, Slots, Control, Within, Calls
<1>2. obj' = Less([obj EXCEPT ![o].notResumable = TRUE], o) /\ hold' = [hold EXCEPT ![<<t, "r">>] = Null] /\ table' = table
  BY <1>1, SessionCacheAssumption DEF Removed, SSL_SESSION_free, cache
<1>3. Core' /\ Kept
  <2>1. /\ [obj EXCEPT ![o].notResumable = TRUE] \in Objects
        /\ \A p \in Sessions : [obj EXCEPT ![o].notResumable = TRUE][p].refs = obj[p].refs /\ [obj EXCEPT ![o].notResumable = TRUE][p].id = obj[p].id
    BY <1>0, <1>1 DEF Core, Objects
  <2> QED
    BY <1>0, <1>1, <1>2, <2>1, FreeCore
<1>4. /\ hold'[<<t, "r">>] = Null
      /\ \A r \in Slots \ {"r"} : hold'[<<t, r>>] = hold[<<t, r>>]
      /\ \A u \in Threads \ {t}, r \in Slots : hold'[<<u, r>>] = hold[<<u, r>>]
  BY <1>0, <1>2, HoldAt
<1>5. Others(t) /\ Types'
  BY <1>0, <1>1, <1>4 DEF Removed, Control, Goto, Call, Return, cache, Others, Types, Places, Slots
<1>6. session(t)' = session(t) /\ session(t) \in Sessions => obj'[session(t)].id = obj[session(t)].id
  BY <1>0, <1>3, HeldKeepsId DEF session, Slots
<1>7. Control(t)'
  BY <1>0, <1>1, <1>4, <1>6, SessionCacheAssumption DEF Removed, Goto, Call, Return, cache, Control, Within, Calls, Types, Adding, session, Slots, Core, Hold
<1> QED
  BY <1>3, <1>5, <1>7
(* Resume *)
LEMMA ResumeKeeps ==
  ASSUME IInv, NEW t \in Threads, Resume(t), ctx' = ctx
  PROVE  Core' /\ Kept /\ Others(t) /\ Types' /\ Control(t)'
<1>0. /\ Core /\ Types /\ Control(t) /\ hold \in Hold /\ "sess" \in Slots
      /\ \A s \in Slots : <<t, s>> \in Keys
  BY DEF IInv, Core, Keys, Slots
<1>1. PICK o \in Sessions : hold[<<t, "sess">>] = o
  BY <1>0 DEF Resume, Hold, Slots, Control, Within, Calls
<1>2. /\ hold[<<t, "session">>] = Null /\ obj' = obj /\ table' = table
      /\ hold' = [hold EXCEPT ![<<t, "sess">>] = Null, ![<<t, "session">>] = o]
  BY <1>0, <1>1 DEF Resume, cache, Control, Within, Calls
<1>3. Core' /\ Kept
  <2>1. <<t, "sess">> # <<t, "session">> /\ <<t, "session">> \in Keys
    BY DEF Keys, Slots
  <2> QED
    BY <1>0, <1>1, <1>2, <2>1, MoveCore
<1>4. /\ hold'[<<t, "sess">>] = Null /\ hold'[<<t, "session">>] = o
      /\ \A r \in Slots \ {"sess", "session"} : hold'[<<t, r>>] = hold[<<t, r>>]
      /\ \A u \in Threads \ {t}, r \in Slots : hold'[<<u, r>>] = hold[<<u, r>>]
  BY <1>0, <1>2 DEF Hold, Keys, Slots
<1>5. Others(t) /\ Types'
  BY <1>0, <1>4 DEF Resume, Goto, Call, Return, cache, Others, Types, Places, Slots
<1>7. Control(t)'
  BY <1>0, <1>1, <1>4, SessionCacheAssumption DEF Resume, Goto, Call, Return, cache, Control, Within, Calls, Types, Adding, session, Slots
<1> QED
  BY <1>3, <1>5, <1>7

(* Insert *)
LEMMA InsertKeeps ==
  ASSUME IInv, NEW t \in Threads, Insert(t), ctx' = ctx
  PROVE  Core' /\ Kept /\ Others(t) /\ Types' /\ Control(t)'
<1>0. /\ Core /\ Types /\ Control(t) /\ hold \in Hold /\ "add" \in Slots
      /\ \A s \in Slots : <<t, s>> \in Keys
  BY DEF IInv, Core, Keys, Slots
<1>1. PICK c \in Sessions : hold[<<t, "add">>] = c /\ obj[c].id # NoId
  BY <1>0 DEF Insert, Hold, Slots, Control
<1>2. Find(obj[c].id) = {} /\ obj' = obj /\ table' = table \cup {[key |-> obj[c].id, obj |-> c]}
  BY <1>1 DEF Insert
<1>3. Core' /\ Kept
  <2>1. hold' = [hold EXCEPT ![<<t, "add">>] = Null]
    BY DEF Insert
  <2> QED
    BY <1>0, <1>1, <1>2, <2>1, InsertCore
<1>4. /\ hold'[<<t, "add">>] = Null
      /\ \A r \in Slots \ {"add"} : hold'[<<t, r>>] = hold[<<t, r>>]
      /\ \A u \in Threads \ {t}, r \in Slots : hold'[<<u, r>>] = hold[<<u, r>>]
  BY <1>0, HoldAt DEF Insert
<1>5. Others(t) /\ Types'
  BY <1>0, <1>4 DEF Insert, Goto, Call, Return, cache, Others, Types, Places, Slots
<1>7. Control(t)'
  BY <1>0, <1>1, <1>4, SessionCacheAssumption DEF Insert, Goto, Call, Return, cache, Control, Within, Calls, Types, Adding, session, Slots
<1> QED
  BY <1>3, <1>5, <1>7

(* Replace *)
LEMMA ReplaceKeeps ==
  ASSUME IInv, NEW t \in Threads, Replace(t), ctx' = ctx
  PROVE  Core' /\ Kept /\ Others(t) /\ Types' /\ Control(t)'
<1>0. /\ Core /\ Types /\ Control(t) /\ hold \in Hold /\ "add" \in Slots
      /\ \A s \in Slots : <<t, s>> \in Keys
  BY DEF IInv, Core, Keys, Slots
<1>1. PICK c \in Sessions : hold[<<t, "add">>] = c
  BY <1>0 DEF Replace, Hold, Slots, Control
<1>2. PICK n \in Find(obj[c].id) :
        /\ n.obj # c /\ obj' = Less(obj, n.obj)
        /\ table' = (table \ {n}) \cup {[n EXCEPT !.obj = c]}
  BY <1>1 DEF Replace
<1>3. Core' /\ Kept
  <2>1. hold' = [hold EXCEPT ![<<t, "add">>] = Null]
    BY DEF Replace
  <2> QED
    BY <1>0, <1>1, <1>2, <2>1, ReplaceCore
<1>4. /\ hold'[<<t, "add">>] = Null
      /\ \A r \in Slots \ {"add"} : hold'[<<t, r>>] = hold[<<t, r>>]
      /\ \A u \in Threads \ {t}, r \in Slots : hold'[<<u, r>>] = hold[<<u, r>>]
  BY <1>0, HoldAt DEF Replace
<1>5. Others(t) /\ Types'
  BY <1>0, <1>4 DEF Replace, Goto, Call, Return, cache, Others, Types, Places, Slots
<1>6. session(t)' = session(t) /\ session(t) \in Sessions => obj'[session(t)].id = obj[session(t)].id
  BY <1>0, <1>3, HeldKeepsId DEF session, Slots
<1>7. Control(t)'
  BY <1>0, <1>1, <1>4, <1>6, SessionCacheAssumption DEF Replace, Goto, Call, Return, cache, Control, Within, Calls, Types, Adding, session, Slots, Core, Hold
<1> QED
  BY <1>3, <1>5, <1>7

(* Unlink *)
LEMMA UnlinkKeeps ==
  ASSUME IInv, NEW t \in Threads, Unlink(t), ctx' = ctx
  PROVE  Core' /\ Kept /\ Others(t) /\ Types' /\ Control(t)'
<1>0. /\ Core /\ Types /\ Control(t) /\ hold \in Hold /\ "r" \in Slots
      /\ \A s \in Slots : <<t, s>> \in Keys
  BY DEF IInv, Core, Keys, Slots
<1>1. PICK n \in table : n.obj = Removing(t)
  BY DEF Unlink, Evictable, FindSession, Find
<1>2. /\ hold[<<t, "r">>] = Null /\ obj' = obj /\ table' = table \ Find(obj[n.obj].id)
      /\ hold' = [hold EXCEPT ![<<t, "r">>] = n.obj]
  BY <1>0, <1>1 DEF Unlink, Control
<1>a. n.obj \in Sessions
  BY <1>0 DEF Core, Nodes
<1>3. Core' /\ Kept
  BY <1>0, <1>2, UnlinkCore
<1>4. /\ hold'[<<t, "r">>] = n.obj
      /\ \A r \in Slots \ {"r"} : hold'[<<t, r>>] = hold[<<t, r>>]
      /\ \A u \in Threads \ {t}, r \in Slots : hold'[<<u, r>>] = hold[<<u, r>>]
  BY <1>0, <1>2, HoldAt
<1>5. Others(t) /\ Types'
  BY <1>0, <1>4 DEF Unlink, Goto, Call, Return, cache, Others, Types, Places, Slots
<1>7. Control(t)'
  BY <1>0, <1>2, <1>a, <1>4, SessionCacheAssumption DEF Unlink, Goto, Call, Return, cache, Control, Within, Calls, Types, Adding, session, Slots
<1> QED
  BY <1>3, <1>5, <1>7

(* Evict *)
LEMMA EvictKeeps ==
  ASSUME IInv, NEW t \in Threads, Evict(t), ctx' = ctx
  PROVE  Core' /\ Kept /\ Others(t) /\ Types' /\ Control(t)'
<1>0. /\ Core /\ Types /\ Control(t) /\ hold \in Hold /\ "session" \in Slots
      /\ \A s \in Slots : <<t, s>> \in Keys
  BY DEF IInv, Core, Keys, Slots
<1>1. PICK n \in table : n.obj = list.tail /\ Uncache(n.obj)
  BY <1>0 DEF Evict, Evictable, FindSession, Find, Control
<1>2. hold' = hold /\ pc' = pc /\ then' = then /\ lock' = lock
  BY DEF Evict
<1>3. Core' /\ Kept /\ table' = table \ {n}
  BY <1>0, <1>1, <1>2, UncacheCore
<1>5. Others(t) /\ Types'
  <2>1. lock = t
    BY <1>0 DEF Evict, Control
  <2>2. ext' \subseteq Ids
    BY <1>0, <1>1 DEF Uncache, Types
  <2> QED
    BY <1>0, <1>2, <2>1, <2>2 DEF Evict, Others, Types
<1>6. session(t)' = session(t) /\ session(t) \in Sessions => obj'[session(t)].id = obj[session(t)].id
  BY <1>0, <1>3, HeldKeepsId DEF session, Slots
<1>7. Control(t)'
  BY <1>0, <1>1, <1>2, <1>3, <1>6, SessionCacheAssumption DEF Evict, Goto, Call, Return, cache, Control, Within, Calls, Types, Adding, session, Slots, Hold
<1> QED
  BY <1>3, <1>5, <1>7

(* FlushOne *)
LEMMA FlushOneKeeps ==
  ASSUME IInv, NEW t \in Threads, FlushOne(t), ctx' = ctx
  PROVE  Core' /\ Kept /\ Others(t) /\ Types' /\ Control(t)'
<1>0. /\ Core /\ Types /\ Control(t) /\ hold \in Hold /\ "session" \in Slots
      /\ \A s \in Slots : <<t, s>> \in Keys
  BY DEF IInv, Core, Keys, Slots
<1>1. PICK n \in table : n \in todo /\ Uncache(n.obj) /\ todo' = todo \ {n}
  BY <1>0 DEF FlushOne, Evictable, FindSession, Find, Control
<1>2. hold' = hold /\ pc' = pc /\ then' = then /\ lock' = lock
  BY DEF FlushOne
<1>3. Core' /\ Kept /\ table' = table \ {n}
  BY <1>0, <1>1, <1>2, UncacheCore
<1>5. Others(t) /\ Types'
  <2>1. lock = t
    BY <1>0 DEF FlushOne, Control
  <2>2. ext' \subseteq Ids
    BY <1>0, <1>1 DEF Uncache, Types
  <2> QED
    BY <1>0, <1>2, <2>1, <2>2 DEF FlushOne, Others, Types
<1>6. session(t)' = session(t) /\ session(t) \in Sessions => obj'[session(t)].id = obj[session(t)].id
  BY <1>0, <1>3, HeldKeepsId DEF session, Slots
<1>7. Control(t)'
  BY <1>0, <1>1, <1>2, <1>3, <1>6, SessionCacheAssumption DEF FlushOne, Goto, Call, Return, cache, Control, Within, Calls, Types, Adding, session, Slots, Hold
<1> QED
  BY <1>3, <1>5, <1>7

(* A ticket of a resumed session that is not renewed leaves its id alone.  *)
LEMMA FinishResumedKeeps ==
  ASSUME ~Renewals, IInv, NEW t \in Threads, FinishResumed(t), ctx' = ctx
  PROVE  Core' /\ Kept /\ Others(t) /\ Types' /\ Control(t)'
<1>0. Core /\ Types /\ Control(t) /\ hold \in Hold
  BY DEF IInv, Core
<1>1. obj' = [obj EXCEPT ![session(t)].id = obj[session(t)].id] /\ table' = table /\ hold' = hold
  BY DEF FinishResumed, RenewedIds, cache
<1>2. /\ obj' \in Objects
      /\ \A p \in Sessions : obj'[p].refs = obj[p].refs /\ obj'[p].id = obj[p].id
  BY <1>0, <1>1 DEF Core, Objects
<1>3. Core' /\ Kept
  BY <1>0, <1>1, <1>2, SameCore
<1>5. Others(t) /\ Types'
  BY <1>0, <1>1 DEF FinishResumed, Goto, Call, Return, cache, Others, Types, Places, Slots
<1>7. Control(t)'
  BY <1>0, <1>1, SessionCacheAssumption DEF FinishResumed, Goto, Call, Return, cache, Control, Within, Calls, Types, Adding, session, Slots
<1> QED
  BY <1>3, <1>5, <1>7

(* Time passes. *)
LEMMA ExpireKeeps ==
  ASSUME IInv, NEW o \in Sessions, Expire(o), ctx' = ctx
  PROVE  IInv'
<1>0. Core /\ Types
  BY DEF IInv
<1>1. obj' = [obj EXCEPT ![o].expired = TRUE] /\ UNCHANGED <<hold, table, list, lock, todo, ext, pc, then, hit>>
  BY DEF Expire, cache
<1>2. /\ obj' \in Objects
      /\ \A p \in Sessions : obj'[p].refs = obj[p].refs /\ obj'[p].id = obj[p].id
  BY <1>0, <1>1 DEF Core, Objects
<1>3. Core' /\ Kept
  BY <1>0, <1>1, <1>2, SameCore
<1>4. Types'
  BY <1>0, <1>1 DEF Types
<1>5. ASSUME NEW t \in Threads
      PROVE  Control(t)'
  <2>1. Control(t) /\ hold \in Hold /\ \A s \in Slots : <<t, s>> \in Keys
    BY <1>0 DEF IInv, Core, Keys
  <2> QED
    BY <1>1, <1>2, <2>1 DEF Control, Within, Calls, Adding, session, Hold, Slots
<1> QED
  BY <1>3, <1>4, <1>5 DEF IInv

------------------------------------------------------------------------------

LEMMA InvInit ==
  ASSUME Init
  PROVE  IInv
<1>1. Types /\ obj \in Objects /\ hold \in Hold /\ table = {}
  BY SessionCacheAssumption DEF Init, Types, Objects, Hold, Free, Places
<1>2. ASSUME NEW o \in Sessions
      PROVE  obj[o].refs = Count(hold, o) + Share(o)
  <2>1. Holders(hold, o) = {}
    BY SessionCacheAssumption DEF Init, Holders
  <2>2. Count(hold, o) = 0
    BY <2>1, FS_EmptySet DEF Count
  <2> QED
    BY <1>1, <2>2 DEF Init, Free, Share, Cached
<1>3. Core
  BY <1>1, <1>2 DEF Core
<1>4. ASSUME NEW t \in Threads
      PROVE  Control(t)
  <2>1. \A s \in Slots : hold[<<t, s>>] = Null
    BY DEF Init, Keys
  <2> QED
    BY <2>1, SessionCacheAssumption DEF Init, Control, Within, Calls, Slots
<1> QED
  BY <1>1, <1>3, <1>4 DEF IInv

(* What a step of one thread shows.                                        *)
LEMMA StepKeeps ==
  ASSUME ~Renewals, IInv, NEW t \in Threads, Step(t), ctx' = ctx
  PROVE  Core' /\ Kept /\ Others(t) /\ Types' /\ Control(t)'
<1>1. CASE Quiet(t)
  BY <1>1, QuietKeeps
<1>2. CASE FromCache(t)
  BY <1>2, FromCacheKeeps
<1>3. CASE FromCallback(t)
  BY <1>3, FromCallbackKeeps
<1>4. CASE Resume(t)
  BY <1>4, ResumeKeeps
<1>5. CASE Drop(t)
  BY <1>5, DropKeeps
<1>6. CASE New(t)
  BY <1>6, NewKeeps
<1>7. CASE Connect(t)
  BY <1>7, ConnectKeeps
<1>8. CASE ConnectWith(t)
  BY <1>8, ConnectWithKeeps
<1>9. CASE Save(t)
  BY <1>9, SaveKeeps
<1>10. CASE Forget(t)
  BY <1>10, ForgetKeeps
<1>11. CASE FinishResumed(t)
  BY <1>11, FinishResumedKeeps
<1>12. CASE Close(t)
  BY <1>12, CloseKeeps
<1>13. CASE AddReference(t)
  BY <1>13, AddReferenceKeeps
<1>14. CASE Insert(t)
  BY <1>14, InsertKeeps
<1>15. CASE Replace(t)
  BY <1>15, ReplaceKeeps
<1>16. CASE InsertAgain(t)
  BY <1>16, InsertAgainKeeps
<1>17. CASE Unlink(t)
  BY <1>17, UnlinkKeeps
<1>18. CASE Removed(t)
  BY <1>18, RemovedKeeps
<1>19. CASE Evict(t)
  BY <1>19, EvictKeeps
<1>20. CASE FlushOne(t)
  BY <1>20, FlushOneKeeps
<1> QED
  BY <1>1, <1>2, <1>3, <1>4, <1>5, <1>6, <1>7, <1>8, <1>9, <1>10, <1>11, <1>12, <1>13, <1>14, <1>15, <1>16, <1>17, <1>18, <1>19, <1>20 DEF Step, Locked, Quiet

LEMMA InvStep ==
  ASSUME ~Renewals, IInv, [Next]_vars
  PROVE  IInv'
<1>1. CASE UNCHANGED vars
  <2>1. Core' /\ Types'
    BY <1>1 DEF vars, IInv, Core, Types, Objects, Hold, Share, Cached, Count, Holders
  <2>2. \A t \in Threads : Control(t)'
    BY <1>1 DEF vars, IInv, Control, Within, Calls, Adding, session
  <2> QED
    BY <2>1, <2>2 DEF IInv
<1>2. ASSUME NEW o \in Sessions, Expire(o), ctx' = ctx
      PROVE  IInv'
  BY <1>2, ExpireKeeps
<1>3. ASSUME NEW t \in Threads, Step(t), ctx' = ctx
      PROVE  IInv'
  <2>1. Core' /\ Kept /\ Others(t) /\ Types' /\ Control(t)'
    BY <1>3, StepKeeps
  <2>2. \A u \in Threads \ {t} : Control(u)'
    BY <2>1, OthersKeep
  <2> QED
    BY <2>1, <2>2 DEF IInv
<1> QED
  BY <1>1, <1>2, <1>3 DEF Next

THEOREM InvAlways == ASSUME ~Renewals PROVE Spec => []IInv
<1>1. Init => IInv
  BY InvInit
<1>2. IInv /\ [Next]_vars => IInv'
  BY InvStep
<1> QED
  BY <1>1, <1>2, PTL DEF Spec

(* Without ticket renewal the variables keep their types.                  *)
THEOREM TypesHold == ASSUME ~Renewals PROVE Spec => []TypeOK
<1>1. IInv => TypeOK
  BY DEF IInv, Types, Core, Objects, Hold, TypeOK
<1> QED
  BY <1>1, InvAlways, PTL

(* Without ticket renewal the reference count of every session is exactly  *)
(* the number of variables and cache entries that own a reference to it:   *)
(* no thread ever has a session whose memory another one has freed, and a  *)
(* session nobody points to is free (SSL_SESSION_free and the callers of   *)
(* CRYPTO_add in ssl_sess.c).                                              *)
THEOREM ReferencesExact == ASSUME ~Renewals PROVE Spec => []RefsExact
<1>1. IInv => RefsExact
  BY DEF IInv, Core, RefsExact, Count, Holders, Share
<1> QED
  BY <1>1, InvAlways, PTL

(* Without ticket renewal a thread that holds the lock is where the code   *)
(* holds it, and no two are there at once (CRYPTO_LOCK_SSL_CTX around the  *)
(* eviction of SSL_CTX_add_session and the walk of SSL_CTX_flush_sessions).*)
THEOREM LockExcludes ==
  ASSUME ~Renewals
  PROVE  Spec => [](\A t, u \in Threads :
                      pc[t] \in {"evict", "walk"} /\ pc[u] \in {"evict", "walk"} => t = u)
<1>1. IInv => \A t, u \in Threads :
                pc[t] \in {"evict", "walk"} /\ pc[u] \in {"evict", "walk"} => t = u
  BY DEF IInv, Control
<1> QED
  BY <1>1, InvAlways, PTL

------------------------------------------------------------------------------
(* The list.                                                               *)

Lists == [head : Sessions \cup {Null}, tail : Sessions \cup {Null},
          next : [Sessions -> Sessions \cup {Null, Tail}],
          prev : [Sessions -> Sessions \cup {Null, Head}]]

\* The list l holds q[1] to q[n], in this order, and nothing else.
Row(l, n, q) ==
  /\ l \in Lists /\ n \in Nat /\ q \in [1 .. n -> Sessions]
  /\ \A i, j \in 1 .. n : q[i] = q[j] => i = j
  /\ n = 0 => l.head = Null /\ l.tail = Null
  /\ n > 0 => l.head = q[1] /\ l.tail = q[n]
  /\ \A i \in 1 .. n : /\ l.next[q[i]] = IF i = n THEN Tail ELSE q[i + 1]
                       /\ l.prev[q[i]] = IF i = 1 THEN Head ELSE q[i - 1]
  /\ \A o \in Sessions : (\A i \in 1 .. n : q[i] # o) => l.next[o] = Null /\ l.prev[o] = Null

Members(q, n) == {q[i] : i \in 1 .. n}
Without(q, n, k) == [i \in 1 .. n - 1 |-> IF i < k THEN q[i] ELSE q[i + 1]]
With(q, n, s) == [i \in 1 .. n + 1 |-> IF i = 1 THEN s ELSE q[i - 1]]

(* What is left when one session is taken out of a row.                    *)
LEMMA WithoutIs ==
  ASSUME NEW n \in Nat, NEW q \in [1 .. n -> Sessions], NEW k \in 1 .. n,
         \A i, j \in 1 .. n : q[i] = q[j] => i = j
  PROVE  /\ n - 1 \in Nat /\ Without(q, n, k) \in [1 .. n - 1 -> Sessions]
         /\ \A i \in 1 .. n - 1 : Without(q, n, k)[i] = IF i < k THEN q[i] ELSE q[i + 1]
         /\ \A i, j \in 1 .. n - 1 : Without(q, n, k)[i] = Without(q, n, k)[j] => i = j
         /\ Members(Without(q, n, k), n - 1) = Members(q, n) \ {q[k]}
<1> DEFINE r == Without(q, n, k)
<1>1. n - 1 \in Nat
  OBVIOUS
<1>2. \A i \in 1 .. n - 1 : /\ i \in 1 .. n /\ i + 1 \in 1 .. n
                            /\ r[i] = IF i < k THEN q[i] ELSE q[i + 1]
  BY DEF Without
<1>3. r \in [1 .. n - 1 -> Sessions]
  BY <1>2 DEF Without
<1>4. \A i, j \in 1 .. n - 1 : r[i] = r[j] => i = j
  <2> TAKE i, j \in 1 .. n - 1
  <2> QED
    BY <1>2
<1>5. ASSUME NEW i \in 1 .. n - 1
      PROVE  r[i] \in {q[j] : j \in 1 .. n} \ {q[k]}
  <2>1. CASE i < k
    BY <1>2, <2>1
  <2>2. CASE ~(i < k)
    <3>1. i + 1 # k /\ i + 1 \in 1 .. n /\ r[i] = q[i + 1]
      BY <1>2, <2>2
    <3> QED
      BY <3>1
  <2> QED
    BY <2>1, <2>2
<1>6. ASSUME NEW j \in 1 .. n, q[j] # q[k]
      PROVE  \E i \in 1 .. n - 1 : r[i] = q[j]
  <2>1. j < k \/ j > k
    BY <1>6
  <2>2. CASE j < k
    <3>1. j \in 1 .. n - 1
      BY <2>2
    <3> QED
      BY <1>2, <2>2, <3>1
  <2>3. CASE j > k
    <3>1. j - 1 \in 1 .. n - 1 /\ ~(j - 1 < k) /\ (j - 1) + 1 = j
      BY <2>3
    <3>2. r[j - 1] = q[j]
      BY <1>2, <3>1
    <3> QED
      BY <3>1, <3>2
  <2> QED
    BY <2>1, <2>2, <2>3
<1> HIDE DEF r
<1>7. {r[i] : i \in 1 .. n - 1} = {q[i] : i \in 1 .. n} \ {q[k]}
  BY <1>5, <1>6
<1> QED
  BY <1>1, <1>2, <1>3, <1>4, <1>7 DEF r, Members

(* And when one is put in front.                                           *)
LEMMA WithIs ==
  ASSUME NEW n \in Nat, NEW q \in [1 .. n -> Sessions], NEW s \in Sessions,
         \A i, j \in 1 .. n : q[i] = q[j] => i = j,
         \A i \in 1 .. n : q[i] # s
  PROVE  /\ n + 1 \in Nat /\ With(q, n, s) \in [1 .. n + 1 -> Sessions]
         /\ \A i \in 1 .. n + 1 : With(q, n, s)[i] = IF i = 1 THEN s ELSE q[i - 1]
         /\ \A i, j \in 1 .. n + 1 : With(q, n, s)[i] = With(q, n, s)[j] => i = j
         /\ Members(With(q, n, s), n + 1) = Members(q, n) \cup {s}
<1> DEFINE r == With(q, n, s)
<1>1. n + 1 \in Nat /\ 1 \in 1 .. n + 1
  OBVIOUS
<1>2. \A i \in 1 .. n + 1 : /\ i # 1 => i - 1 \in 1 .. n
                            /\ r[i] = IF i = 1 THEN s ELSE q[i - 1]
  BY DEF With
<1>3. r \in [1 .. n + 1 -> Sessions]
  BY <1>2 DEF With
<1>4. \A i, j \in 1 .. n + 1 : r[i] = r[j] => i = j
  <2> TAKE i, j \in 1 .. n + 1
  <2> QED
    BY <1>2
<1>5. ASSUME NEW i \in 1 .. n + 1
      PROVE  r[i] \in {q[j] : j \in 1 .. n} \cup {s}
  BY <1>2
<1>6. ASSUME NEW j \in 1 .. n
      PROVE  \E i \in 1 .. n + 1 : r[i] = q[j]
  <2>1. j + 1 \in 1 .. n + 1 /\ j + 1 # 1 /\ (j + 1) - 1 = j
    OBVIOUS
  <2>2. r[j + 1] = q[j]
    BY <1>2, <2>1
  <2> QED
    BY <2>1, <2>2
<1>7. r[1] = s
  BY <1>1, <1>2
<1> HIDE DEF r
<1>8. {r[i] : i \in 1 .. n + 1} = {q[i] : i \in 1 .. n} \cup {s}
  BY <1>1, <1>5, <1>6, <1>7
<1> QED
  BY <1>1, <1>2, <1>3, <1>4, <1>8 DEF r, Members

(* SSL_SESSION_list_remove takes a session out of its place.               *)
LEMMA RemoveRow ==
  ASSUME NEW l, NEW n, NEW q, Row(l, n, q), NEW k \in 1 .. n
  PROVE  Row(SSL_SESSION_list_remove(l, q[k]), n - 1, Without(q, n, k))
<1> DEFINE s == q[k]
           m == SSL_SESSION_list_remove(l, s)
           r == Without(q, n, k)
<1>1. /\ l \in Lists /\ n \in Nat /\ q \in [1 .. n -> Sessions] /\ s \in Sessions
      /\ \A i, j \in 1 .. n : q[i] = q[j] => i = j
      /\ n > 0 /\ l.head = q[1] /\ l.tail = q[n]
      /\ \A i \in 1 .. n : /\ l.next[q[i]] = IF i = n THEN Tail ELSE q[i + 1]
                           /\ l.prev[q[i]] = IF i = 1 THEN Head ELSE q[i - 1]
  <2>1. /\ l \in Lists /\ n \in Nat /\ q \in [1 .. n -> Sessions]
        /\ \A i, j \in 1 .. n : q[i] = q[j] => i = j
        /\ \A i \in 1 .. n : /\ l.next[q[i]] = IF i = n THEN Tail ELSE q[i + 1]
                             /\ l.prev[q[i]] = IF i = 1 THEN Head ELSE q[i - 1]
    BY DEF Row
  <2>2. n > 0 /\ s \in Sessions
    BY <2>1
  <2>3. l.head = q[1] /\ l.tail = q[n]
    BY <2>2 DEF Row
  <2> QED
    BY <2>1, <2>2, <2>3
<1>2. /\ n - 1 \in Nat /\ r \in [1 .. n - 1 -> Sessions]
      /\ \A i \in 1 .. n - 1 : r[i] = IF i < k THEN q[i] ELSE q[i + 1]
      /\ \A i, j \in 1 .. n - 1 : r[i] = r[j] => i = j
      /\ Members(r, n - 1) = Members(q, n) \ {s}
  <2>1. n \in Nat /\ q \in [1 .. n -> Sessions] /\ \A i, j \in 1 .. n : q[i] = q[j] => i = j
    BY <1>1
  <2> QED
    BY <2>1, WithoutIs
<1>3. \A o \in Sessions : o # Head /\ o # Tail /\ o # Null
  BY SessionCacheAssumption
<1>4. Head # Null /\ Tail # Null
  BY SessionCacheAssumption
<1>5. /\ l.next[s] = Tail <=> k = n
      /\ l.prev[s] = Head <=> k = 1
      /\ l.next[s] # Null /\ l.prev[s] # Null
      /\ k # n => l.next[s] = q[k + 1] /\ q[k + 1] \in Sessions
      /\ k # 1 => l.prev[s] = q[k - 1] /\ q[k - 1] \in Sessions
  <2>1. /\ k # n => k + 1 \in 1 .. n
        /\ k # 1 => k - 1 \in 1 .. n
    BY <1>1
  <2> QED
    BY <1>1, <1>3, <1>4, <2>1
<1> DEFINE next == [o \in Sessions |-> IF o = s THEN Null
                                       ELSE IF k # 1 /\ o = q[k - 1] THEN l.next[s]
                                       ELSE l.next[o]]
           prev == [o \in Sessions |-> IF o = s THEN Null
                                       ELSE IF k # n /\ o = q[k + 1] THEN l.prev[s]
                                       ELSE l.prev[o]]
<1>6. /\ k # 1 => q[k - 1] # s
      /\ k # n => q[k + 1] # s
  <2>1. /\ k # n => k + 1 \in 1 .. n /\ k + 1 # k
        /\ k # 1 => k - 1 \in 1 .. n /\ k - 1 # k
    BY <1>1
  <2> QED
    BY <1>1, <2>1
<1>7. /\ l.next \in [Sessions -> Sessions \cup {Null, Tail}]
      /\ l.prev \in [Sessions -> Sessions \cup {Null, Head}]
      /\ l.head \in Sessions \cup {Null} /\ l.tail \in Sessions \cup {Null}
  BY <1>1 DEF Lists
<1>8. m = [head |-> IF k = 1 THEN IF n = 1 THEN Null ELSE q[2] ELSE l.head,
           tail |-> IF k = n THEN IF n = 1 THEN Null ELSE q[n - 1] ELSE l.tail,
           next |-> next, prev |-> prev]
  <2>1. CASE k = n /\ k = 1
    <3>1. m = [head |-> Null, tail |-> Null, next |-> [l.next EXCEPT ![s] = Null],
               prev |-> [l.prev EXCEPT ![s] = Null]]
      BY <1>5, <2>1 DEF SSL_SESSION_list_remove
    <3>2. [l.next EXCEPT ![s] = Null] = next /\ [l.prev EXCEPT ![s] = Null] = prev
      BY <1>7, <2>1
    <3> QED
      BY <3>1, <3>2, <2>1
  <2>2. CASE k = n /\ k # 1
    <3>1. m = [head |-> l.head, tail |-> l.prev[s],
               next |-> [[l.next EXCEPT ![s] = Null] EXCEPT ![l.prev[s]] = Tail],
               prev |-> [l.prev EXCEPT ![s] = Null]]
      BY <1>5, <2>2 DEF SSL_SESSION_list_remove
    <3>2. /\ [[l.next EXCEPT ![s] = Null] EXCEPT ![l.prev[s]] = Tail] = next
          /\ [l.prev EXCEPT ![s] = Null] = prev
      BY <1>1, <1>5, <1>6, <1>7, <2>2
    <3>3. l.prev[s] = q[n - 1] /\ n # 1
      BY <1>5, <2>2
    <3> QED
      BY <3>1, <3>2, <3>3, <2>2
  <2>3. CASE k # n /\ k = 1
    <3>1. m = [head |-> l.next[s], tail |-> l.tail, next |-> [l.next EXCEPT ![s] = Null],
               prev |-> [[l.prev EXCEPT ![s] = Null] EXCEPT ![l.next[s]] = Head]]
      BY <1>5, <2>3 DEF SSL_SESSION_list_remove
    <3>2. /\ [l.next EXCEPT ![s] = Null] = next
          /\ [[l.prev EXCEPT ![s] = Null] EXCEPT ![l.next[s]] = Head] = prev
      BY <1>1, <1>5, <1>6, <1>7, <2>3
    <3>3. l.next[s] = q[2] /\ n # 1
      BY <1>5, <2>3
    <3> QED
      BY <3>1, <3>2, <3>3, <2>3
  <2>4. CASE k # n /\ k # 1
    <3>1. m = [head |-> l.head, tail |-> l.tail,
               next |-> [[l.next EXCEPT ![s] = Null] EXCEPT ![l.prev[s]] = l.next[s]],
               prev |-> [[l.prev EXCEPT ![s] = Null] EXCEPT ![l.next[s]] = l.prev[s]]]
      BY <1>5, <2>4 DEF SSL_SESSION_list_remove
    <3>2. /\ [[l.next EXCEPT ![s] = Null] EXCEPT ![l.prev[s]] = l.next[s]] = next
          /\ [[l.prev EXCEPT ![s] = Null] EXCEPT ![l.next[s]] = l.prev[s]] = prev
      BY <1>1, <1>5, <1>6, <1>7, <2>4
    <3> QED
      BY <3>1, <3>2, <2>4
  <2> QED
    BY <2>1, <2>2, <2>3, <2>4
<1> HIDE DEF m, r
<1>9. m \in Lists
  <2>1. /\ n # 1 => q[2] \in Sessions /\ q[n - 1] \in Sessions
        /\ next \in [Sessions -> Sessions \cup {Null, Tail}]
        /\ prev \in [Sessions -> Sessions \cup {Null, Head}]
    <3>1. n # 1 => 2 \in 1 .. n /\ n - 1 \in 1 .. n
      BY <1>1
    <3> QED
      BY <1>1, <1>7, <3>1
  <2> HIDE DEF next, prev
  <2> QED
    BY <1>7, <1>8, <2>1 DEF Lists
<1>10. /\ m.next = next /\ m.prev = prev
       /\ m.head = IF k = 1 THEN IF n = 1 THEN Null ELSE q[2] ELSE l.head
       /\ m.tail = IF k = n THEN IF n = 1 THEN Null ELSE q[n - 1] ELSE l.tail
  BY <1>8
<1>11. /\ n - 1 = 0 => m.head = Null /\ m.tail = Null
       /\ n - 1 > 0 => m.head = r[1] /\ m.tail = r[n - 1]
  <2>1. CASE n = 1
    BY <1>10, <2>1
  <2>2. CASE n # 1
    <3>1. 1 \in 1 .. n - 1 /\ n - 1 \in 1 .. n - 1 /\ (n - 1) + 1 = n /\ 1 + 1 = 2
      BY <1>1, <2>2
    <3>2. m.head = r[1]
      BY <1>1, <1>2, <1>10, <2>2, <3>1
    <3>3. m.tail = r[n - 1]
      BY <1>1, <1>2, <1>10, <2>2, <3>1
    <3> QED
      BY <3>2, <3>3, <2>2, <1>1
  <2> QED
    BY <2>1, <2>2
<1>12. ASSUME NEW i \in 1 .. n - 1
       PROVE  /\ m.next[r[i]] = IF i = n - 1 THEN Tail ELSE r[i + 1]
              /\ m.prev[r[i]] = IF i = 1 THEN Head ELSE r[i - 1]
  <2>1. i \in 1 .. n /\ i + 1 \in 1 .. n /\ i \in Nat /\ k \in Nat /\ n \in Nat
    BY <1>1
  <2>2. CASE i < k
    <3>1. r[i] = q[i] /\ r[i] \in Sessions /\ r[i] # s
      <4>1. r[i] = q[i]
        BY <1>2, <2>2
      <4>2. q[i] \in Sessions
        BY <1>1, <2>1
      <4>3. i # k
        BY <2>1, <2>2
      <4>4. q[i] # q[k]
        BY <1>1, <2>1, <4>3
      <4> QED
        BY <4>1, <4>2, <4>4
    <3>2. k # 1 /\ k - 1 \in 1 .. n /\ (r[i] = q[k - 1] <=> i = k - 1)
      BY <1>1, <2>1, <2>2, <3>1
    <3>3. k # n => k + 1 \in 1 .. n /\ r[i] # q[k + 1]
      BY <1>1, <2>1, <2>2, <3>1
    <3>4. /\ m.next[r[i]] = IF i = k - 1 THEN l.next[s] ELSE l.next[q[i]]
          /\ m.prev[r[i]] = l.prev[q[i]]
      BY <1>10, <3>1, <3>2, <3>3
    <3>5. m.prev[r[i]] = IF i = 1 THEN Head ELSE r[i - 1]
      <4>1. i # 1 => i - 1 \in 1 .. n - 1 /\ i - 1 < k
        BY <2>1, <2>2
      <4> QED
        BY <1>1, <1>2, <2>1, <3>4, <4>1
    <3>6. m.next[r[i]] = IF i = n - 1 THEN Tail ELSE r[i + 1]
      <4>1. i # n - 1 => i + 1 \in 1 .. n - 1
        BY <2>1
      <4>2. CASE i = k - 1
        <5>1. m.next[r[i]] = l.next[s] /\ i + 1 = k
          BY <3>4, <4>2, <2>1
        <5>2. i = n - 1 <=> k = n
          BY <5>1, <2>1
        <5>3. i # n - 1 => r[i + 1] = q[k + 1]
          BY <1>2, <4>1, <5>1, <2>1
        <5> QED
          BY <1>5, <5>1, <5>2, <5>3
      <4>3. CASE i # k - 1
        <5>1. i + 1 < k /\ i # n - 1 /\ i # n
          BY <4>3, <2>1, <2>2
        <5> QED
          BY <1>1, <1>2, <2>1, <3>4, <4>1, <4>3, <5>1
      <4> QED
        BY <4>2, <4>3
    <3> QED
      BY <3>5, <3>6
  <2>3. CASE ~(i < k)
    <3>1. r[i] = q[i + 1] /\ r[i] \in Sessions /\ r[i] # s
      <4>1. r[i] = q[i + 1]
        BY <1>2, <2>3
      <4>2. q[i + 1] \in Sessions
        BY <1>1, <2>1
      <4>3. i + 1 # k
        BY <2>1, <2>3
      <4>4. q[i + 1] # q[k]
        BY <1>1, <2>1, <4>3
      <4> QED
        BY <4>1, <4>2, <4>4
    <3>2. k # n /\ k + 1 \in 1 .. n /\ (r[i] = q[k + 1] <=> i = k)
      BY <1>1, <2>1, <2>3, <3>1
    <3>3. k # 1 => k - 1 \in 1 .. n /\ r[i] # q[k - 1]
      BY <1>1, <2>1, <2>3, <3>1
    <3>4. /\ m.next[r[i]] = l.next[q[i + 1]]
          /\ m.prev[r[i]] = IF i = k THEN l.prev[s] ELSE l.prev[q[i + 1]]
      BY <1>10, <3>1, <3>2, <3>3
    <3>5. m.next[r[i]] = IF i = n - 1 THEN Tail ELSE r[i + 1]
      <4>1. i # n - 1 => i + 1 \in 1 .. n - 1 /\ ~(i + 1 < k)
        BY <2>1, <2>3
      <4>2. i + 1 = n <=> i = n - 1
        BY <2>1
      <4> QED
        BY <1>1, <1>2, <2>1, <3>4, <4>1, <4>2
    <3>6. m.prev[r[i]] = IF i = 1 THEN Head ELSE r[i - 1]
      <4>1. i # 1 => i - 1 \in 1 .. n - 1 /\ (i - 1) + 1 = i
        BY <2>1
      <4>2. CASE i = k
        <5>1. m.prev[r[i]] = l.prev[s] /\ i - 1 < k
          BY <3>4, <4>2, <2>1
        <5>2. i # 1 => r[i - 1] = q[k - 1]
          BY <1>2, <4>1, <4>2, <5>1
        <5> QED
          BY <1>5, <5>1, <5>2, <4>2
      <4>3. CASE i # k
        <5>1. i # 1 /\ ~(i - 1 < k) /\ i + 1 # 1 /\ (i + 1) - 1 = i
          BY <4>3, <2>1, <2>3
        <5>2. r[i - 1] = q[i]
          BY <1>2, <4>1, <5>1
        <5>3. l.prev[q[i + 1]] = q[i]
          BY <1>1, <2>1, <5>1
        <5> QED
          BY <3>4, <4>3, <5>1, <5>2, <5>3
      <4> QED
        BY <4>2, <4>3
    <3> QED
      BY <3>5, <3>6
  <2> QED
    BY <2>2, <2>3
<1>13. ASSUME NEW o \in Sessions, \A i \in 1 .. n - 1 : r[i] # o
       PROVE  m.next[o] = Null /\ m.prev[o] = Null
  <2>1. CASE o = s
    BY <1>10, <2>1
  <2>2. CASE o # s
    <3>1. ASSUME NEW i \in 1 .. n, q[i] = o PROVE FALSE
      <4>1. o \in {r[j] : j \in 1 .. n - 1}
        BY <1>2, <2>2, <3>1 DEF Members
      <4> QED
        BY <4>1, <1>13
    <3>2. l.next[o] = Null /\ l.prev[o] = Null
      BY <3>1 DEF Row
    <3>3. /\ k # 1 => k - 1 \in 1 .. n
          /\ k # n => k + 1 \in 1 .. n
      BY <1>1
    <3> QED
      BY <1>10, <2>2, <3>1, <3>2, <3>3
  <2> QED
    BY <2>1, <2>2
<1> QED
  BY <1>2, <1>9, <1>11, <1>12, <1>13 DEF Row, m, r

(* SSL_SESSION_list_add puts one that is not there in front.               *)
LEMMA AddRow ==
  ASSUME NEW l, NEW n, NEW q, Row(l, n, q), NEW s \in Sessions, s \notin Members(q, n)
  PROVE  Row(SSL_SESSION_list_add(l, s), n + 1, With(q, n, s))
<1> DEFINE m == SSL_SESSION_list_add(l, s)
           r == With(q, n, s)
<1>1. /\ l \in Lists /\ n \in Nat /\ q \in [1 .. n -> Sessions]
      /\ \A i, j \in 1 .. n : q[i] = q[j] => i = j
      /\ n = 0 => l.head = Null /\ l.tail = Null
      /\ n > 0 => l.head = q[1] /\ l.tail = q[n]
      /\ \A i \in 1 .. n : /\ l.next[q[i]] = IF i = n THEN Tail ELSE q[i + 1]
                           /\ l.prev[q[i]] = IF i = 1 THEN Head ELSE q[i - 1]
  BY DEF Row
<1>2. \A i \in 1 .. n : q[i] # s
  BY DEF Members
<1>3. /\ n + 1 \in Nat /\ r \in [1 .. n + 1 -> Sessions]
      /\ \A i \in 1 .. n + 1 : r[i] = IF i = 1 THEN s ELSE q[i - 1]
      /\ \A i, j \in 1 .. n + 1 : r[i] = r[j] => i = j
      /\ Members(r, n + 1) = Members(q, n) \cup {s}
  BY <1>1, <1>2, WithIs
<1>4. l.next[s] = Null /\ l.prev[s] = Null
  BY <1>2 DEF Row
<1>5. SSL_SESSION_list_remove(l, s) = l
  BY <1>4 DEF SSL_SESSION_list_remove
<1>6. /\ \A o \in Sessions : o # Null
      /\ Null \notin Sessions
  BY SessionCacheAssumption
<1>7. l.head = Null <=> n = 0
  <2>1. n # 0 => 1 \in 1 .. n
    BY <1>1
  <2> QED
    BY <1>1, <1>6, <2>1
<1>8. /\ l.next \in [Sessions -> Sessions \cup {Null, Tail}]
      /\ l.prev \in [Sessions -> Sessions \cup {Null, Head}]
      /\ l.head \in Sessions \cup {Null} /\ l.tail \in Sessions \cup {Null}
  BY <1>1 DEF Lists
<1> DEFINE next == [o \in Sessions |-> IF o = s THEN IF n = 0 THEN Tail ELSE q[1] ELSE l.next[o]]
           prev == [o \in Sessions |-> IF o = s THEN Head
                                       ELSE IF n # 0 /\ o = q[1] THEN s
                                       ELSE l.prev[o]]
<1>9. n # 0 => q[1] \in Sessions /\ q[1] # s
  <2>1. n # 0 => 1 \in 1 .. n
    BY <1>1
  <2> QED
    BY <1>1, <1>2, <2>1
<1>10. m = [head |-> s, tail |-> IF n = 0 THEN s ELSE l.tail, next |-> next, prev |-> prev]
  <2>1. CASE n = 0
    <3>1. m = [head |-> s, tail |-> s, next |-> [l.next EXCEPT ![s] = Tail],
               prev |-> [l.prev EXCEPT ![s] = Head]]
      BY <1>5, <1>7, <2>1 DEF SSL_SESSION_list_add
    <3>2. [l.next EXCEPT ![s] = Tail] = next /\ [l.prev EXCEPT ![s] = Head] = prev
      BY <1>8, <2>1
    <3> QED
      BY <3>1, <3>2, <2>1
  <2>2. CASE n # 0
    <3>1. m = [head |-> s, tail |-> l.tail, next |-> [l.next EXCEPT ![s] = l.head],
               prev |-> [l.prev EXCEPT ![s] = Head, ![l.head] = s]]
      BY <1>5, <1>7, <2>2 DEF SSL_SESSION_list_add
    <3>2. l.head = q[1]
      BY <1>1, <2>2
    <3>3. /\ [l.next EXCEPT ![s] = l.head] = next
          /\ [l.prev EXCEPT ![s] = Head, ![l.head] = s] = prev
      BY <1>8, <1>9, <2>2, <3>2
    <3> QED
      BY <3>1, <3>3, <2>2
  <2> QED
    BY <2>1, <2>2
<1> HIDE DEF m, r
<1>11. /\ m.head = s /\ m.tail = IF n = 0 THEN s ELSE l.tail
       /\ m.next = next /\ m.prev = prev
  BY <1>10
<1>12. m \in Lists
  <2>1. /\ next \in [Sessions -> Sessions \cup {Null, Tail}]
        /\ prev \in [Sessions -> Sessions \cup {Null, Head}]
    BY <1>8, <1>9
  <2> HIDE DEF next, prev
  <2> QED
    BY <1>8, <1>10, <2>1 DEF Lists
<1>13. n + 1 > 0 /\ m.head = r[1] /\ m.tail = r[n + 1]
  <2>1. 1 \in 1 .. n + 1 /\ n + 1 \in 1 .. n + 1 /\ (n + 1) - 1 = n /\ (n + 1 = 1 <=> n = 0)
    BY <1>1
  <2>2. r[1] = s /\ r[n + 1] = IF n = 0 THEN s ELSE q[n]
    BY <1>3, <2>1
  <2>3. m.tail = r[n + 1]
    <3>1. CASE n = 0
      BY <1>11, <2>2, <3>1
    <3>2. CASE n # 0
      <4>1. l.tail = q[n]
        BY <1>1, <3>2
      <4> QED
        BY <1>11, <2>2, <3>2, <4>1
    <3> QED
      BY <3>1, <3>2
  <2> QED
    BY <1>1, <1>11, <2>2, <2>3
<1>14. ASSUME NEW i \in 1 .. n + 1
       PROVE  /\ m.next[r[i]] = IF i = n + 1 THEN Tail ELSE r[i + 1]
              /\ m.prev[r[i]] = IF i = 1 THEN Head ELSE r[i - 1]
  <2>1. i # n + 1 => i + 1 \in 1 .. n + 1 /\ i + 1 # 1 /\ (i + 1) - 1 = i /\ i \in 1 .. n
    BY <1>1
  <2>2. i # n + 1 => r[i + 1] = q[i]
    BY <1>3, <2>1
  <2>3. CASE i = 1
    <3>1. r[i] = s /\ (i = n + 1 <=> n = 0)
      BY <1>1, <1>3, <2>3
    <3> QED
      BY <1>11, <2>2, <2>3, <3>1
  <2>4. CASE i # 1
    <3>1. /\ i - 1 \in 1 .. n /\ n # 0 /\ 1 \in 1 .. n /\ (i - 1) + 1 = i
          /\ i - 1 \in 1 .. n + 1
      BY <1>1, <2>4
    <3>2. r[i] = q[i - 1] /\ q[i - 1] \in Sessions /\ q[i - 1] # s
      BY <1>1, <1>2, <1>3, <2>4, <3>1
    <3>3. q[i - 1] = q[1] <=> i = 2
      BY <1>1, <2>4, <3>1
    <3>4. /\ m.next[r[i]] = l.next[q[i - 1]]
          /\ m.prev[r[i]] = IF i = 2 THEN s ELSE l.prev[q[i - 1]]
      BY <1>11, <3>1, <3>2, <3>3
    <3>5. m.next[r[i]] = IF i = n + 1 THEN Tail ELSE r[i + 1]
      <4>1. i - 1 = n <=> i = n + 1
        BY <1>1
      <4>2. l.next[q[i - 1]] = IF i - 1 = n THEN Tail ELSE q[i]
        BY <1>1, <3>1
      <4> QED
        BY <2>2, <3>4, <4>1, <4>2
    <3>6. m.prev[r[i]] = r[i - 1]
      <4>1. l.prev[q[i - 1]] = IF i - 1 = 1 THEN Head ELSE q[(i - 1) - 1]
        BY <1>1, <3>1
      <4>2. i - 1 = 1 <=> i = 2
        BY <1>1
      <4>3. r[i - 1] = IF i - 1 = 1 THEN s ELSE q[(i - 1) - 1]
        BY <1>3, <3>1
      <4> QED
        BY <3>4, <4>1, <4>2, <4>3
    <3> QED
      BY <2>4, <3>5, <3>6
  <2> QED
    BY <2>3, <2>4
<1>15. ASSUME NEW o \in Sessions, \A i \in 1 .. n + 1 : r[i] # o
       PROVE  m.next[o] = Null /\ m.prev[o] = Null
  <2>0. o \notin Members(r, n + 1)
    BY <1>15 DEF Members
  <2>1. o \notin Members(q, n) /\ o # s
    BY <1>3, <2>0
  <2>2. \A i \in 1 .. n : q[i] # o
    BY <2>1 DEF Members
  <2>3. l.next[o] = Null /\ l.prev[o] = Null
    BY <2>2 DEF Row
  <2>4. n # 0 => 1 \in 1 .. n
    BY <1>1
  <2> QED
    BY <1>11, <2>1, <2>2, <2>3, <2>4
<1> QED
  BY <1>3, <1>12, <1>13, <1>14, <1>15 DEF Row, m, r

------------------------------------------------------------------------------
(* The cache and its list.                                                 *)

\* The list is a row of the sessions of the table; while the cache is above its limit
\* somebody evicts.
Listed == \E n, q : Row(list, n, q) /\ Members(q, n) = Cached
Limited == OverLimit => \E t \in Threads : lock = t /\ pc[t] = "evict"
LInv == Listed /\ Limited

(* There are as many nodes as sessions in the row.                         *)
LEMMA RowCounts ==
  ASSUME Core, NEW n, NEW q, Row(list, n, q), Members(q, n) = Cached
  PROVE  IsFiniteSet(table) /\ Cardinality(table) = n /\ n \in Nat
<1> DEFINE node == [i \in 1 .. n |-> [key |-> obj[q[i]].id, obj |-> q[i]]]
<1>1. n \in Nat /\ q \in [1 .. n -> Sessions] /\ \A i, j \in 1 .. n : q[i] = q[j] => i = j
  BY DEF Row
<1>2. ASSUME NEW i \in 1 .. n
      PROVE  [key |-> obj[q[i]].id, obj |-> q[i]] \in table
  <2>1. q[i] \in Cached
    BY DEF Members
  <2>2. PICK m \in table : m.obj = q[i]
    BY <2>1 DEF Cached
  <2>3. m = [key |-> m.key, obj |-> m.obj] /\ obj[m.obj].id = m.key
    BY TableOf
  <2> QED
    BY <2>2, <2>3
<1>3. ASSUME NEW m \in table
      PROVE  \E i \in 1 .. n : node[i] = m
  <2>1. m = [key |-> m.key, obj |-> m.obj] /\ obj[m.obj].id = m.key /\ m.obj \in Cached
    BY TableOf
  <2>2. PICK i \in 1 .. n : q[i] = m.obj
    BY <2>1 DEF Members
  <2> QED
    BY <2>1, <2>2
<1>4. node \in Bijection(1 .. n, table)
  <2>1. node \in [1 .. n -> table]
    BY <1>2
  <2>2. \A i, j \in 1 .. n : node[i] = node[j] => i = j
    BY <1>1
  <2> HIDE DEF node
  <2> QED
    BY <1>3, <2>1, <2>2, Fun_IsBij
<1>5. IsFiniteSet(1 .. n) /\ Cardinality(1 .. n) = n
  BY <1>1, FS_Interval
<1>6. ExistsBijection(1 .. n, table)
  BY <1>4 DEF ExistsBijection
<1> QED
  BY <1>1, <1>5, <1>6, FS_Bijection

(* The function that follows the list.                                     *)
LEMMA NthIs ==
  ASSUME NEW n, NEW q, Row(list, n, q)
  PROVE  \A k \in Nat : Nth[k] = IF k < n THEN q[k + 1]
                                 ELSE IF k = n /\ n # 0 THEN Tail ELSE Null
<1> DEFINE g == [k \in Nat |-> IF k < n THEN q[k + 1]
                               ELSE IF k = n /\ n # 0 THEN Tail ELSE Null]
<1>1. /\ n \in Nat /\ q \in [1 .. n -> Sessions]
      /\ n = 0 => list.head = Null
      /\ n > 0 => list.head = q[1]
      /\ \A i \in 1 .. n : list.next[q[i]] = IF i = n THEN Tail ELSE q[i + 1]
  BY DEF Row
<1>2. Null \notin Sessions /\ Tail \notin Sessions
  BY SessionCacheAssumption
<1>3. ASSUME NEW k \in Nat
      PROVE  g[k] = IF k = 0 THEN list.head
                    ELSE IF g[k - 1] \in Sessions THEN list.next[g[k - 1]] ELSE Null
  <2>1. CASE k = 0
    BY <1>1, <2>1
  <2>2. CASE k # 0
    <3>1. k - 1 \in Nat /\ (k - 1) + 1 = k /\ k - 1 # k
      BY <2>2
    <3>2. CASE k - 1 < n
      <4>1. k \in 1 .. n /\ g[k - 1] = q[k] /\ n # 0
        BY <1>1, <2>2, <3>1, <3>2
      <4>2. g[k] = IF k = n THEN Tail ELSE q[k + 1]
        BY <1>1, <4>1
      <4> QED
        BY <1>1, <2>2, <4>1, <4>2
    <3>3. CASE ~(k - 1 < n)
      <4>1. g[k - 1] \notin Sessions
        BY <1>1, <1>2, <3>1, <3>3
      <4>2. g[k] = Null
        BY <1>1, <3>1, <3>3
      <4> QED
        BY <2>2, <4>1, <4>2
    <3> QED
      BY <3>2, <3>3
  <2> QED
    BY <2>1, <2>2
<1>4. \E f : f = [k \in Nat |-> IF k = 0 THEN list.head
                                ELSE IF f[k - 1] \in Sessions THEN list.next[f[k - 1]] ELSE Null]
  <2>1. g = [k \in Nat |-> g[k]]
    OBVIOUS
  <2> HIDE DEF g
  <2> QED
    BY <1>3, <2>1
<1>5. Nth = [k \in Nat |-> IF k = 0 THEN list.head
                           ELSE IF Nth[k - 1] \in Sessions THEN list.next[Nth[k - 1]] ELSE Null]
  BY <1>4, Zenon DEF Nth
<1>6. ASSUME NEW k \in Nat
      PROVE  Nth[k] = IF k = 0 THEN list.head
                      ELSE IF Nth[k - 1] \in Sessions THEN list.next[Nth[k - 1]] ELSE Null
  BY <1>5
<1> DEFINE T == {k \in Nat : Nth[k] # g[k]}
<1> HIDE DEF g
<1>7. T = {}
  <2> SUFFICES ASSUME T # {} PROVE FALSE
    OBVIOUS
  <2>1. T \subseteq Nat
    OBVIOUS
  <2> HIDE DEF T
  <2>2. PICK k \in T : \A j \in T : ~(<<j, k>> \in OpToRel(<, Nat))
    BY <2>1, NatLessThanWellFounded, WFMin
  <2>3. k \in Nat
    BY <2>1
  <2>4. \A j \in T : ~(j < k)
    BY <2>1, <2>2 DEF OpToRel
  <2>5. Nth[k] # g[k]
    BY DEF T
  <2>6. CASE k = 0
    BY <1>3, <1>6, <2>5, <2>6
  <2>7. CASE k # 0
    <3>1. k - 1 \in Nat /\ k - 1 < k
      BY <2>3, <2>7
    <3>2. k - 1 \notin T
      BY <2>4, <3>1
    <3>3. Nth[k - 1] = g[k - 1]
      BY <3>1, <3>2 DEF T
    <3> QED
      BY <1>3, <1>6, <2>3, <2>5, <2>7, <3>3
  <2> QED
    BY <2>6, <2>7
<1>8. ASSUME NEW k \in Nat
      PROVE  Nth[k] = g[k]
  BY <1>7
<1> QED
  BY <1>8 DEF g

(* The property follows from the invariant.                                *)
LEMMA ListedMatches ==
  ASSUME Core, Listed
  PROVE  ListMatchesTable
<1>1. PICK n, q : Row(list, n, q) /\ Members(q, n) = Cached
  BY DEF Listed
<1>2. Cardinality(table) = n /\ n \in Nat
  BY <1>1, RowCounts
<1>3. /\ q \in [1 .. n -> Sessions]
      /\ n = 0 => list.head = Null /\ list.tail = Null
      /\ n > 0 => list.tail = q[n]
      /\ \A i \in 1 .. n : list.prev[q[i]] = IF i = 1 THEN Head ELSE q[i - 1]
      /\ \A o \in Sessions : (\A i \in 1 .. n : q[i] # o) => list.next[o] = Null /\ list.prev[o] = Null
  BY <1>1 DEF Row
<1>4. \A k \in Nat : Nth[k] = IF k < n THEN q[k + 1] ELSE IF k = n /\ n # 0 THEN Tail ELSE Null
  BY <1>1, NthIs
<1>5. ASSUME NEW k \in 0 .. n - 1
      PROVE  Nth[k] = q[k + 1] /\ k + 1 \in 1 .. n /\ k \in Nat /\ k < n
  <2>1. k \in Nat /\ k < n /\ k + 1 \in 1 .. n
    BY <1>2
  <2> QED
    BY <1>4, <2>1
<1>6. {Nth[k] : k \in 0 .. n - 1} = Cached
  <2>1. ASSUME NEW k \in 0 .. n - 1 PROVE Nth[k] \in Cached
    BY <1>1, <1>5 DEF Members
  <2>2. ASSUME NEW o \in Cached PROVE \E k \in 0 .. n - 1 : Nth[k] = o
    <3>1. PICK i \in 1 .. n : q[i] = o
      BY <1>1 DEF Members
    <3>2. i - 1 \in 0 .. n - 1 /\ (i - 1) + 1 = i
      BY <1>2
    <3> QED
      BY <1>5, <3>1, <3>2
  <2> QED
    BY <2>1, <2>2
<1>7. n = 0 => list.head = Null /\ list.tail = Null
  BY <1>3
<1>8. n # 0 => Nth[n] = Tail /\ Nth[n - 1] = list.tail
  <2> SUFFICES ASSUME n # 0 PROVE Nth[n] = Tail /\ Nth[n - 1] = list.tail
    OBVIOUS
  <2>1. Nth[n] = Tail
    BY <1>2, <1>4
  <2>2. n - 1 \in 0 .. n - 1 /\ (n - 1) + 1 = n /\ n > 0
    BY <1>2
  <2> QED
    BY <1>3, <1>5, <2>1, <2>2
<1>9. ASSUME NEW k \in 0 .. n - 1
      PROVE  list.prev[Nth[k]] = IF k = 0 THEN Head ELSE Nth[k - 1]
  <2>1. Nth[k] = q[k + 1] /\ k + 1 \in 1 .. n /\ k \in Nat /\ k < n
    BY <1>5
  <2>2. list.prev[q[k + 1]] = IF k + 1 = 1 THEN Head ELSE q[(k + 1) - 1]
    BY <1>3, <2>1
  <2>3. k # 0 => k - 1 \in 0 .. n - 1 /\ (k - 1) + 1 = k
    BY <1>2, <2>1
  <2>4. k # 0 => Nth[k - 1] = q[k]
    BY <1>5, <2>3
  <2> QED
    BY <2>1, <2>2, <2>4
<1>10. ASSUME NEW o \in Sessions \ Cached
       PROVE  list.next[o] = Null /\ list.prev[o] = Null
  <2>1. \A i \in 1 .. n : q[i] # o
    BY <1>1 DEF Members
  <2> QED
    BY <1>3, <2>1
<1> QED
  BY <1>2, <1>6, <1>7, <1>8, <1>9, <1>10 DEF ListMatchesTable

(* A session more at the head, one less anywhere.                          *)
LEMMA AddListed ==
  ASSUME Listed, NEW s \in Sessions \ Cached, list' = SSL_SESSION_list_add(list, s),
         Cached' = Cached \cup {s}
  PROVE  Listed'
<1>1. PICK n, q : Row(list, n, q) /\ Members(q, n) = Cached
  BY DEF Listed
<1>2. /\ n \in Nat /\ q \in [1 .. n -> Sessions] /\ \A i, j \in 1 .. n : q[i] = q[j] => i = j
      /\ \A i \in 1 .. n : q[i] # s
  BY <1>1 DEF Row, Members
<1>3. Members(With(q, n, s), n + 1) = Members(q, n) \cup {s}
  BY <1>2, WithIs
<1>4. Row(list', n + 1, With(q, n, s))
  BY <1>1, AddRow
<1> QED
  BY <1>1, <1>3, <1>4 DEF Listed

LEMMA RemoveRowOf ==
  ASSUME NEW l, NEW n, NEW q, Row(l, n, q), NEW s \in Members(q, n)
  PROVE  \E m, r : /\ Row(SSL_SESSION_list_remove(l, s), m, r)
                   /\ Members(r, m) = Members(q, n) \ {s}
<1>1. PICK k \in 1 .. n : q[k] = s
  BY DEF Members
<1>2. /\ n \in Nat /\ q \in [1 .. n -> Sessions] /\ \A i, j \in 1 .. n : q[i] = q[j] => i = j
  BY DEF Row
<1>3. Members(Without(q, n, k), n - 1) = Members(q, n) \ {q[k]}
  BY <1>2, WithoutIs
<1>4. Row(SSL_SESSION_list_remove(l, q[k]), n - 1, Without(q, n, k))
  BY RemoveRow
<1> QED
  BY <1>1, <1>3, <1>4

LEMMA RemoveListed ==
  ASSUME Listed, NEW s \in Cached, list' = SSL_SESSION_list_remove(list, s),
         Cached' = Cached \ {s}
  PROVE  Listed'
<1>1. PICK n, q : Row(list, n, q) /\ Members(q, n) = Cached
  BY DEF Listed
<1>2. PICK m, r : /\ Row(SSL_SESSION_list_remove(list, s), m, r)
                  /\ Members(r, m) = Members(q, n) \ {s}
  BY <1>1, RemoveRowOf
<1> QED
  BY <1>1, <1>2 DEF Listed

(* Without one of its nodes the cache is without its session.              *)
LEMMA UncachedIs ==
  ASSUME Core, NEW n \in table, table' = table \ {n}
  PROVE  Cached' = Cached \ {n.obj}
<1>1. \A m \in table : m.obj = n.obj => m = n
  BY TableOf
<1> QED
  BY <1>1 DEF Cached

(* A session is in the cache exactly when the table finds it.              *)
LEMMA CachedIsFound ==
  ASSUME Core, NEW s \in Cached
  PROVE  s \in Sessions /\ obj[s].id \in Ids /\ s \in FindSession(obj[s].id)
<1>1. PICK n \in table : n.obj = s
  BY DEF Cached
<1>2. n.obj \in Sessions /\ n.key \in Ids /\ obj[n.obj].id = n.key /\ Find(obj[n.obj].id) = {n}
  BY TableOf
<1> QED
  BY <1>1, <1>2 DEF FindSession

(* The steps that change table and list.                                   *)
LEMMA InsertListed ==
  ASSUME IInv, Listed, NEW t \in Threads, Insert(t)
  PROVE  Listed'
<1>1. Core /\ Control(t) /\ hold \in Hold /\ <<t, "add">> \in Keys
  BY DEF IInv, Core, Keys, Slots
<1>2. PICK c \in Sessions : hold[<<t, "add">>] = c
  BY <1>1 DEF Insert, Hold, Control
<1>3. /\ Find(obj[c].id) = {} /\ table' = table \cup {[key |-> obj[c].id, obj |-> c]}
      /\ list' = SSL_SESSION_list_add(list, c)
  BY <1>2 DEF Insert
<1>4. c \notin Cached
  BY <1>1, <1>3, CachedIsFound DEF FindSession
<1>5. Cached' = Cached \cup {c}
  <2> DEFINE node == [key |-> obj[c].id, obj |-> c]
  <2>1. node.obj = c
    OBVIOUS
  <2>2. table' = table \cup {node}
    BY <1>3
  <2> HIDE DEF node
  <2> QED
    BY <2>1, <2>2 DEF Cached
<1> QED
  BY <1>3, <1>4, <1>5, AddListed

LEMMA ReplaceListed ==
  ASSUME IInv, Listed, NEW t \in Threads, Replace(t)
  PROVE  Listed'
<1>1. Core /\ Control(t) /\ hold \in Hold /\ <<t, "add">> \in Keys
  BY DEF IInv, Core, Keys, Slots
<1>2. PICK c \in Sessions : hold[<<t, "add">>] = c
  BY <1>1 DEF Replace, Hold, Control
<1>3. PICK n \in table :
        /\ n \in Find(obj[c].id) /\ n.obj # c
        /\ table' = (table \ {n}) \cup {[n EXCEPT !.obj = c]}
        /\ list' = SSL_SESSION_list_add(SSL_SESSION_list_remove(list, n.obj), c)
  BY <1>2 DEF Replace, Find
<1>4. n.obj \in Cached /\ obj[n.obj].id = n.key /\ n.key = obj[c].id /\ Find(n.key) = {n}
      /\ n = [key |-> n.key, obj |-> n.obj] /\ \A m \in table : m.obj = n.obj => m = n
  BY <1>1, <1>3, TableOf DEF Find
<1>5. c \notin Cached
  <2> SUFFICES ASSUME c \in Cached PROVE FALSE
    OBVIOUS
  <2>1. c \in FindSession(obj[c].id)
    BY <1>1, CachedIsFound
  <2> QED
    BY <1>3, <1>4, <2>1 DEF FindSession
<1>6. Cached' = (Cached \ {n.obj}) \cup {c}
  <2>1. [n EXCEPT !.obj = c].obj = c
    BY <1>4
  <2>2. Cached' = {m.obj : m \in table \ {n}} \cup {c}
    BY <1>3, <2>1 DEF Cached
  <2>3. {m.obj : m \in table \ {n}} = Cached \ {n.obj}
    BY <1>4 DEF Cached
  <2> QED
    BY <2>2, <2>3
<1>7. PICK k, q : Row(list, k, q) /\ Members(q, k) = Cached
  BY DEF Listed
<1> DEFINE l == SSL_SESSION_list_remove(list, n.obj)
<1>8. PICK m, r : Row(l, m, r) /\ Members(r, m) = Cached \ {n.obj}
  BY <1>4, <1>7, RemoveRowOf
<1>9. c \notin Members(r, m)
  BY <1>5, <1>8
<1>10. /\ m \in Nat /\ r \in [1 .. m -> Sessions] /\ \A i, j \in 1 .. m : r[i] = r[j] => i = j
       /\ \A i \in 1 .. m : r[i] # c
  BY <1>8, <1>9 DEF Row, Members
<1>11. Members(With(r, m, c), m + 1) = Members(r, m) \cup {c}
  BY <1>10, WithIs
<1>12. Row(list', m + 1, With(r, m, c))
  BY <1>3, <1>8, <1>9, AddRow
<1> QED
  BY <1>6, <1>8, <1>11, <1>12 DEF Listed

(* Uncache and Unlink take the node of s out, and s out of the list.       *)
LEMMA LeavingListed ==
  ASSUME Core, Listed, NEW s \in Cached, table' = table \ Find(obj[s].id),
         list' = SSL_SESSION_list_remove(list, s)
  PROVE  Listed'
<1>1. PICK n \in table : n.obj = s
  BY DEF Cached
<1>2. table' = table \ {n}
  BY <1>1, TableOf
<1> QED
  BY <1>1, <1>2, UncachedIs, RemoveListed

------------------------------------------------------------------------------
(* The limit.                                                              *)

(* A step that leaves the table alone, by a thread that does not evict.    *)
LEMMA SameLimited ==
  ASSUME Limited, NEW t \in Threads, Others(t), pc[t] # "evict",
         table' = table, ctx' = ctx
  PROVE  Limited'
<1>1. OverLimit' <=> OverLimit
  BY DEF OverLimit
<1>2. ASSUME OverLimit
      PROVE  \E u \in Threads : lock' = u /\ pc'[u] = "evict"
  <2>1. PICK u \in Threads : lock = u /\ pc[u] = "evict"
    BY <1>2 DEF Limited
  <2>2. u # t /\ lock # Null /\ lock # t
    BY <2>1, SessionCacheAssumption
  <2> QED
    BY <2>1, <2>2 DEF Others
<1> QED
  BY <1>1, <1>2 DEF Limited

(* A cache within its limit that loses nodes.                              *)
LEMMA LessLimited ==
  ASSUME IInv, Listed, ~OverLimit, table' \subseteq table, ctx' = ctx
  PROVE  Limited'
<1>1. IsFiniteSet(table) /\ Cardinality(table) \in Nat
  <2>1. PICK n, q : Row(list, n, q) /\ Members(q, n) = Cached
    BY DEF Listed
  <2> QED
    BY <2>1, RowCounts DEF IInv
<1>2. Cardinality(table') <= Cardinality(table) /\ Cardinality(table') \in Nat
  BY <1>1, FS_Subset, FS_CardinalityType
<1>3. ctx.size \in Nat
  BY SessionCacheAssumption DEF IInv, Types
<1>4. ~OverLimit'
  BY <1>1, <1>2, <1>3 DEF OverLimit
<1> QED
  BY <1>4 DEF Limited

(* Nobody else evicts while t has the lock for a walk, or while it is free. *)
LEMMA WithinLimit ==
  ASSUME Limited, IInv, NEW t \in Threads,
         lock = Null \/ (lock = t /\ pc[t] # "evict")
  PROVE  ~OverLimit
BY SessionCacheAssumption DEF Limited

(* Above the limit there is a last session, and it can be evicted.         *)
LEMMA TailIsEvictable ==
  ASSUME Core, Listed, OverLimit, ctx.size \in Nat
  PROVE  Evictable(list.tail) /\ list.tail \in Cached
<1>1. PICK n, q : Row(list, n, q) /\ Members(q, n) = Cached
  BY DEF Listed
<1>2. Cardinality(table) = n /\ n \in Nat
  BY <1>1, RowCounts
<1>3. n > 0
  BY <1>2 DEF OverLimit
<1>4. list.tail = q[n] /\ n \in 1 .. n
  BY <1>1, <1>2, <1>3 DEF Row
<1>5. list.tail \in Cached
  BY <1>1, <1>4 DEF Members
<1>6. /\ list.tail \in Sessions /\ obj[list.tail].id \in Ids
      /\ list.tail \in FindSession(obj[list.tail].id)
  BY <1>5, CachedIsFound
<1> QED
  BY <1>5, <1>6, SessionCacheAssumption DEF Evictable

------------------------------------------------------------------------------
(* Each step.                                                              *)

(* What all other steps leave alone.                                       *)
LEMMA Unlisted ==
  ASSUME NEW t \in Threads, Step(t),
         ~(Insert(t) \/ Replace(t) \/ Unlink(t) \/ Evict(t) \/ FlushOne(t))
  PROVE  table' = table /\ list' = list /\ (pc[t] = "evict" => Added(t))
<1>1. CASE Quiet(t)
  BY <1>1 DEF Quiet, NoPrevious, TooOld, NoMemory, FinishNew, Notify, Offer, Fail, NotThere,
              StartFlush, Flushed, KeepOne, Added, cache
<1>2. CASE FromCache(t) \/ FromCallback(t) \/ Resume(t) \/ Drop(t) \/ New(t)
  BY <1>2 DEF FromCache, FromCallback, Resume, Drop, New, cache
<1>3. CASE Connect(t) \/ ConnectWith(t) \/ Save(t) \/ Forget(t) \/ FinishResumed(t)
  BY <1>3 DEF Connect, ConnectWith, Save, Forget, FinishResumed, cache
<1>4. CASE Close(t) \/ AddReference(t) \/ InsertAgain(t) \/ Removed(t)
  BY <1>4 DEF Close, AddReference, InsertAgain, Removed, cache
<1> QED
  BY <1>1, <1>2, <1>3, <1>4 DEF Step, Locked, Quiet

LEMMA StepLinks ==
  ASSUME ~Renewals, IInv, LInv, NEW t \in Threads, Step(t), ctx' = ctx
  PROVE  LInv'
<1>1. /\ Core /\ Listed /\ Limited /\ Control(t) /\ Others(t) /\ ctx.size \in Nat
      /\ pc \in [Threads -> Places]
  BY StepKeeps, SessionCacheAssumption DEF IInv, LInv, Types
<1>2. CASE Insert(t)
  <2>1. lock' = t /\ pc'[t] = "evict"
    BY <1>1, <1>2 DEF Insert, Goto
  <2> QED
    BY <1>1, <1>2, <2>1, InsertListed DEF LInv, Limited
<1>3. CASE Replace(t)
  <2>1. lock' = t /\ pc'[t] = "evict"
    BY <1>1, <1>3 DEF Replace, Goto
  <2> QED
    BY <1>1, <1>3, <2>1, ReplaceListed DEF LInv, Limited
<1>4. CASE Unlink(t)
  <2> DEFINE s == Removing(t)
  <2>1. /\ lock = Null /\ Evictable(s) /\ table' = table \ Find(obj[s].id)
        /\ list' = SSL_SESSION_list_remove(list, s)
    BY <1>4 DEF Unlink
  <2>2. s \in Cached
    BY <2>1 DEF Evictable, FindSession, Find, Cached
  <2>3. Listed'
    BY <1>1, <2>1, <2>2, LeavingListed
  <2>4. Limited'
    BY <1>1, <2>1, WithinLimit, LessLimited
  <2> QED
    BY <2>3, <2>4 DEF LInv
<1>5. CASE Evict(t)
  <2>1. /\ OverLimit /\ Uncache(list.tail) /\ pc[t] = "evict" /\ lock' = lock /\ pc' = pc
    BY <1>5 DEF Evict
  <2>2. lock = t /\ list.tail \in Cached
    BY <1>1, <2>1, TailIsEvictable DEF Control
  <2>3. Listed'
    BY <1>1, <2>1, <2>2, LeavingListed DEF Uncache
  <2> QED
    BY <2>1, <2>2, <2>3 DEF LInv, Limited
<1>6. CASE FlushOne(t)
  <2>1. PICK n \in todo : Uncache(n.obj) /\ pc[t] = "walk"
    BY <1>6 DEF FlushOne
  <2>2. n \in table /\ lock = t
    BY <1>1, <2>1 DEF Control
  <2>3. n.obj \in Cached
    BY <2>2 DEF Cached
  <2>4. Listed'
    BY <1>1, <2>1, <2>3, LeavingListed DEF Uncache
  <2>5. table' \subseteq table
    BY <2>1 DEF Uncache
  <2>6. Limited'
    BY <1>1, <2>1, <2>2, <2>5, WithinLimit, LessLimited
  <2> QED
    BY <2>4, <2>6 DEF LInv
<1>7. CASE ~(Insert(t) \/ Replace(t) \/ Unlink(t) \/ Evict(t) \/ FlushOne(t))
  <2>1. table' = table /\ list' = list /\ (pc[t] = "evict" => Added(t))
    BY <1>7, Unlisted
  <2>2. Listed'
    BY <1>1, <2>1 DEF Listed, Cached
  <2>3. CASE pc[t] # "evict"
    BY <1>1, <2>1, <2>2, <2>3, SameLimited DEF LInv
  <2>4. CASE pc[t] = "evict"
    <3>1. ~OverLimit
      BY <1>1, <2>1, <2>4, TailIsEvictable DEF Added
    <3> QED
      BY <1>1, <2>1, <2>2, <3>1, LessLimited DEF LInv
  <2> QED
    BY <2>3, <2>4
<1> QED
  BY <1>2, <1>3, <1>4, <1>5, <1>6, <1>7

LEMMA LInvInit ==
  ASSUME Init
  PROVE  LInv
<1> DEFINE q == [i \in 1 .. 0 |-> Null]
<1>1. /\ table = {} /\ Cached = {} /\ list \in Lists /\ list.head = Null /\ list.tail = Null
      /\ \A o \in Sessions : list.next[o] = Null /\ list.prev[o] = Null
  BY DEF Init, Cached, Lists
<1>2. 0 \in Nat /\ 1 .. 0 = {} /\ q \in [1 .. 0 -> Sessions]
  OBVIOUS
<1> HIDE DEF q
<1>3. Row(list, 0, q) /\ Members(q, 0) = {}
  BY <1>1, <1>2 DEF Row, Members
<1>4. Listed
  BY <1>1, <1>3 DEF Listed
<1>5. Cardinality(table) = 0 /\ ctx.size \in Nat
  BY <1>1, FS_EmptySet, SessionCacheAssumption DEF Init
<1>6. ~OverLimit
  BY <1>5 DEF OverLimit
<1> QED
  BY <1>4, <1>6 DEF LInv, Limited

LEMMA LInvStep ==
  ASSUME ~Renewals, IInv, LInv, [Next]_vars
  PROVE  LInv'
<1>1. ASSUME UNCHANGED <<table, list, ctx, lock, pc>>
      PROVE  LInv'
  BY <1>1 DEF LInv, Listed, Limited, Cached, OverLimit
<1>2. ASSUME NEW o \in Sessions, Expire(o), ctx' = ctx
      PROVE  LInv'
  BY <1>1, <1>2 DEF Expire, cache
<1>3. ASSUME NEW t \in Threads, Step(t), ctx' = ctx
      PROVE  LInv'
  BY <1>3, StepLinks
<1>4. CASE UNCHANGED vars
  BY <1>1, <1>4 DEF vars
<1> QED
  BY <1>2, <1>3, <1>4 DEF Next

LEMMA LInvAlways == ASSUME ~Renewals PROVE Spec => [](IInv /\ LInv)
<1>1. Init => IInv /\ LInv
  BY InvInit, LInvInit
<1>2. IInv /\ LInv /\ [Next]_vars => IInv' /\ LInv'
  BY InvStep, LInvStep
<1> QED
  BY <1>1, <1>2, PTL DEF Spec

(* Without ticket renewal the list holds the sessions of the table, each   *)
(* once, and can be followed in both directions (SSL_SESSION_list_add,     *)
(* SSL_SESSION_list_remove and the lhash calls beside them).               *)
THEOREM ListAndTableAgree == ASSUME ~Renewals PROVE Spec => []ListMatchesTable
<1>1. IInv /\ LInv => ListMatchesTable
  BY ListedMatches DEF IInv, LInv
<1> QED
  BY <1>1, LInvAlways, PTL

(* Without ticket renewal eviction always gets the cache down to its limit *)
(* before the lock is released (SSL_CTX_add_session).                      *)
THEOREM LimitIsKept == ASSUME ~Renewals PROVE Spec => []LimitHolds
<1>1. IInv /\ LInv => LimitHolds
  <2> SUFFICES ASSUME IInv, LInv, lock = Null, ctx.size > 0
               PROVE  Cardinality(table) <= ctx.size
    BY DEF LimitHolds
  <2>1. ~OverLimit
    BY SessionCacheAssumption DEF LInv, Limited
  <2>2. PICK n, q : Row(list, n, q) /\ Members(q, n) = Cached
    BY DEF LInv, Listed
  <2>3. Cardinality(table) \in Nat /\ ctx.size \in Nat
    BY <2>2, RowCounts, SessionCacheAssumption DEF IInv, Types
  <2> QED
    BY <2>1, <2>3 DEF OverLimit
<1> QED
  BY <1>1, LInvAlways, PTL

------------------------------------------------------------------------------
(* A session that has been taken out of the cache does not come back, as    *)
(* long as the application adds none itself and no ticket of a resumed      *)
(* session is renewed: SSL_CTX_add_session is only called for sessions that *)
(* nobody but the calling thread has seen, and what another thread removes  *)
(* was cached.                                                              *)

\* Thread t has a session that is new, or is about to add one.
IsFresh(t) == pc[t] \in {"add", "insert"} \/ (pc[t] = "handshake" /\ hit[t] = "no")

\* It has it alone, and the cache never had it.
Private(t) ==
  /\ Adding(t) \in Sessions \ Cached
  /\ ~obj[Adding(t)].notResumable
  /\ hold[<<t, "saved">>] # Adding(t)
  /\ \A u \in Threads \ {t}, s \in Slots : hold[<<u, s>>] # Adding(t)

Place(t) ==
  /\ pc[t] \notin Calls => then[t] = "idle"
  /\ pc[t] \in {"add", "insert"} => then[t] \in {"check", "notify"}
  /\ pc[t] = "insert" => hold[<<t, "add">>] = Adding(t)
  /\ pc[t] = "removed" => hold[<<t, "r">>] \notin Cached
  /\ IsFresh(t) => Private(t)

Resumable == \A o \in Cached : ~obj[o].notResumable

RInv == ~ctx.offers => Resumable /\ \A t \in Threads : Place(t)

------------------------------------------------------------------------------
(* What a step of thread t leaves of a session that is in use, that the    *)
(* cache does not have, and that t does not have either.                   *)
Distant(t) ==
  \A o \in Sessions :
    obj[o].refs > 0 /\ o \notin Cached /\ (\A s \in Slots : hold[<<t, s>>] # o) =>
      /\ o \notin Cached'
      /\ obj'[o].notResumable => obj[o].notResumable
      /\ \A s \in Slots : hold'[<<t, s>>] # o

(* The cache only gets the session that t inserts, which is its alone.     *)
Grows(t) ==
  Cached' \subseteq IF pc[t] = "insert" THEN Cached \cup {Adding(t)} ELSE Cached

Quits(t) == \A u \in Threads \ {t} : hit'[u] = hit[u]

Local(t) == Distant(t) /\ Grows(t) /\ Quits(t) /\ Others(t)

LEMMA HeldIsUsed ==
  ASSUME Core, NEW k \in Keys, hold[k] \in Sessions
  PROVE  obj[hold[k]].refs > 0
<1>1. Count(hold, hold[k]) >= 1 /\ Count(hold, hold[k]) \in Nat
  BY CountPositive, KeysFinite DEF Core
<1> QED
  BY <1>1 DEF Core, Share

LEMMA KeyOf ==
  ASSUME NEW t \in Threads, NEW s \in Slots
  PROVE  <<t, s>> \in Keys
BY DEF Keys

(* The variable that Adding names.                                         *)
LEMMA AddingSlot ==
  ASSUME NEW t \in Threads
  PROVE  \E s \in {"sess", "session"} : s \in Slots /\ Adding(t) = hold[<<t, s>>]
BY DEF Adding, session, Slots

(* The step of one thread leaves the places of the others what they are.   *)
LEMMA OthersStay ==
  ASSUME IInv, NEW t \in Threads, NEW u \in Threads \ {t}, Place(t), Place(u), Local(t)
  PROVE  Place(u)'
<1>1. /\ pc'[u] = pc[u] /\ then'[u] = then[u] /\ hit'[u] = hit[u]
      /\ \A s \in Slots : hold'[<<u, s>>] = hold[<<u, s>>]
  BY DEF Local, Others, Quits
<1>2. Adding(u)' = Adding(u) /\ IsFresh(u)' = IsFresh(u)
  BY <1>1 DEF Adding, session, IsFresh, Slots
<1>3. "add" \in Slots /\ "r" \in Slots /\ "saved" \in Slots
  BY DEF Slots
<1>4. IsFresh(u) => Private(u)'
  <2> SUFFICES ASSUME IsFresh(u) PROVE Private(u)'
    OBVIOUS
  <2> DEFINE o == Adding(u)
  <2>1. Private(u)
    BY DEF Place
  <2>2. o \in Sessions /\ obj[o].refs > 0
    BY <2>1, AddingSlot, KeyOf, HeldIsUsed DEF Private, IInv
  <2>3. o \notin Cached /\ \A s \in Slots : hold[<<t, s>>] # o
    BY <2>1 DEF Private
  <2>4. /\ o \notin Cached' /\ ~obj'[o].notResumable
        /\ \A s \in Slots : hold'[<<t, s>>] # o
    BY <2>1, <2>2, <2>3 DEF Local, Distant, Private
  <2>5. \A v \in Threads \ {u}, s \in Slots : hold'[<<v, s>>] # o
    BY <2>1, <2>4 DEF Private, Local, Others
  <2> QED
    BY <1>1, <1>2, <1>3, <2>1, <2>4, <2>5 DEF Private
<1>5. pc[u] = "removed" => hold'[<<u, "r">>] \notin Cached'
  <2> SUFFICES ASSUME pc[u] = "removed" PROVE hold'[<<u, "r">>] \notin Cached'
    OBVIOUS
  <2>1. hold'[<<u, "r">>] = hold[<<u, "r">>] /\ hold[<<u, "r">>] \notin Cached
    BY <1>1, <1>3 DEF Place
  <2>2. pc[t] = "insert" => hold[<<u, "r">>] # Adding(t)
    BY <1>3 DEF Place, IsFresh, Private
  <2> QED
    BY <2>1, <2>2 DEF Local, Grows
<1> QED
  BY <1>1, <1>2, <1>3, <1>4, <1>5 DEF Place

(* A step that leaves sessions, cache and variables alone.                 *)
LEMMA NothingMoves ==
  ASSUME obj' = obj, table' = table, hold' = hold, NEW t \in Threads, Resumable
  PROVE  Distant(t) /\ Grows(t) /\ Resumable'
BY DEF Distant, Grows, Resumable, Cached

(* The steps after which t is at none of the places Place speaks of but    *)
(* the first.                                                              *)
Plain(t) ==
  /\ pc'[t] \notin {"add", "insert", "handshake", "removed"}
  /\ pc'[t] \notin Calls => then'[t] = "idle"

LEMMA PlainPlace ==
  ASSUME NEW t \in Threads, Plain(t)
  PROVE  Place(t)'
BY DEF Plain, Place, IsFresh

LEMMA LessSays ==
  ASSUME NEW os \in Objects, NEW o \in Sessions
  PROVE  \A p \in Sessions : Less(os, o)[p].notResumable => os[p].notResumable
<1>1. CASE os[o].refs = 1
  BY <1>1 DEF Less, Objects, Free
<1>2. CASE os[o].refs # 1
  BY <1>2 DEF Less, Objects
<1> QED
  BY <1>1, <1>2

LEMMA CachedAreSessions ==
  ASSUME Core
  PROVE  Cached \subseteq Sessions
BY DEF Core, Nodes, Cached

(* What each step of thread t shows.                                       *)
Stays(t) == Local(t) /\ Resumable' /\ Place(t)'

LEMMA QuietStays ==
  ASSUME IInv, IInv', NEW t \in Threads, Quiet(t), ctx' = ctx, ~ctx.offers, Resumable, Place(t),
         Others(t)
  PROVE  Stays(t)
<1>0. Types /\ Control(t)
  BY DEF IInv
<1>1. obj' = obj /\ table' = table /\ hold' = hold /\ Quits(t)
  BY <1>0 DEF Quiet, NoPrevious, TooOld, NoMemory, FinishNew, Notify, Offer, Fail, NotThere, StartFlush,
              Flushed, Added, KeepOne, cache, Quits
<1>2. Local(t) /\ Resumable'
  BY <1>1, NothingMoves DEF Local
<1>3. CASE NoPrevious(t) \/ NoMemory(t)
  <2>1. Plain(t)
    BY <1>0, <1>3 DEF NoPrevious, NoMemory, Goto, Types, Plain, Calls, Place
  <2> QED
    BY <1>2, <2>1, PlainPlace DEF Stays
<1>4. CASE TooOld(t) \/ Fail(t)
  <2>1. Plain(t)
    BY <1>0, <1>4 DEF TooOld, Fail, Goto, Call, Types, Plain, Calls
  <2> QED
    BY <1>2, <2>1, PlainPlace DEF Stays
<1>5. CASE Notify(t)
  <2>1. Plain(t)
    BY <1>0, <1>5 DEF Notify, Goto, Call, Types, Plain, Calls, Place
  <2> QED
    BY <1>2, <2>1, PlainPlace DEF Stays
<1>6. CASE NotThere(t) \/ Flushed(t) \/ Added(t)
  <2>1. Plain(t)
    BY <1>0, <1>6 DEF NotThere, Flushed, Added, Return, Goto, Types, Plain, Calls, Control
  <2> QED
    BY <1>2, <2>1, PlainPlace DEF Stays
<1>7. CASE StartFlush(t) \/ KeepOne(t)
  <2>1. Plain(t)
    BY <1>0, <1>7 DEF StartFlush, KeepOne, Goto, Types, Plain, Calls
  <2> QED
    BY <1>2, <2>1, PlainPlace DEF Stays
<1>8. CASE FinishNew(t)
  <2>1. pc[t] = "handshake" /\ hit[t] = "no" /\ then[t] = "idle"
    BY <1>8 DEF FinishNew, Place, Calls
  <2>2. IsFresh(t) /\ Private(t)
    BY <2>1 DEF IsFresh, Place
  <2>3. CASE obj[session(t)].id = NoId
    <3>1. Plain(t)
      BY <1>0, <1>8, <2>1, <2>3 DEF FinishNew, Goto, Types, Plain, Calls
    <3> QED
      BY <1>2, <3>1, PlainPlace DEF Stays
  <2>4. CASE obj[session(t)].id # NoId
    <3>1. pc'[t] = "add" /\ then'[t] = "notify"
      BY <1>0, <1>8, <2>4 DEF FinishNew, Call, Goto, Types
    <3>2. Adding(t)' = Adding(t)
      BY <1>1, <2>1, <3>1 DEF Adding, session
    <3>3. Private(t)'
      BY <1>1, <2>2, <3>2 DEF Private, Cached
    <3>4. Place(t)'
      BY <3>1, <3>3 DEF Place, Calls
    <3> QED
      BY <1>2, <3>4 DEF Stays
  <2> QED
    BY <2>3, <2>4
<1>9. CASE Offer(t)
  BY <1>9 DEF Offer
<1> QED
  BY <1>3, <1>4, <1>5, <1>6, <1>7, <1>8, <1>9 DEF Quiet

------------------------------------------------------------------------------
(* Steps that pass references on.                                          *)

LEMMA TakeSays ==
  ASSUME IInv, Resumable, NEW t \in Threads, NEW s \in Slots, NEW o \in Sessions,
         Take(<<t, s>>, o), table' = table,
         o \in Cached \/ \E r \in Slots : hold[<<t, r>>] = o
  PROVE  /\ Distant(t) /\ Grows(t) /\ Resumable' /\ Cached' = Cached
         /\ hold'[<<t, s>>] = o
         /\ \A r \in Slots \ {s} : hold'[<<t, r>>] = hold[<<t, r>>]
         /\ \A u \in Threads \ {t}, r \in Slots : hold'[<<u, r>>] = hold[<<u, r>>]
         /\ \A p \in Sessions : obj'[p].notResumable = obj[p].notResumable
<1>1. Core /\ hold \in Hold /\ obj \in Objects
  BY DEF IInv, Core
<1>2. /\ hold'[<<t, s>>] = o
      /\ \A r \in Slots \ {s} : hold'[<<t, r>>] = hold[<<t, r>>]
      /\ \A u \in Threads \ {t}, r \in Slots : hold'[<<u, r>>] = hold[<<u, r>>]
  BY <1>1, HoldAt DEF Take
<1>3. \A p \in Sessions : obj'[p].notResumable = obj[p].notResumable
  BY <1>1 DEF Take, Objects
<1>4. Cached' = Cached /\ Grows(t)
  BY DEF Cached, Grows
<1>5. Distant(t)
  BY <1>2, <1>3, <1>4 DEF Distant
<1>6. Resumable'
  BY <1>1, <1>3, <1>4, CachedAreSessions DEF Resumable
<1> QED
  BY <1>2, <1>3, <1>4, <1>5, <1>6

LEMMA NewSays ==
  ASSUME IInv, Resumable, NEW t \in Threads, NEW s \in Slots, NEW o \in Sessions,
         NEW i \in Ids \cup {NoId}, SSL_SESSION_new(<<t, s>>, o, i), table' = table
  PROVE  /\ Distant(t) /\ Grows(t) /\ Resumable'
         /\ o \notin Cached' /\ ~obj'[o].notResumable
         /\ hold'[<<t, s>>] = o
         /\ \A r \in Slots \ {s} : hold'[<<t, r>>] # o
         /\ \A u \in Threads \ {t}, r \in Slots : hold'[<<u, r>>] # o
<1>1. Core /\ hold \in Hold /\ obj \in Objects
  BY DEF IInv, Core
<1>2. /\ hold'[<<t, s>>] = o
      /\ \A r \in Slots \ {s} : hold'[<<t, r>>] = hold[<<t, r>>]
      /\ \A u \in Threads \ {t}, r \in Slots : hold'[<<u, r>>] = hold[<<u, r>>]
  BY <1>1, HoldAt DEF SSL_SESSION_new
<1>3. /\ obj[o].refs = 0 /\ obj'[o].notResumable = FALSE
      /\ \A p \in Sessions \ {o} : obj'[p] = obj[p]
  BY <1>1 DEF SSL_SESSION_new, Unused, Born, Objects
<1>4. Cached' = Cached /\ Grows(t)
  BY DEF Cached, Grows
<1>5. o \notin Cached
  BY <1>1, <1>3, KeysFinite DEF Core, Share
<1>6. \A k \in Keys : hold[k] # o
  BY <1>1, <1>3, HeldIsUsed
<1>7. Distant(t)
  BY <1>2, <1>3, <1>4 DEF Distant
<1>8. Resumable'
  BY <1>1, <1>3, <1>4, <1>5, CachedAreSessions DEF Resumable
<1>9. /\ \A r \in Slots \ {s} : hold'[<<t, r>>] # o
      /\ \A u \in Threads \ {t}, r \in Slots : hold'[<<u, r>>] # o
  BY <1>2, <1>6, KeyOf
<1> QED
  BY <1>2, <1>3, <1>4, <1>5, <1>7, <1>8, <1>9

LEMMA FreeSays ==
  ASSUME IInv, Resumable, NEW t \in Threads, NEW s \in Slots, NEW o \in Sessions,
         hold' = [hold EXCEPT ![<<t, s>>] = Null], obj' = Less(obj, o), table' = table
  PROVE  Distant(t) /\ Grows(t) /\ Resumable'
<1>1. Core /\ hold \in Hold /\ obj \in Objects
  BY DEF IInv, Core
<1>2. /\ hold'[<<t, s>>] = Null
      /\ \A r \in Slots \ {s} : hold'[<<t, r>>] = hold[<<t, r>>]
  BY <1>1, HoldAt
<1>3. \A p \in Sessions : obj'[p].notResumable => obj[p].notResumable
  BY <1>1, LessSays
<1>4. Cached' = Cached /\ Grows(t)
  BY DEF Cached, Grows
<1>5. Distant(t)
  BY <1>2, <1>3, <1>4, SessionCacheAssumption DEF Distant
<1>6. Resumable'
  BY <1>1, <1>3, <1>4, CachedAreSessions DEF Resumable
<1> QED
  BY <1>4, <1>5, <1>6

LEMMA TakingStays ==
  ASSUME IInv, NEW t \in Threads, FromCache(t) \/ ConnectWith(t) \/ Save(t), ~ctx.offers,
         Resumable, Place(t), Others(t)
  PROVE  Stays(t)
<1>0. /\ Types /\ Control(t) /\ Core /\ hold \in Hold
      /\ {"sess", "session", "saved"} \subseteq Slots
      /\ \A s \in Slots : <<t, s>> \in Keys
  BY DEF IInv, Core, Slots, Keys
<1>1. CASE FromCache(t)
  <2>1. PICK o \in Sessions : o \in Cached /\ Take(<<t, "sess">>, o)
    BY <1>0, <1>1 DEF FromCache, FindSession, Find, Core, Nodes, Cached
  <2>2. table' = table /\ Quits(t)
    BY <1>1 DEF FromCache, cache, Quits
  <2>3. Plain(t)
    BY <1>0, <1>1 DEF FromCache, Goto, Types, Plain, Calls, Place
  <2> QED
    BY <1>0, <2>1, <2>2, <2>3, TakeSays, PlainPlace DEF Stays, Local
<1>2. CASE ConnectWith(t)
  <2>1. PICK o \in Sessions : o = hold[<<t, "saved">>] /\ Take(<<t, "session">>, o)
    BY <1>0, <1>2 DEF ConnectWith, Hold
  <2>2. table' = table /\ Quits(t) /\ hit'[t] # "no"
    BY <1>0, <1>2 DEF ConnectWith, cache, Quits, Types
  <2>3. Place(t)'
    BY <1>0, <1>2, <2>2 DEF ConnectWith, Goto, Types, Calls, Place, IsFresh
  <2> QED
    BY <1>0, <2>1, <2>2, <2>3, TakeSays DEF Stays, Local
<1>3. CASE Save(t)
  <2>1. session(t) \in Sessions
    BY <1>0, <1>3 DEF Save, Control, Within, Calls, session, Hold
  <2>2. PICK o \in Sessions : o = hold[<<t, "session">>] /\ Take(<<t, "saved">>, o)
    BY <1>3, <2>1 DEF Save, session
  <2>3. table' = table /\ Quits(t)
    BY <1>3 DEF Save, cache, Quits
  <2>4. Plain(t)
    BY <1>0, <1>3 DEF Save, Types, Plain, Calls, Place
  <2> QED
    BY <1>0, <2>2, <2>3, <2>4, TakeSays, PlainPlace DEF Stays, Local
<1> QED
  BY <1>1, <1>2, <1>3

LEMMA AddReferenceStays ==
  ASSUME IInv, NEW t \in Threads, AddReference(t), ~ctx.offers, Resumable, Place(t), Others(t)
  PROVE  Stays(t)
<1>0. /\ Types /\ Control(t) /\ Core /\ hold \in Hold
      /\ {"sess", "session", "saved", "add"} \subseteq Slots
  BY DEF IInv, Core, Slots
<1>1. pc[t] = "add" /\ IsFresh(t) /\ Private(t) /\ table' = table /\ Quits(t)
  BY DEF AddReference, IsFresh, Place, cache, Quits
<1>2. PICK o \in Sessions : o = Adding(t) /\ Take(<<t, "add">>, o)
  BY <1>1 DEF AddReference, Private
<1>3. \E r \in Slots : hold[<<t, r>>] = o
  BY <1>2, AddingSlot
<1>4. /\ Distant(t) /\ Grows(t) /\ Resumable' /\ Cached' = Cached
      /\ hold'[<<t, "add">>] = o
      /\ \A r \in Slots \ {"add"} : hold'[<<t, r>>] = hold[<<t, r>>]
      /\ \A u \in Threads \ {t}, r \in Slots : hold'[<<u, r>>] = hold[<<u, r>>]
      /\ \A p \in Sessions : obj'[p].notResumable = obj[p].notResumable
  BY <1>0, <1>1, <1>2, <1>3, TakeSays
<1>5. pc'[t] = "insert" /\ then' = then
  BY <1>0 DEF AddReference, Goto, Types
<1>6. Adding(t)' = o
  BY <1>0, <1>2, <1>4, <1>5 DEF Adding, session
<1>7. Private(t)'
  BY <1>0, <1>1, <1>2, <1>4, <1>6 DEF Private
<1>8. Place(t)'
  BY <1>1, <1>4, <1>5, <1>6, <1>7 DEF Place, Calls
<1> QED
  BY <1>1, <1>4, <1>8 DEF Stays, Local

LEMMA NewStays ==
  ASSUME IInv, NEW t \in Threads, New(t) \/ Connect(t), ~ctx.offers, Resumable, Place(t), Others(t)
  PROVE  Stays(t)
<1>0. Types /\ {"session", "saved"} \subseteq Slots
  BY DEF IInv, Slots
<1>1. PICK o \in Sessions, i \in Ids \cup {NoId} : SSL_SESSION_new(<<t, "session">>, o, i)
  BY DEF New, Connect
<1>2. table' = table /\ Quits(t) /\ pc'[t] = "handshake" /\ then'[t] = "idle"
  BY <1>0 DEF New, Connect, cache, Quits, Goto, Types, Place, Calls
<1>3. /\ Distant(t) /\ Grows(t) /\ Resumable'
      /\ o \notin Cached' /\ ~obj'[o].notResumable
      /\ hold'[<<t, "session">>] = o
      /\ \A r \in Slots \ {"session"} : hold'[<<t, r>>] # o
      /\ \A u \in Threads \ {t}, r \in Slots : hold'[<<u, r>>] # o
  BY <1>0, <1>1, <1>2, NewSays
<1>4. Adding(t)' = o
  BY <1>2, <1>3 DEF Adding, session
<1>5. Private(t)'
  BY <1>0, <1>3, <1>4 DEF Private
<1>6. Place(t)'
  BY <1>2, <1>5 DEF Place, Calls
<1> QED
  BY <1>2, <1>3, <1>6 DEF Stays, Local

LEMMA FromCallbackStays ==
  ASSUME IInv, NEW t \in Threads, FromCallback(t), ~ctx.offers, Resumable, Place(t), Others(t)
  PROVE  Stays(t)
<1>0. Types /\ {"sess", "saved"} \subseteq Slots
  BY DEF IInv, Slots
<1>1. PICK o \in Sessions, i \in Ids \cup {NoId} : SSL_SESSION_new(<<t, "sess">>, o, i)
  BY <1>0 DEF FromCallback, Types
<1>2. table' = table /\ Quits(t) /\ pc'[t] = "add" /\ then'[t] = "check"
  BY <1>0 DEF FromCallback, cache, Quits, Goto, Call, Types
<1>3. /\ Distant(t) /\ Grows(t) /\ Resumable'
      /\ o \notin Cached' /\ ~obj'[o].notResumable
      /\ hold'[<<t, "sess">>] = o
      /\ \A r \in Slots \ {"sess"} : hold'[<<t, r>>] # o
      /\ \A u \in Threads \ {t}, r \in Slots : hold'[<<u, r>>] # o
  BY <1>0, <1>1, <1>2, NewSays
<1>4. Adding(t)' = o
  BY <1>2, <1>3 DEF Adding
<1>5. Private(t)'
  BY <1>0, <1>3, <1>4 DEF Private
<1>6. Place(t)'
  BY <1>2, <1>5 DEF Place, Calls
<1> QED
  BY <1>2, <1>3, <1>6 DEF Stays, Local

LEMMA FreeingStays ==
  ASSUME IInv, NEW t \in Threads, Drop(t) \/ Close(t) \/ Forget(t) \/ InsertAgain(t), ~ctx.offers,
         Resumable, Place(t), Others(t)
  PROVE  Stays(t)
<1>0. /\ Types /\ Control(t) /\ Core /\ hold \in Hold
      /\ {"sess", "session", "saved", "add"} \subseteq Slots
      /\ \A s \in Slots : <<t, s>> \in Keys
  BY DEF IInv, Core, Slots, Keys
<1>1. CASE Drop(t)
  <2>1. hold[<<t, "sess">>] \in Sessions
    BY <1>0, <1>1 DEF Drop, Control, Within, Calls, Hold
  <2>2. /\ hold' = [hold EXCEPT ![<<t, "sess">>] = Null] /\ table' = table /\ Quits(t)
        /\ obj' = Less(obj, hold[<<t, "sess">>])
    BY <1>1, <2>1, SessionCacheAssumption DEF Drop, SSL_SESSION_free, cache, Quits
  <2>3. Plain(t)
    BY <1>0, <1>1 DEF Drop, Goto, Types, Plain, Calls, Place
  <2> QED
    BY <1>0, <2>1, <2>2, <2>3, FreeSays, PlainPlace DEF Stays, Local
<1>2. CASE Close(t)
  <2>1. hold[<<t, "session">>] \in Sessions
    BY <1>0, <1>2 DEF Close, Control, Within, Calls, Hold
  <2>2. /\ hold' = [hold EXCEPT ![<<t, "session">>] = Null] /\ table' = table /\ Quits(t)
        /\ obj' = Less(obj, hold[<<t, "session">>])
    BY <1>0, <1>2, <2>1, SessionCacheAssumption DEF Close, SSL_SESSION_free, cache, Quits, Types
  <2>3. Plain(t)
    BY <1>0, <1>2 DEF Close, Goto, Types, Plain, Calls, Place
  <2> QED
    BY <1>0, <2>1, <2>2, <2>3, FreeSays, PlainPlace DEF Stays, Local
<1>3. CASE Forget(t)
  <2>1. hold[<<t, "saved">>] \in Sessions
    BY <1>0, <1>3 DEF Forget, Hold
  <2>2. /\ hold' = [hold EXCEPT ![<<t, "saved">>] = Null] /\ table' = table /\ Quits(t)
        /\ obj' = Less(obj, hold[<<t, "saved">>])
    BY <1>3, <2>1, SessionCacheAssumption DEF Forget, SSL_SESSION_free, cache, Quits
  <2>3. Plain(t)
    BY <1>0, <1>3 DEF Forget, Types, Plain, Calls, Place
  <2> QED
    BY <1>0, <2>1, <2>2, <2>3, FreeSays, PlainPlace DEF Stays, Local
<1>4. CASE InsertAgain(t)
  <2>1. hold[<<t, "add">>] \in Sessions
    BY <1>0, <1>4 DEF InsertAgain, Control, Hold
  <2>2. /\ hold' = [hold EXCEPT ![<<t, "add">>] = Null] /\ table' = table /\ Quits(t)
        /\ obj' = Less(obj, hold[<<t, "add">>])
    BY <1>4, <2>1, SessionCacheAssumption DEF InsertAgain, SSL_SESSION_free, cache, Quits
  <2>3. Plain(t)
    BY <1>0, <1>4 DEF InsertAgain, Return, Goto, Types, Plain, Calls, Control
  <2> QED
    BY <1>0, <2>1, <2>2, <2>3, FreeSays, PlainPlace DEF Stays, Local
<1> QED
  BY <1>1, <1>2, <1>3, <1>4

(* A resumed session is not a fresh one.                                   *)
LEMMA ResumingStays ==
  ASSUME ~Renewals, IInv, NEW t \in Threads, Resume(t) \/ FinishResumed(t), ~ctx.offers,
         Resumable, Place(t), Others(t)
  PROVE  Stays(t)
<1>0. /\ Types /\ Control(t) /\ Core /\ hold \in Hold /\ obj \in Objects
      /\ {"sess", "session"} \subseteq Slots
  BY DEF IInv, Core, Slots
<1>1. CASE Resume(t)
  <2>1. /\ obj' = obj /\ table' = table /\ Quits(t) /\ hit'[t] = "server"
        /\ pc'[t] = "handshake" /\ then'[t] = "idle"
    BY <1>0, <1>1 DEF Resume, cache, Quits, Goto, Types, Place, Calls
  <2>2. /\ hold'[<<t, "sess">>] = Null
        /\ hold'[<<t, "session">>] = hold[<<t, "sess">>]
        /\ \A r \in Slots \ {"sess", "session"} : hold'[<<t, r>>] = hold[<<t, r>>]
    BY <1>0, <1>1 DEF Resume, Hold, Keys, Slots
  <2>3. Distant(t)
    BY <1>0, <2>1, <2>2, SessionCacheAssumption DEF Distant, Cached
  <2>4. Grows(t) /\ Resumable'
    BY <2>1 DEF Grows, Resumable, Cached
  <2>5. Place(t)'
    BY <2>1 DEF Place, IsFresh, Calls
  <2> QED
    BY <2>1, <2>3, <2>4, <2>5 DEF Stays, Local
<1>2. CASE FinishResumed(t)
  <2>1. /\ obj' = [obj EXCEPT ![session(t)].id = obj[session(t)].id]
        /\ table' = table /\ hold' = hold /\ Quits(t)
    BY <1>2 DEF FinishResumed, RenewedIds, cache, Quits
  <2>2. \A p \in Sessions : obj'[p].notResumable = obj[p].notResumable
    BY <1>0, <2>1 DEF Objects
  <2>3. Distant(t) /\ Grows(t)
    BY <2>1, <2>2 DEF Distant, Grows, Cached
  <2>4. Resumable'
    BY <1>0, <2>1, <2>2, CachedAreSessions DEF Resumable, Cached
  <2>5. Plain(t)
    BY <1>0, <1>2 DEF FinishResumed, Goto, Call, Types, Plain, Calls, Place
  <2> QED
    BY <2>1, <2>3, <2>4, <2>5, PlainPlace DEF Stays, Local
<1> QED
  BY <1>1, <1>2

(* The session that is inserted is one nobody has taken out.               *)
LEMMA InsertingStays ==
  ASSUME IInv, NEW t \in Threads, Insert(t) \/ Replace(t), ~ctx.offers, Resumable, Place(t),
         Others(t)
  PROVE  Stays(t)
<1>0. /\ Types /\ Control(t) /\ Core /\ hold \in Hold /\ obj \in Objects /\ "add" \in Slots
  BY DEF IInv, Core, Slots
<1>1. pc[t] = "insert" /\ IsFresh(t) /\ Private(t)
  BY DEF Insert, Replace, IsFresh, Place
<1>2. PICK c \in Sessions : c = hold[<<t, "add">>] /\ c = Adding(t)
  BY <1>1 DEF Place, Private
<1>3. c \notin Cached /\ ~obj[c].notResumable /\ \E s \in Slots : hold[<<t, s>>] = c
  BY <1>1, <1>2, AddingSlot DEF Private
<1>4. hold' = [hold EXCEPT ![<<t, "add">>] = Null] /\ Quits(t)
  BY DEF Insert, Replace, Quits
<1>5. hold'[<<t, "add">>] = Null /\ \A r \in Slots \ {"add"} : hold'[<<t, r>>] = hold[<<t, r>>]
  BY <1>0, <1>4, HoldAt
<1>6. /\ \A p \in Sessions : obj'[p].notResumable => obj[p].notResumable
      /\ Cached' \subseteq Cached \cup {c}
  <2>1. CASE Insert(t)
    <3>1. obj' = obj /\ \E k : table' = table \cup {[key |-> k, obj |-> c]}
      BY <1>2, <2>1 DEF Insert
    <3>2. \A k : [key |-> k, obj |-> c].obj = c
      OBVIOUS
    <3> QED
      BY <3>1, <3>2 DEF Cached
  <2>2. CASE Replace(t)
    <3>1. PICK n \in table : /\ obj' = Less(obj, n.obj)
                             /\ table' = (table \ {n}) \cup {[n EXCEPT !.obj = c]}
      BY <1>2, <2>2 DEF Replace, Find
    <3>2. n \in Nodes
      BY <1>0 DEF Core
    <3>3. [n EXCEPT !.obj = c].obj = c /\ n.obj \in Sessions
      BY <3>2 DEF Nodes
    <3>4. Cached' \subseteq Cached \cup {c}
      BY <3>1, <3>3 DEF Cached
    <3> QED
      BY <1>0, <3>1, <3>3, <3>4, LessSays
  <2> QED
    BY <2>1, <2>2
<1>7. Distant(t)
  BY <1>3, <1>5, <1>6, SessionCacheAssumption DEF Distant
<1>8. Grows(t)
  BY <1>1, <1>2, <1>6 DEF Grows
<1>9. Resumable'
  BY <1>0, <1>3, <1>6, CachedAreSessions DEF Resumable
<1>10. Plain(t)
  BY <1>0 DEF Insert, Replace, Goto, Types, Plain, Calls
<1> QED
  BY <1>4, <1>7, <1>8, <1>9, <1>10, PlainPlace DEF Stays, Local

LEMMA UnlinkStays ==
  ASSUME IInv, NEW t \in Threads, Unlink(t), ~ctx.offers, Resumable, Place(t), Others(t)
  PROVE  Stays(t)
<1>0. /\ Types /\ Control(t) /\ Core /\ hold \in Hold /\ "r" \in Slots
  BY DEF IInv, Core, Slots
<1>1. PICK n \in table : n.obj = Removing(t)
  BY DEF Unlink, Evictable, FindSession, Find
<1>2. /\ obj' = obj /\ table' = table \ {n} /\ hold' = [hold EXCEPT ![<<t, "r">>] = n.obj]
      /\ Quits(t)
  BY <1>0, <1>1, TableOf DEF Unlink, Quits
<1>3. n.obj \in Cached /\ n.obj \notin Cached' /\ Cached' \subseteq Cached
  BY <1>0, <1>2, TableOf DEF Cached
<1>4. hold'[<<t, "r">>] = n.obj /\ \A s \in Slots \ {"r"} : hold'[<<t, s>>] = hold[<<t, s>>]
  BY <1>0, <1>2, HoldAt
<1>5. Distant(t)
  BY <1>2, <1>3, <1>4 DEF Distant
<1>6. Grows(t) /\ Resumable'
  BY <1>2, <1>3 DEF Grows, Resumable
<1>7. pc'[t] = "removed"
  BY <1>0 DEF Unlink, Goto, Types
<1>8. Place(t)'
  BY <1>3, <1>4, <1>7 DEF Place, IsFresh, Calls
<1> QED
  BY <1>2, <1>5, <1>6, <1>8 DEF Stays, Local

(* What is marked has left the cache, and is nobody's fresh session: the   *)
(* thread that marks it holds it.                                          *)
LEMMA RemovedStays ==
  ASSUME IInv, NEW t \in Threads, Removed(t), ~ctx.offers, Resumable, Place(t), Others(t)
  PROVE  Stays(t)
<1>0. /\ Types /\ Control(t) /\ Core /\ hold \in Hold /\ obj \in Objects /\ "r" \in Slots
  BY DEF IInv, Core, Slots
<1>1. PICK o \in Sessions : o = hold[<<t, "r">>] /\ o \notin Cached
  BY <1>0 DEF Removed, Control, Hold, Keys, Place
<1> DEFINE os == [obj EXCEPT ![o].notResumable = TRUE]
<1>2. /\ obj' = Less(os, o) /\ hold' = [hold EXCEPT ![<<t, "r">>] = Null] /\ table' = table
      /\ Quits(t)
  BY <1>1 DEF Removed, cache, Quits
<1>3. os \in Objects /\ \A p \in Sessions \ {o} : os[p].notResumable = obj[p].notResumable
  BY <1>0 DEF Objects
<1> HIDE DEF os
<1>4. \A p \in Sessions \ {o} : obj'[p].notResumable => obj[p].notResumable
  BY <1>2, <1>3, LessSays
<1>5. hold'[<<t, "r">>] = Null /\ \A s \in Slots \ {"r"} : hold'[<<t, s>>] = hold[<<t, s>>]
  BY <1>0, <1>2, HoldAt
<1>6. Cached' = Cached /\ Grows(t)
  BY <1>2 DEF Cached, Grows
<1>7. Distant(t)
  BY <1>0, <1>1, <1>4, <1>5, <1>6, SessionCacheAssumption DEF Distant
<1>8. Resumable'
  BY <1>0, <1>1, <1>4, <1>6, CachedAreSessions DEF Resumable
<1>9. Plain(t)
  BY <1>0 DEF Removed, Return, Goto, Types, Plain, Calls, Control
<1> QED
  BY <1>2, <1>6, <1>7, <1>8, <1>9, PlainPlace DEF Stays, Local

(* What is evicted or flushed leaves the cache with the mark.              *)
LEMMA UncachingStays ==
  ASSUME IInv, NEW t \in Threads, Evict(t) \/ FlushOne(t), ~ctx.offers, Resumable, Place(t),
         Others(t)
  PROVE  Stays(t)
<1>0. Types /\ Control(t) /\ Core /\ obj \in Objects
  BY DEF IInv, Core
<1>1. PICK n \in table : Uncache(n.obj)
  <2>1. CASE Evict(t)
    BY <2>1 DEF Evict, Evictable, FindSession, Find
  <2>2. CASE FlushOne(t)
    BY <1>0, <2>2 DEF FlushOne, Control
  <2> QED
    BY <2>1, <2>2
<1>2. hold' = hold /\ pc' = pc /\ then' = then /\ hit' = hit /\ pc[t] \in {"evict", "walk"}
  BY DEF Evict, FlushOne
<1>3. table' = table \ {n}
  BY <1>0, <1>1, <1>2, UncacheCore
<1> DEFINE o == n.obj
           os == [obj EXCEPT ![o].notResumable = TRUE]
<1>4. o \in Sessions /\ o \in Cached /\ o \notin Cached' /\ Cached' \subseteq Cached
  BY <1>0, <1>3, TableOf DEF Cached
<1>5. obj' = Less(os, o)
  BY <1>1 DEF Uncache
<1>6. os \in Objects /\ \A p \in Sessions \ {o} : os[p].notResumable = obj[p].notResumable
  BY <1>0 DEF Objects
<1> HIDE DEF os, o
<1>7. \A p \in Sessions \ {o} : obj'[p].notResumable => obj[p].notResumable
  BY <1>4, <1>5, <1>6, LessSays
<1>8. Distant(t)
  BY <1>2, <1>4, <1>7 DEF Distant
<1>9. Grows(t) /\ Quits(t)
  BY <1>2, <1>4 DEF Grows, Quits
<1>10. Resumable'
  BY <1>0, <1>4, <1>7, CachedAreSessions DEF Resumable
<1>11. Plain(t)
  BY <1>2 DEF Plain, Calls
<1> QED
  BY <1>8, <1>9, <1>10, <1>11, PlainPlace DEF Stays, Local

------------------------------------------------------------------------------

LEMMA RInvInit ==
  ASSUME Init
  PROVE  RInv
<1>1. Resumable
  BY DEF Init, Resumable, Cached
<1>2. ASSUME NEW t \in Threads
      PROVE  Place(t)
  BY DEF Init, Place, IsFresh, Calls
<1> QED
  BY <1>1, <1>2 DEF RInv

LEMMA RInvStep ==
  ASSUME ~Renewals, IInv, IInv', RInv, [Next]_vars
  PROVE  RInv'
<1>1. CASE UNCHANGED vars
  BY <1>1 DEF vars, RInv, Resumable, Place, Private, IsFresh, Cached, Adding, session
<1>2. ASSUME Next
      PROVE  RInv'
  <2> SUFFICES ASSUME ~ctx.offers
               PROVE  Resumable' /\ \A t \in Threads : Place(t)'
    BY <1>2 DEF RInv, Next
  <2>1. Resumable /\ \A t \in Threads : Place(t)
    BY DEF RInv
  <2>2. ASSUME NEW o \in Sessions, Expire(o)
        PROVE  Resumable' /\ \A t \in Threads : Place(t)'
    <3>1. /\ obj' = [obj EXCEPT ![o].expired = TRUE]
          /\ UNCHANGED <<table, hold, pc, then, hit>>
      BY <2>2 DEF Expire, cache
    <3>2. \A p \in Sessions : obj'[p].notResumable = obj[p].notResumable
      BY <3>1 DEF IInv, Core, Objects
    <3>3. Resumable'
      BY <2>1, <3>1, <3>2, CachedAreSessions DEF Resumable, Cached, IInv
    <3> QED
      BY <2>1, <3>1, <3>2, <3>3 DEF Place, Private, IsFresh, Cached, Adding, session
  <2>3. ASSUME NEW t \in Threads, Step(t), ctx' = ctx
        PROVE  Resumable' /\ \A u \in Threads : Place(u)'
    <3>1. Place(t) /\ Others(t)
      BY <2>1, <2>3, StepKeeps
    <3>2. Stays(t)
      <4>1. CASE Quiet(t)
        BY <2>1, <2>3, <3>1, <4>1, QuietStays
      <4>2. CASE FromCache(t) \/ ConnectWith(t) \/ Save(t)
        BY <2>1, <3>1, <4>2, TakingStays
      <4>3. CASE AddReference(t)
        BY <2>1, <3>1, <4>3, AddReferenceStays
      <4>4. CASE New(t) \/ Connect(t)
        BY <2>1, <3>1, <4>4, NewStays
      <4>5. CASE FromCallback(t)
        BY <2>1, <3>1, <4>5, FromCallbackStays
      <4>6. CASE Drop(t) \/ Close(t) \/ Forget(t) \/ InsertAgain(t)
        BY <2>1, <3>1, <4>6, FreeingStays
      <4>7. CASE Resume(t) \/ FinishResumed(t)
        BY <2>1, <3>1, <4>7, ResumingStays
      <4>8. CASE Insert(t) \/ Replace(t)
        BY <2>1, <3>1, <4>8, InsertingStays
      <4>9. CASE Unlink(t)
        BY <2>1, <3>1, <4>9, UnlinkStays
      <4>10. CASE Removed(t)
        BY <2>1, <3>1, <4>10, RemovedStays
      <4>11. CASE Evict(t) \/ FlushOne(t)
        BY <2>1, <3>1, <4>11, UncachingStays
      <4> QED
        BY <2>3, <4>1, <4>2, <4>3, <4>4, <4>5, <4>6, <4>7, <4>8, <4>9, <4>10, <4>11
           DEF Step, Locked, Quiet
    <3>3. \A u \in Threads \ {t} : Place(u)'
      BY <2>1, <3>2, OthersStay DEF Stays
    <3> QED
      BY <3>2, <3>3 DEF Stays
  <2> QED
    BY <1>2, <2>2, <2>3 DEF Next
<1> QED
  BY <1>1, <1>2

(* When the application adds no session and no ticket of a resumed session *)
(* is renewed, a session that has been taken out of the cache as bad, as   *)
(* expired or as one too many is never in it again (remove_session_lock,   *)
(* timeout_doall_arg, ssl_update_cache).                                   *)
THEOREM RemovedIsOut == ASSUME ~Renewals PROVE Spec => []RemovedStaysOut
<1>1. Init => RInv
  BY RInvInit
<1>2. IInv /\ IInv' /\ RInv /\ [Next]_vars => RInv'
  BY RInvStep
<1>3. RInv => RemovedStaysOut
  BY DEF RInv, Resumable, RemovedStaysOut
<1>4. Spec => []IInv
  BY InvAlways
<1> QED
  BY <1>1, <1>2, <1>3, <1>4, PTL DEF Spec
=============================================================================
