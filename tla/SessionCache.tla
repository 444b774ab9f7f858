---------------------------- MODULE SessionCache ----------------------------
(***************************************************************************)
(* The internal session cache of an SSL_CTX (ssl_sess.c of the vendored    *)
(* LibreSSL) and the threads that share it: servers that look a session    *)
(* up, servers and clients that add the one they negotiated, connections   *)
(* that end badly and take theirs out, expiry, the limit on the cache and  *)
(* an external cache behind the application's callbacks.                   *)
(*                                                                         *)
(* CRYPTO_LOCK_SSL_CTX is the variable lock.  What a thread does between   *)
(* taking and releasing it in one go is one action; where the lock is held *)
(* across a loop the loop's turns are actions.  CRYPTO_LOCK_SSL_SESSION    *)
(* makes each change of a reference count atomic and is always taken last. *)
(*                                                                         *)
(* Data: a session is an object with an id; its hash value is the id.      *)
(***************************************************************************)
EXTENDS Integers, FiniteSets

CONSTANTS
  Threads,
  Clients,    \* the threads that connect as well as accept
  Sessions,   \* the SSL_SESSION objects there is memory for
  Ids,        \* session ids of positive length
  NoId,       \* the id of length 0
  Null,       \* the null pointer
  Head, Tail, \* &ctx->session_cache_head and &ctx->session_cache_tail
  Contexts,   \* the SSL_CTX to explore: their session_cache_size, 0 for no limit,
              \* whether the application keeps an external cache, and whether it
              \* calls SSL_CTX_add_session itself
  Renewals    \* whether servers renew the ticket of a session they resume

ASSUME SessionCacheAssumption ==
  /\ IsFiniteSet(Threads) /\ Clients \subseteq Threads
  /\ Renewals \in BOOLEAN
  /\ Contexts \subseteq [size : Nat, external : BOOLEAN, offers : BOOLEAN]
  /\ NoId \notin Ids
  /\ Null \notin Sessions \cup Threads
  /\ {Head, Tail} \cap (Sessions \cup {Null}) = {}

VARIABLES
  ctx,          \* the SSL_CTX
  obj,          \* the SSL_SESSION objects
  table,        \* the nodes of the lhash ctx->sessions
  list,         \* the doubly linked list: head, tail, next and prev
  ext,          \* the ids in the application's external cache
  lock,         \* the thread that holds CRYPTO_LOCK_SSL_CTX
  pc, then,     \* where each thread is, and where it returns to
  hit,          \* s->hit, and whose offer it was: "no", "server" or "client"
  hold,         \* the counted references of each thread, by the variable they are in
  todo          \* the nodes a walk over the table has yet to visit

vars == <<ctx, obj, table, list, ext, lock, pc, then, hit, hold, todo>>

\* s->session; sess of ssl_get_prev_session; the count SSL_CTX_add_session takes for
\* the cache; r of remove_session_lock; a session the application keeps.
Slots == {"session", "sess", "add", "r", "saved"}
Keys == Threads \X Slots

------------------------------------------------------------------------------
(* The list. *)

\* Mutant of SSL_SESSION_list_remove: the tail stays where it was.
ListRemoveKeepsTail(l, s) ==
  IF l.next[s] = Null \/ l.prev[s] = Null THEN l
  ELSE LET n == [l.next EXCEPT ![s] = Null]
           p == [l.prev EXCEPT ![s] = Null]
           next == IF l.prev[s] = Head THEN n ELSE [n EXCEPT ![l.prev[s]] = l.next[s]]
           prev == IF l.next[s] = Tail THEN p ELSE [p EXCEPT ![l.next[s]] = l.prev[s]]
       IN IF l.next[s] = Tail /\ l.prev[s] = Head
          THEN [head |-> Null, tail |-> Null, next |-> next, prev |-> prev]
          ELSE [head |-> IF l.prev[s] = Head THEN l.next[s] ELSE l.head, tail |-> l.tail,
                next |-> next, prev |-> prev]

SSL_SESSION_list_remove(l, s) ==
  IF l.next[s] = Null \/ l.prev[s] = Null THEN l
  ELSE LET last  == l.next[s] = Tail
           first == l.prev[s] = Head
           next  == [l.next EXCEPT ![s] = Null]
           prev  == [l.prev EXCEPT ![s] = Null]
       IN CASE last /\ first  -> [head |-> Null, tail |-> Null, next |-> next, prev |-> prev]
            [] last /\ ~first -> [head |-> l.head, tail |-> l.prev[s],
                                  next |-> [next EXCEPT ![l.prev[s]] = Tail], prev |-> prev]
            [] ~last /\ first -> [head |-> l.next[s], tail |-> l.tail,
                                  next |-> next, prev |-> [prev EXCEPT ![l.next[s]] = Head]]
            [] OTHER          -> [head |-> l.head, tail |-> l.tail,
                                  next |-> [next EXCEPT ![l.prev[s]] = l.next[s]],
                                  prev |-> [prev EXCEPT ![l.next[s]] = l.prev[s]]]

SSL_SESSION_list_add(li, s) ==
  LET l == SSL_SESSION_list_remove(li, s)
  IN IF l.head = Null
     THEN [head |-> s, tail |-> s, next |-> [l.next EXCEPT ![s] = Tail],
           prev |-> [l.prev EXCEPT ![s] = Head]]
     ELSE [head |-> s, tail |-> l.tail, next |-> [l.next EXCEPT ![s] = l.head],
           prev |-> [l.prev EXCEPT ![s] = Head, ![l.head] = s]]

------------------------------------------------------------------------------
(* The table. *)

\* getrn: the nodes inserted under id i whose session still has it.
Find(i) == {n \in table : n.key = i /\ obj[n.obj].id = i}
FindSession(i) == {n.obj : n \in Find(i)}
Cached == {n.obj : n \in table}

------------------------------------------------------------------------------
(* The objects: references (0 when the memory is free), session_id, whether *)
(* time + timeout has passed, and not_resumable.                            *)

Free == [refs |-> 0, id |-> NoId, expired |-> FALSE, notResumable |-> FALSE]
Born(i) == [refs |-> 1, id |-> i, expired |-> FALSE, notResumable |-> FALSE]
Unused == {o \in Sessions : obj[o].refs = 0}

\* One reference less; without the last the memory is cleared and freed.
Less(os, o) ==
  [os EXCEPT ![o] = IF os[o].refs = 1 THEN Free ELSE [os[o] EXCEPT !.refs = @ - 1]]

\* The thread's variable k gets a new reference to o.
Take(k, o) ==
  /\ obj' = [obj EXCEPT ![o].refs = @ + 1]
  /\ hold' = [hold EXCEPT ![k] = o]

\* SSL_SESSION_free of the thread's variable k.
SSL_SESSION_free(k) ==
  /\ obj' = IF hold[k] = Null THEN obj ELSE Less(obj, hold[k])
  /\ hold' = [hold EXCEPT ![k] = Null]

\* SSL_SESSION_new in the thread's variable k, with the id it is given.
SSL_SESSION_new(k, o, i) ==
  /\ o \in Unused
  /\ obj' = [obj EXCEPT ![o] = Born(i)]
  /\ hold' = [hold EXCEPT ![k] = o]

Goto(t, next) == pc' = [pc EXCEPT ![t] = next]
Call(t, f, next) == Goto(t, f) /\ then' = [then EXCEPT ![t] = next]
Return(t) == Goto(t, then[t]) /\ then' = [then EXCEPT ![t] = "idle"]

session(t) == hold[<<t, "session">>]
cache == <<table, list, lock, todo>>

------------------------------------------------------------------------------
(* A server reads a ClientHello. *)

\* ssl_session_from_cache
FromCache(t) ==
  /\ pc[t] = "idle" /\ lock = Null
  /\ \E i \in Ids : \E o \in FindSession(i) : Take(<<t, "sess">>, o)
  /\ Goto(t, "check")
  /\ UNCHANGED <<cache, ext, then, hit>>

\* ssl_session_from_callback: the callback decodes a copy, which is added.
FromCallback(t) ==
  /\ pc[t] = "idle" /\ lock = Null
  /\ \E i \in ext, o \in Sessions :
       /\ FindSession(i) = {}
       /\ SSL_SESSION_new(<<t, "sess">>, o, i)
  /\ Call(t, "add", "check")
  /\ UNCHANGED <<cache, ext, hit>>

\* No id, or nobody knows it, or a ticket that does not decrypt.
NoPrevious(t) ==
  /\ pc[t] = "idle"
  /\ Goto(t, "new")
  /\ UNCHANGED <<obj, cache, ext, then, hit, hold>>

\* ssl_get_prev_session resumes the session it has.
Resume(t) ==
  LET o == hold[<<t, "sess">>]
  IN /\ pc[t] = "check" /\ ~obj[o].expired
     /\ hold' = [hold EXCEPT ![<<t, "sess">>] = Null, ![<<t, "session">>] = o]
     /\ hit' = [hit EXCEPT ![t] = "server"]
     /\ Goto(t, "handshake")
     /\ UNCHANGED <<obj, cache, ext, then>>

\* It has expired: it is removed from the cache, then dropped.
TooOld(t) ==
  /\ pc[t] = "check" /\ obj[hold[<<t, "sess">>]].expired
  /\ Call(t, "remove", "drop")
  /\ UNCHANGED <<obj, cache, ext, hit, hold>>

\* A cache miss: expired, or (sid_ctx) of another context.
Drop(t) ==
  /\ pc[t] \in {"check", "drop"}
  /\ SSL_SESSION_free(<<t, "sess">>)
  /\ Goto(t, "new")
  /\ UNCHANGED <<cache, ext, then, hit>>

\* ssl_get_new_session: an id nobody in the cache has, or none if there is a ticket.
New(t) ==
  /\ pc[t] = "new" /\ lock = Null
  /\ \E o \in Sessions, i \in {j \in Ids : Find(j) = {}} \cup {NoId} :
       SSL_SESSION_new(<<t, "session">>, o, i)
  /\ Goto(t, "handshake")
  /\ UNCHANGED <<cache, ext, then, hit>>

NoMemory(t) ==
  /\ pc[t] = "new" /\ Unused = {}
  /\ Goto(t, "idle")
  /\ UNCHANGED <<obj, cache, ext, then, hit, hold>>

------------------------------------------------------------------------------
(* A client connects. *)

\* Without a session, or the server does not resume it: a new one, with the id that
\* the server assigns or the digest of its ticket.
Connect(t) ==
  /\ t \in Clients /\ pc[t] = "idle"
  /\ \E o \in Sessions, i \in Ids \cup {NoId} : SSL_SESSION_new(<<t, "session">>, o, i)
  /\ Goto(t, "handshake")
  /\ UNCHANGED <<cache, ext, then, hit>>

\* SSL_set_session, and the server resumes the session.
ConnectWith(t) ==
  LET o == hold[<<t, "saved">>]
  IN /\ pc[t] = "idle" /\ o # Null
     /\ ~obj[o].notResumable /\ obj[o].id # NoId
     /\ Take(<<t, "session">>, o)
     /\ hit' = [hit EXCEPT ![t] = "client"]
     /\ Goto(t, "handshake")
     /\ UNCHANGED <<cache, ext, then>>

\* SSL_get1_session
Save(t) ==
  /\ t \in Clients /\ pc[t] = "open" /\ hold[<<t, "saved">>] = Null
  /\ Take(<<t, "saved">>, session(t))
  /\ UNCHANGED <<cache, ext, pc, then, hit>>

\* The application is done with what it saved.
Forget(t) ==
  /\ pc[t] = "idle" /\ hold[<<t, "saved">>] # Null
  /\ SSL_SESSION_free(<<t, "saved">>)
  /\ UNCHANGED <<cache, ext, pc, then, hit>>

------------------------------------------------------------------------------
(* The end of a handshake and of a connection. *)

\* ssl3_get_new_session_ticket gives the client's session the digest of the ticket
\* as its id, also when it is one that is being resumed.
RenewedIds(t) ==
  IF Renewals /\ hit[t] = "client" THEN Ids ELSE {obj[session(t)].id}

\* ssl_update_cache adds no resumed session, but flushes at every 255th connection.
FinishResumed(t) ==
  /\ pc[t] = "handshake" /\ hit[t] # "no"
  /\ \E i \in RenewedIds(t) : obj' = [obj EXCEPT ![session(t)].id = i]
  /\ \/ Goto(t, "open") /\ UNCHANGED then
     \/ obj'[session(t)].id # NoId /\ Call(t, "flush", "open")
  /\ UNCHANGED <<cache, ext, hit, hold>>

\* Mutant of FinishNew: a resumed session is added as well.
FinishAny(t) ==
  /\ pc[t] = "handshake"
  /\ IF obj[session(t)].id = NoId THEN Goto(t, "open") /\ UNCHANGED then
                                  ELSE Call(t, "add", "notify")
  /\ UNCHANGED <<obj, cache, ext, hit, hold>>

\* ssl_update_cache
FinishNew(t) ==
  /\ pc[t] = "handshake" /\ hit[t] = "no"
  /\ IF obj[session(t)].id = NoId THEN Goto(t, "open") /\ UNCHANGED then
                                  ELSE Call(t, "add", "notify")
  /\ UNCHANGED <<obj, cache, ext, hit, hold>>

\* new_session_cb, which stores a copy, then the flush of every 255th connection.
Notify(t) ==
  /\ pc[t] = "notify"
  /\ ext' = IF ctx.external THEN ext \cup {obj[session(t)].id} ELSE ext
  /\ \/ Goto(t, "open") /\ UNCHANGED then
     \/ Call(t, "flush", "open")
  /\ UNCHANGED <<obj, cache, hit, hold>>

\* The application adds the session of a connection to the cache.
Offer(t) ==
  /\ ctx.offers /\ pc[t] = "open" /\ obj[session(t)].id # NoId
  /\ Call(t, "add", "open")
  /\ UNCHANGED <<obj, cache, ext, hit, hold>>

\* A fatal alert, or the end of an open connection without a shutdown.
Fail(t) ==
  /\ pc[t] \in {"handshake", "open"}
  /\ Call(t, "remove", "close")
  /\ UNCHANGED <<obj, cache, ext, hit, hold>>

\* SSL_free; in the middle of a handshake ssl_clear_bad_session removes nothing.
Close(t) ==
  /\ pc[t] \in {"handshake", "open", "close"}
  /\ SSL_SESSION_free(<<t, "session">>)
  /\ hit' = [hit EXCEPT ![t] = "no"]
  /\ Goto(t, "idle")
  /\ UNCHANGED <<cache, ext, then>>

------------------------------------------------------------------------------
(* SSL_CTX_add_session *)

\* The session that is being added: one from the callback or a negotiated one.
Adding(t) == IF then[t] = "check" THEN hold[<<t, "sess">>] ELSE session(t)

AddReference(t) ==
  /\ pc[t] = "add"
  /\ Take(<<t, "add">>, Adding(t))
  /\ Goto(t, "insert")
  /\ UNCHANGED <<cache, ext, then, hit>>

\* A new entry: the reference now belongs to the cache.
Insert(t) ==
  LET c == hold[<<t, "add">>]
  IN /\ pc[t] = "insert" /\ lock = Null
     /\ Find(obj[c].id) = {}
     /\ table' = table \cup {[key |-> obj[c].id, obj |-> c]}
     /\ list' = SSL_SESSION_list_add(list, c)
     /\ hold' = [hold EXCEPT ![<<t, "add">>] = Null]
     /\ lock' = t
     /\ Goto(t, "evict")
     /\ UNCHANGED <<obj, todo, ext, then, hit>>

\* Another object has the id and loses its place to this one.
Replace(t) ==
  LET c == hold[<<t, "add">>]
  IN /\ pc[t] = "insert" /\ lock = Null
     /\ \E n \in Find(obj[c].id) :
          /\ n.obj # c
          /\ table' = (table \ {n}) \cup {[n EXCEPT !.obj = c]}
          /\ list' = SSL_SESSION_list_add(SSL_SESSION_list_remove(list, n.obj), c)
          /\ obj' = Less(obj, n.obj)
     /\ hold' = [hold EXCEPT ![<<t, "add">>] = Null]
     /\ lock' = t
     /\ Goto(t, "evict")
     /\ UNCHANGED <<todo, ext, then, hit>>

\* Mutant of InsertAgain: the reference taken for the cache is not taken back.
InsertAgainLeaks(t) ==
  LET c == hold[<<t, "add">>]
  IN /\ pc[t] = "insert" /\ lock = Null
     /\ c \in FindSession(obj[c].id)
     /\ hold' = [hold EXCEPT ![<<t, "add">>] = Null]
     /\ Return(t)
     /\ UNCHANGED <<obj, cache, ext, hit>>

\* It is there already.
InsertAgain(t) ==
  LET c == hold[<<t, "add">>]
  IN /\ pc[t] = "insert" /\ lock = Null
     /\ c \in FindSession(obj[c].id)
     /\ SSL_SESSION_free(<<t, "add">>)
     /\ Return(t)
     /\ UNCHANGED <<cache, ext, hit>>

\* Session s leaves the cache: the nodes that lh_SSL_SESSION_delete finds for it, its
\* place in the list and the cache's reference go, remove_session_cb is called.
Uncache(s) ==
  /\ table' = table \ Find(obj[s].id)
  /\ list' = SSL_SESSION_list_remove(list, s)
  /\ ext' = ext \ {obj[s].id}
  /\ obj' = Less([obj EXCEPT ![s].notResumable = TRUE], s)

\* Mutant of OverLimit: one more than the limit.
OverLimitByOne == ctx.size > 0 /\ Cardinality(table) > ctx.size + 1

OverLimit == ctx.size > 0 /\ Cardinality(table) > ctx.size
Evictable(s) == s # Null /\ obj[s].id # NoId /\ s \in FindSession(obj[s].id)

\* The cache is too large: remove_session_lock(ctx, ctx->session_cache_tail, 0).
Evict(t) ==
  /\ pc[t] = "evict" /\ OverLimit /\ Evictable(list.tail)
  /\ Uncache(list.tail)
  /\ UNCHANGED <<lock, todo, pc, then, hit, hold>>

\* It is small enough, or the last session of the list cannot be removed.
Added(t) ==
  /\ pc[t] = "evict" /\ ~(OverLimit /\ Evictable(list.tail))
  /\ lock' = Null
  /\ Return(t)
  /\ UNCHANGED <<obj, table, list, todo, ext, hit, hold>>

------------------------------------------------------------------------------
(* SSL_CTX_remove_session *)

Removing(t) == IF then[t] = "drop" THEN hold[<<t, "sess">>] ELSE session(t)

\* Under the lock: the cache's reference becomes r.
Unlink(t) ==
  LET c == Removing(t)
  IN /\ pc[t] = "remove" /\ lock = Null
     /\ Evictable(c)
     /\ table' = table \ Find(obj[c].id)
     /\ list' = SSL_SESSION_list_remove(list, c)
     /\ hold' = [hold EXCEPT ![<<t, "r">>] = c]
     /\ Goto(t, "removed")
     /\ UNCHANGED <<obj, lock, todo, ext, then, hit>>

\* Mutant of NotThere: SSL_SESSION_free although nothing was found.
NotThereFrees(t) ==
  /\ pc[t] = "remove" /\ lock = Null
  /\ ~Evictable(Removing(t))
  /\ obj' = Less(obj, Removing(t))
  /\ Return(t)
  /\ UNCHANGED <<cache, ext, hit, hold>>

\* It is not in the cache.
NotThere(t) ==
  /\ pc[t] = "remove" /\ lock = Null
  /\ ~Evictable(Removing(t))
  /\ Return(t)
  /\ UNCHANGED <<obj, cache, ext, hit, hold>>

\* After the lock: not_resumable, remove_session_cb, and the reference goes.
Removed(t) ==
  LET r == hold[<<t, "r">>]
  IN /\ pc[t] = "removed"
     /\ obj' = Less([obj EXCEPT ![r].notResumable = TRUE], r)
     /\ hold' = [hold EXCEPT ![<<t, "r">>] = Null]
     /\ ext' = ext \ {obj[r].id}
     /\ Return(t)
     /\ UNCHANGED <<cache, hit>>

------------------------------------------------------------------------------
(* SSL_CTX_flush_sessions *)

StartFlush(t) ==
  /\ pc[t] = "flush" /\ lock = Null
  /\ lock' = t
  /\ todo' = table
  /\ Goto(t, "walk")
  /\ UNCHANGED <<obj, table, list, ext, then, hit, hold>>

\* timeout_doall_arg of a session that has expired
FlushOne(t) ==
  /\ pc[t] = "walk"
  /\ \E n \in todo :
       /\ obj[n.obj].expired
       /\ Uncache(n.obj)
       /\ todo' = todo \ {n}
  /\ UNCHANGED <<lock, pc, then, hit, hold>>

KeepOne(t) ==
  /\ pc[t] = "walk"
  /\ \E n \in todo :
       /\ ~obj[n.obj].expired
       /\ todo' = todo \ {n}
  /\ UNCHANGED <<obj, table, list, lock, ext, pc, then, hit, hold>>

Flushed(t) ==
  /\ pc[t] = "walk" /\ todo = {}
  /\ lock' = Null
  /\ Return(t)
  /\ UNCHANGED <<obj, table, list, todo, ext, hit, hold>>

------------------------------------------------------------------------------

\* Time passes.
Expire(o) ==
  /\ o \notin Unused /\ ~obj[o].expired
  /\ obj' = [obj EXCEPT ![o].expired = TRUE]
  /\ UNCHANGED <<cache, ext, pc, then, hit, hold>>

Init ==
  /\ ctx \in Contexts
  /\ obj = [o \in Sessions |-> Free]
  /\ table = {} /\ todo = {} /\ ext = {} /\ lock = Null
  /\ list = [head |-> Null, tail |-> Null, next |-> [o \in Sessions |-> Null],
             prev |-> [o \in Sessions |-> Null]]
  /\ pc = [t \in Threads |-> "idle"]
  /\ then = [t \in Threads |-> "idle"]
  /\ hit = [t \in Threads |-> "no"]
  /\ hold = [k \in Keys |-> Null]

\* What a thread does while it holds the lock.
Locked(t) == Evict(t) \/ Added(t) \/ FlushOne(t) \/ KeepOne(t) \/ Flushed(t)

Step(t) ==
  \/ FromCache(t) \/ FromCallback(t) \/ NoPrevious(t) \/ Resume(t) \/ TooOld(t) \/ Drop(t)
  \/ New(t) \/ NoMemory(t) \/ Connect(t) \/ ConnectWith(t) \/ Save(t) \/ Forget(t)
  \/ FinishResumed(t) \/ FinishNew(t) \/ Notify(t) \/ Offer(t) \/ Fail(t) \/ Close(t)
  \/ AddReference(t) \/ Insert(t) \/ Replace(t) \/ InsertAgain(t)
  \/ Unlink(t) \/ NotThere(t) \/ Removed(t) \/ StartFlush(t) \/ Locked(t)

Next ==
  /\ (\E t \in Threads : Step(t)) \/ (\E o \in Sessions : Expire(o))
  /\ UNCHANGED ctx

Spec == Init /\ [][Next]_vars

------------------------------------------------------------------------------
(* Properties. *)

Nodes == [key : Ids, obj : Sessions]
Places == {"idle", "check", "drop", "new", "handshake", "notify", "open", "close", "add",
           "insert", "evict", "remove", "removed", "flush", "walk"}

\* The variables keep their types.
TypeOK ==
  /\ ctx \in Contexts
  /\ obj \in [Sessions -> [refs : Nat, id : Ids \cup {NoId}, expired : BOOLEAN,
                           notResumable : BOOLEAN]]
  /\ table \subseteq Nodes /\ todo \subseteq Nodes /\ ext \subseteq Ids
  /\ lock \in Threads \cup {Null}
  /\ pc \in [Threads -> Places] /\ then \in [Threads -> Places]
  /\ hit \in [Threads -> {"no", "server", "client"}]
  /\ hold \in [Keys -> Sessions \cup {Null}]

\* The reference count of a session is the number of pointers to it that own a
\* reference, the cache as one of them: no session is freed while somebody uses it
\* and none is leaked, whatever threads look up, add, replace, evict, flush and
\* remove at the same time (CRYPTO_add in ssl_sess.c).
RefsExact ==
  \A o \in Sessions :
    obj[o].refs = Cardinality({k \in Keys : hold[k] = o}) + (IF o \in Cached THEN 1 ELSE 0)

\* The session n steps behind the head of the list.
Nth[n \in Nat] == IF n = 0 THEN list.head
                 ELSE IF Nth[n - 1] \in Sessions THEN list.next[Nth[n - 1]] ELSE Null

\* The list holds exactly the sessions of the table, its two directions agree and
\* its ends are its ends: each session is reached by eviction and by lookup
\* (SSL_SESSION_list_add, SSL_SESSION_list_remove and the lhash calls beside them).
ListMatchesTable ==
  LET n == Cardinality(table)
  IN /\ {Nth[k] : k \in 0 .. n - 1} = Cached
     /\ IF n = 0 THEN list.head = Null /\ list.tail = Null
        ELSE /\ Nth[n] = Tail /\ Nth[n - 1] = list.tail
             /\ \A k \in 0 .. n - 1 :
                  list.prev[Nth[k]] = IF k = 0 THEN Head ELSE Nth[k - 1]
     /\ \A o \in Sessions \ Cached : list.next[o] = Null /\ list.prev[o] = Null

\* Nobody finds the cache above its limit (the eviction of SSL_CTX_add_session).
LimitHolds == lock = Null /\ ctx.size > 0 => Cardinality(table) <= ctx.size

\* A session taken out of the cache as bad, expired or one too many never comes
\* back, unless the application puts it there (remove_session_lock,
\* timeout_doall_arg, ssl_update_cache).  The session is the object: with an external
\* cache another one of the same id may come in through get_session_cb between Unlink
\* and Removed, before remove_session_cb is called (ssl_sess.c:847-853).
RemovedStaysOut == ~ctx.offers => \A o \in Cached : ~obj[o].notResumable
=============================================================================
