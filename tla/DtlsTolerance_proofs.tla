----------------------- MODULE DtlsTolerance_proofs -----------------------
(***************************************************************************)
(* A full handshake survives f faults of the network when an endpoint may  *)
(* time out 2 * f + 1 times: with DTLS1_TMO_ALERT_COUNT of 12, five.  The  *)
(* handshakes are those without a client certificate in which SSL_accept   *)
(* demands no cookie; a single fault can break each of the others.         *)
(*                                                                         *)
(* Why: a flight and its answer are lost only to a fault, so two timeouts  *)
(* in a row without one bring the handshake on.  The invariant counts the  *)
(* timeouts of whoever waits against the faults and against the hope there *)
(* is: 2 when only a fault can now keep the next flight from arriving, 1   *)
(* when that flight is asked for, 0 when another timeout has to ask for    *)
(* it.  What makes hope certain is that record numbers only grow: what is  *)
(* sent is newer than all that is on its way and all that has been seen,   *)
(* so that the replay window drops none of it, and a queue without faults  *)
(* delivers it in order.  A server that has completed counts no timeouts   *)
(* but the Finished messages it answers, and each of these is one of the   *)
(* client's tries.                                                         *)
(***************************************************************************)
EXTENDS Dtls_proofs

------------------------------------------------------------------------------
(* Which records are newer than all that a reader has seen in their epoch.  *)

Newer(b, n) == n > b.max \/ b = NoRecords
MapOf(s, ep) == IF ep = s.readEpoch THEN s.bitmap ELSE s.nextBitmap
New(s, m) == Newer(MapOf(s, m.epoch), m.rseq)

\* Messages of the types due are on their way in q, in this order, all of them new to s.
Coming(q, s, due) ==
  \E f \in [DOMAIN due -> DOMAIN q] :
    /\ \A i, j \in DOMAIN due : i < j => f[i] < f[j]
    /\ \A i \in DOMAIN due : q[f[i]].type = due[i] /\ New(s, q[f[i]])

\* What each waits for until it answers.
ClientDue(c) ==
  CASE c.st = "CR_SRVR_HELLO" -> <<"SH", "CERT", "SHD">>
    [] c.st = "CR_CERT" -> <<"CERT", "SHD">>
    [] c.st = "CR_CERT_REQ" -> <<"SHD">>
    [] c.st = "CR_SESSION_TICKET" -> <<"NST", "CCS", "FIN">>
    [] c.st = "CR_FINISHED" /\ c.readEpoch = 0 -> <<"CCS", "FIN">>
    [] OTHER -> <<"FIN">>
ServerDue(s) ==
  CASE s.st = "SR_KEY_EXCH" -> <<"CKE", "CCS", "FIN">>
    [] s.st = "SR_CERT_VRFY" /\ s.readEpoch = 0 -> <<"CCS", "FIN">>
    [] OTHER -> <<"FIN">>

\* The messages of q are of the types ts.
Sends(q, ts) == Len(q) = Len(ts) /\ \A i \in 1 .. Len(ts) : q[i].type = ts[i]
LastTypes(md) == IF md.ticket THEN <<"NST", "CCS", "FIN">> ELSE <<"CCS", "FIN">>
MyHello(c) == IF c.sendCookie THEN "CHC" ELSE "CH"
Has(Q, x) == \E m \in Q : m.type = x

\* The server is through with cookies.
Settled(s) == s.st \notin {"SR_CLNT_HELLO", "SW_HELLO_VERIFY"}

------------------------------------------------------------------------------
(* The client c, the server s; U and D are the sets of the records on their *)
(* way up to the server and down to the client.                             *)

\* Nobody has failed, and what could make an endpoint fail does not occur.
Quiet(c, s, U, D) ==
  /\ c.failed = "no" /\ s.failed = "no"
  /\ \A m \in U : m.type \notin {"APP", "ALERT"}
  /\ \A m \in D : m.type # "ALERT"
  /\ \A m \in c.unprocessed \cup s.unprocessed : m.type = "FIN"
  /\ s.appQueue = {} /\ s.buffered = {}

\* Where no timer runs there was no timeout either.
Idle(s) == ~s.timer /\ s.tries = 0
Clocks(c, s) ==
  /\ s.st \in {"SR_CLNT_HELLO", "SW_HELLO_VERIFY", "SW_SRVR_HELLO", "SW_CHANGE"} => Idle(s)
  /\ s.st = "OK" => ~s.timer
  /\ c.st \in {"CW_CLNT_HELLO", "CR_CERT_REQ", "CW_CERT"} => Idle(c)

\* What is kept for retransmission is the flight the peer waits for.
Flights(md, c, s) ==
  /\ s.st \in {"SR_KEY_EXCH", "SR_CERT_VRFY"} => Sends(s.sent, <<"SH", "CERT", "SHD">>)
  /\ s.st = "OK" => Sends(s.sent, LastTypes(md))
  /\ c.st = "CW_CLNT_HELLO" => c.sent = <<>>
  /\ c.st \in {"CR_SRVR_HELLO", "CR_CERT"} => Sends(c.sent, <<MyHello(c)>>)
  /\ c.writeEpoch = 1 => Sends(c.sent, <<"CKE", "CCS", "FIN">>)

\* How far the one can be when the other has come so far.
Stages(md, c, s, U, D) ==
  /\ Settled(s) => c.st # "CW_CLNT_HELLO" /\ (c.sendCookie <=> md.cookie # "none")
  /\ Has(U, "CHC") => c.st # "CW_CLNT_HELLO" /\ c.sendCookie
  /\ Has(U, "CKE") \/ s.st = "SR_CERT_VRFY" => c.writeEpoch = 1
  /\ c.wseq[1] = IF c.writeEpoch = 1 THEN c.tries + 1 ELSE 0
  /\ c.st = "CW_CLNT_HELLO" /\ ~c.sendCookie => c.wseq[0] = 0
  /\ ~Helloed(s.st) => \A m \in D : m.type = "HVR"

\* The records on their way from w to r, in q, have numbers below the next one that w
\* gives, in the order they were written in, and r has seen none above.
Under(b, n) == b = NoRecords \/ b.max < n
Link(w, r, q) ==
  /\ \A i, j \in DOMAIN q :
       i < j /\ q[i].epoch = q[j].epoch /\ q[j].type # "HVR" => q[i].rseq < q[j].rseq
  /\ \A i \in DOMAIN q : q[i].rseq < w.wseq[q[i].epoch]
  /\ Under(r.bitmap, w.wseq[r.readEpoch])
  /\ r.readEpoch = 0 => Under(r.nextBitmap, w.wseq[1])
  /\ \A m \in r.unprocessed : m.rseq < w.wseq[1] /\ ~Unseen(MapOf(r, 1), m.rseq)
  /\ \A m, n \in r.unprocessed : m.rseq = n.rseq => m = n

\* Before that, the server answers under the numbers of the requests: those of the
\* ClientHellos without a cookie are all below those with one.
Opening(md, c, s, U, D) ==
  /\ c.nextBitmap = NoRecords /\ c.unprocessed = {}
  /\ ~c.sendCookie => c.bitmap = NoRecords
  /\ md.cookie = "none" => s.bitmap = NoRecords
  /\ \E h \in 0 .. c.wseq[0] :
       /\ Under(c.bitmap, h)
       /\ \A m \in U : IF m.type = "CHC" THEN h <= m.rseq ELSE m.rseq < h
       /\ \A m \in D : m.rseq < h
       /\ s.st = "SW_HELLO_VERIFY" => s.wseq[0] < h

------------------------------------------------------------------------------
(* How many timeouts a number f of faults can cause.                        *)

\* How certain it is that the next flight arrives: 2 when its being lost takes a fault,
\* 1 when its request is on its way.
Answering(c, s) == s.st = "SW_SRVR_HELLO" \/ (s.st = "SW_HELLO_VERIFY" /\ ~c.sendCookie)
HelloHope(c, s, U, D) ==
  IF (~c.sendCookie /\ D # {}) \/ (Answering(c, s) /\ U # {}) THEN 2
  ELSE IF Answering(c, s) \/ Has(U, MyHello(c)) THEN 1 ELSE 0
KeyHope(c, down) ==
  IF c.st = "CW_CERT" THEN IF ToSet(down) # {} THEN 2 ELSE 1
  ELSE IF Coming(down, c, ClientDue(c)) THEN 1 ELSE 0
FinHope(s, up) ==
  IF s.st = "SW_CHANGE" THEN IF ToSet(up) # {} THEN 2 ELSE 1
  ELSE IF Coming(up, s, ServerDue(s)) THEN 1 ELSE 0
LastHope(c, s, up, down) ==
  IF Coming(down, c, ClientDue(c)) THEN 2
  ELSE IF Coming(up, s, <<"FIN">>) THEN 1 ELSE 0

\* The client's Finished messages that will not reach the server any more.
Gone(c, s, U) ==
  {r \in 0 .. c.tries :
     /\ \A m \in s.unprocessed : m.rseq # r
     /\ \A m \in U : m.type = "FIN" /\ Unseen(s.bitmap, m.rseq) => m.rseq # r}

\* The timeouts so far are within what f faults and the hope there is account for.
Hoped(c, s, up, down, f) ==
  /\ c.st = "CR_SRVR_HELLO" /\ ~Helloed(s.st) =>
       c.tries + 1 <= 2 * f + HelloHope(c, s, ToSet(up), ToSet(down))
  /\ c.writeEpoch = 0 /\ Helloed(s.st) => s.tries + 1 <= 2 * f + KeyHope(c, down)
  /\ c.writeEpoch = 1 /\ InInit(s) => c.tries + 1 <= 2 * f + FinHope(s, up)
  /\ c.writeEpoch = 1 /\ ~InInit(s) => c.tries + 1 <= 2 * f + LastHope(c, s, up, down)
Within(c, s, f) ==
  c.tries <= 2 * f + 1 /\ (InInit(s) => s.tries <= 2 * f + 1)
\* The server has answered fewer Finished messages than are gone.
Paid(c, s, U) == ReadFin(s.st) => s.tries < Cardinality(Gone(c, s, U))

Budget(c, s, up, down, f) ==
  Hoped(c, s, up, down, f) /\ Within(c, s, f) /\ Paid(c, s, ToSet(up))

\* What does not depend on the number of faults.
Steady(md, c, s, up, down) ==
  LET U == ToSet(up)
      D == ToSet(down)
  IN /\ Quiet(c, s, U, D) /\ Clocks(c, s) /\ Flights(md, c, s) /\ Stages(md, c, s, U, D)
     /\ Link(c, s, up)
     /\ IF Settled(s) THEN Link(s, c, down) ELSE Opening(md, c, s, U, D)

Tolerates(md, c, s, up, down, f) ==
  Steady(md, c, s, up, down) /\ Budget(c, s, up, down, f)

------------------------------------------------------------------------------
(* Queues.                                                                 *)

(* The elements of a queue.                                                *)
LEMMA InQueue ==
  ASSUME NEW q \in Seq(Records)
  PROVE  /\ \A i \in DOMAIN q : q[i] \in ToSet(q) /\ q[i] \in Records
         /\ \A m \in ToSet(q) : m \in Records /\ \E i \in DOMAIN q : m = q[i]
         /\ (ToSet(q) = {}) <=> (q = <<>>)
         /\ DOMAIN q = 1 .. Len(q) /\ Len(q) \in Nat
<1>1. DOMAIN q = 1 .. Len(q) /\ Len(q) \in Nat /\ \A i \in DOMAIN q : q[i] \in Records
  BY LenProperties, ElementOfSeq
<1>2. /\ \A i \in DOMAIN q : q[i] \in ToSet(q)
      /\ \A m \in ToSet(q) : \E i \in DOMAIN q : m = q[i]
  BY DEF ToSet
<1>3. q = <<>> => ToSet(q) = {}
  BY <1>1, <1>2
<1>4. ToSet(q) = {} => q = <<>>
  <2> SUFFICES ASSUME q # <<>> PROVE 1 \in DOMAIN q
    BY <1>2
  <2>1. Len(q) # 0
    BY EmptySeq
  <2> QED
    BY <1>1, <2>1
<1> QED
  BY <1>1, <1>2, <1>3, <1>4

(* What is in two queues joined is in one of them.                         *)
LEMMA InJoined ==
  ASSUME NEW q \in Seq(Records), NEW out \in Seq(Records)
  PROVE  ToSet(q \o out) = ToSet(q) \cup ToSet(out)
<1>1. /\ q \o out \in Seq(Records) /\ DOMAIN (q \o out) = 1 .. Len(q) + Len(out)
      /\ \A i \in 1 .. Len(q) + Len(out) :
           (q \o out)[i] = IF i <= Len(q) THEN q[i] ELSE out[i - Len(q)]
  BY Joined
<1>2. DOMAIN q = 1 .. Len(q) /\ Len(q) \in Nat /\ DOMAIN out = 1 .. Len(out) /\ Len(out) \in Nat
  BY InQueue
<1>3. ASSUME NEW m \in ToSet(q \o out)
      PROVE  m \in ToSet(q) \cup ToSet(out)
  <2>1. PICK i \in 1 .. Len(q) + Len(out) : m = (q \o out)[i]
    BY <1>1, <1>3, InQueue
  <2>2. CASE i <= Len(q)
    BY <1>1, <1>2, <2>1, <2>2, InQueue
  <2>3. CASE i > Len(q)
    <3>1. i - Len(q) \in DOMAIN out /\ m = out[i - Len(q)]
      BY <1>1, <1>2, <2>1, <2>3
    <3> QED
      BY <3>1, InQueue
  <2> QED
    BY <1>2, <2>2, <2>3
<1>4. ASSUME NEW m \in ToSet(q)
      PROVE  m \in ToSet(q \o out)
  <2>1. PICK i \in DOMAIN q : m = q[i]
    BY <1>4, InQueue
  <2>2. i \in DOMAIN (q \o out) /\ (q \o out)[i] = m
    BY <1>1, <1>2, <2>1
  <2> QED
    BY <1>1, <2>2, InQueue
<1>5. ASSUME NEW m \in ToSet(out)
      PROVE  m \in ToSet(q \o out)
  <2>1. PICK i \in DOMAIN out : m = out[i]
    BY <1>5, InQueue
  <2>2. Len(q) + i \in DOMAIN (q \o out) /\ (q \o out)[Len(q) + i] = m
    BY <1>1, <1>2, <2>1
  <2> QED
    BY <1>1, <2>2, InQueue
<1> QED
  BY <1>3, <1>4, <1>5

(* What is left of q once its i-th record is gone.                         *)
LEMMA InRemoved ==
  ASSUME NEW q \in Seq(Records), NEW i \in DOMAIN q
  PROVE  /\ RemoveAt(q, i) \in Seq(Records) /\ ToSet(RemoveAt(q, i)) \subseteq ToSet(q)
         /\ ToSet(q) \subseteq ToSet(RemoveAt(q, i)) \cup {q[i]}
         /\ \A j \in DOMAIN RemoveAt(q, i) :
              /\ j \in DOMAIN q /\ j + 1 \in DOMAIN q
              /\ RemoveAt(q, i)[j] = IF j < i THEN q[j] ELSE q[j + 1]
         /\ DOMAIN RemoveAt(q, i) = 1 .. Len(q) - 1
<1> DEFINE r == RemoveAt(q, i)
<1>1. /\ r \in Seq(Records) /\ Len(r) = Len(q) - 1
      /\ \A j \in DOMAIN r : r[j] = IF j < i THEN q[j] ELSE q[j + 1]
  BY Removed
<1> HIDE DEF r
<1>2. DOMAIN r = 1 .. Len(q) - 1 /\ DOMAIN q = 1 .. Len(q) /\ Len(q) \in Nat
  BY <1>1, InQueue
<1>3. \A j \in DOMAIN r : j \in DOMAIN q /\ j + 1 \in DOMAIN q
  BY <1>2
<1>4. ToSet(r) \subseteq ToSet(q)
  <2> SUFFICES ASSUME NEW m \in ToSet(r) PROVE m \in ToSet(q)
    OBVIOUS
  <2>1. PICK j \in DOMAIN r : m = r[j]
    BY <1>1, InQueue
  <2> QED
    BY <1>1, <1>3, <2>1, InQueue
<1>5. ToSet(q) \subseteq ToSet(r) \cup {q[i]}
  <2> SUFFICES ASSUME NEW m \in ToSet(q), m # q[i] PROVE m \in ToSet(r)
    OBVIOUS
  <2>1. PICK j \in DOMAIN q : m = q[j]
    BY InQueue
  <2>2. CASE j < i
    <3>1. j \in DOMAIN r /\ r[j] = m
      BY <1>1, <1>2, <2>1, <2>2
    <3> QED
      BY <1>1, <3>1, InQueue
  <2>3. CASE j > i
    <3>1. j - 1 \in DOMAIN r /\ ~(j - 1 < i) /\ j - 1 + 1 = j
      BY <1>2, <2>1, <2>3
    <3>2. r[j - 1] = m
      BY <1>1, <2>1, <3>1
    <3> QED
      BY <1>1, <3>1, <3>2, InQueue
  <2> QED
    BY <1>2, <2>1, <2>2, <2>3
<1> QED
  BY <1>1, <1>2, <1>3, <1>4, <1>5 DEF r

------------------------------------------------------------------------------
(* What is new stays new.                                                  *)

(* A record newer than all seen passes the replay check.                   *)
LEMMA NewerUnseen ==
  ASSUME NEW b \in Bitmaps, NEW n \in Nat, Newer(b, n)
  PROVE  Unseen(b, n)
BY DtlsAssumption DEF Newer, Unseen, NoRecords, Bitmaps

(* An older record does not age it,                                        *)
LEMMA NewerMark ==
  ASSUME NEW b \in Bitmaps, NEW n \in Nat, NEW k \in Nat, Newer(b, k), n < k
  PROVE  Newer(Mark(b, n), k)
BY DEF Newer, Mark, NoRecords, Bitmaps

(* nor does it push the window past what is below.                         *)
LEMMA UnderMark ==
  ASSUME NEW b \in Bitmaps, NEW n \in Nat, NEW k \in Nat, Under(b, k), n < k
  PROVE  Under(Mark(b, n), k)
BY DEF Under, Mark, NoRecords, Bitmaps

(* A number that no record has reached is new,                             *)
LEMMA UnderNewer ==
  ASSUME NEW b \in Bitmaps, NEW n \in Nat, NEW k \in Nat, Under(b, k), k <= n
  PROVE  Newer(b, n)
BY DEF Under, Newer, Bitmaps

(* as is every larger one.                                                 *)
LEMMA UnderMore ==
  ASSUME NEW b \in Bitmaps, NEW n \in Nat, NEW k \in Nat, Under(b, k), k <= n
  PROVE  Under(b, n)
BY DEF Under, Bitmaps

(* To an empty window everything is new.                                   *)
LEMMA EmptyIsNew == Newer(NoRecords, 0) /\ NoRecords \in Bitmaps /\ \A n : Newer(NoRecords, n) /\ Under(NoRecords, n)
BY DEF Newer, Under, NoRecords, Bitmaps

------------------------------------------------------------------------------
(* What is on its way.                                                     *)

\* d2 is d without its first k elements.
Suffix(d2, d, k) ==
  /\ k \in Nat /\ Len(d) = Len(d2) + k
  /\ \A i \in 1 .. Len(d2) : d2[i] = d[i + k]

(* What reader s expects still comes when t has seen no more, and when it  *)
(* expects less.                                                           *)
LEMMA ComingKept ==
  ASSUME NEW q \in Seq(Records), NEW s, NEW t, NEW d \in Seq(Types), NEW d2 \in Seq(Types),
         NEW k, Suffix(d2, d, k), Coming(q, s, d),
         \A i \in DOMAIN q : New(s, q[i]) => New(t, q[i])
  PROVE  Coming(q, t, d2)
<1>1. PICK f \in [DOMAIN d -> DOMAIN q] :
        /\ \A i, j \in DOMAIN d : i < j => f[i] < f[j]
        /\ \A i \in DOMAIN d : q[f[i]].type = d[i] /\ New(s, q[f[i]])
  BY DEF Coming
<1>2. /\ DOMAIN d = 1 .. Len(d) /\ Len(d) \in Nat /\ DOMAIN d2 = 1 .. Len(d2) /\ Len(d2) \in Nat
      /\ k \in Nat /\ Len(d) = Len(d2) + k
  BY LenProperties DEF Suffix
<1> DEFINE g == [i \in DOMAIN d2 |-> f[i + k]]
<1>3. \A i \in DOMAIN d2 : i + k \in DOMAIN d
  BY <1>2
<1>4. \A i, j \in DOMAIN d2 : i < j => i + k < j + k
  BY <1>2
<1>5. \A i \in DOMAIN d2 : d2[i] = d[i + k]
  BY <1>2 DEF Suffix
<1>6. \A i \in DOMAIN d2 : q[f[i + k]].type = d2[i] /\ New(t, q[f[i + k]])
  BY <1>1, <1>3, <1>5
<1>7. /\ g \in [DOMAIN d2 -> DOMAIN q]
      /\ \A i, j \in DOMAIN d2 : i < j => g[i] < g[j]
      /\ \A i \in DOMAIN d2 : g[i] = f[i + k]
  BY <1>1, <1>3, <1>4
<1> HIDE DEF g
<1>8. \A i \in DOMAIN d2 : q[g[i]].type = d2[i] /\ New(t, q[g[i]])
  BY <1>6, <1>7
<1> QED
  BY <1>7, <1>8 DEF Coming

(* More records behind it change nothing.                                  *)
LEMMA ComingMore ==
  ASSUME NEW q \in Seq(Records), NEW out \in Seq(Records), NEW s, NEW d, Coming(q, s, d)
  PROVE  Coming(q \o out, s, d)
<1>1. PICK f \in [DOMAIN d -> DOMAIN q] :
        /\ \A i, j \in DOMAIN d : i < j => f[i] < f[j]
        /\ \A i \in DOMAIN d : q[f[i]].type = d[i] /\ New(s, q[f[i]])
  BY DEF Coming
<1>2. /\ DOMAIN (q \o out) = 1 .. Len(q) + Len(out)
      /\ \A i \in 1 .. Len(q) + Len(out) :
           (q \o out)[i] = IF i <= Len(q) THEN q[i] ELSE out[i - Len(q)]
      /\ DOMAIN q = 1 .. Len(q) /\ Len(q) \in Nat /\ Len(out) \in Nat
  BY Joined, InQueue
<1>3. \A i \in DOMAIN q : i \in DOMAIN (q \o out) /\ (q \o out)[i] = q[i]
  BY <1>2
<1>4. /\ f \in [DOMAIN d -> DOMAIN (q \o out)]
      /\ \A i \in DOMAIN d : (q \o out)[f[i]].type = d[i] /\ New(s, (q \o out)[f[i]])
  BY <1>1, <1>3
<1> QED
  BY <1>1, <1>4 DEF Coming

(* What has just been sent comes, if it is new.                            *)
LEMMA ComingFresh ==
  ASSUME NEW q \in Seq(Records), NEW out \in Seq(Records), NEW s, NEW ts \in Seq(Types),
         NEW d \in Seq(Types), NEW k, Suffix(d, ts, k), Sends(out, ts),
         \A i \in DOMAIN out : i > k => New(s, out[i])
  PROVE  Coming(q \o out, s, d)
<1>1. /\ DOMAIN (q \o out) = 1 .. Len(q) + Len(out)
      /\ \A i \in 1 .. Len(q) + Len(out) :
           (q \o out)[i] = IF i <= Len(q) THEN q[i] ELSE out[i - Len(q)]
      /\ Len(q) \in Nat /\ Len(out) \in Nat /\ DOMAIN out = 1 .. Len(out)
  BY Joined, InQueue
<1>2. /\ DOMAIN d = 1 .. Len(d) /\ Len(d) \in Nat /\ Len(ts) \in Nat
      /\ k \in Nat /\ Len(ts) = Len(d) + k /\ Len(out) = Len(ts)
      /\ \A i \in 1 .. Len(d) : d[i] = ts[i + k]
      /\ \A i \in 1 .. Len(ts) : out[i].type = ts[i]
  BY LenProperties DEF Suffix, Sends
<1> DEFINE n == Len(q) + k
           f == [i \in DOMAIN d |-> n + i]
<1>3. \A i \in DOMAIN d : /\ n + i \in DOMAIN (q \o out) /\ n + i - Len(q) = i + k
                          /\ ~(n + i <= Len(q)) /\ i + k \in DOMAIN out /\ i + k > k
                          /\ i + k \in 1 .. Len(ts)
  BY <1>1, <1>2
<1>4. \A i \in DOMAIN d : (q \o out)[n + i] = out[i + k]
  <2> HIDE DEF n
  <2> SUFFICES ASSUME NEW i \in DOMAIN d, NEW x, x = n + i
               PROVE  (q \o out)[x] = out[i + k]
    OBVIOUS
  <2>0. n + i \in DOMAIN (q \o out) /\ ~(n + i <= Len(q)) /\ n + i - Len(q) = i + k
    BY <1>3, Zenon
  <2>1. x \in 1 .. Len(q) + Len(out) /\ ~(x <= Len(q)) /\ x - Len(q) = i + k
    <3>1. x \in 1 .. Len(q) + Len(out)
      BY <1>1, <2>0
    <3>2. ~(x <= Len(q))
      BY <2>0
    <3>3. x - Len(q) = i + k
      <4> n \in Nat /\ i \in Nat /\ k \in Nat /\ Len(q) \in Nat
        BY <1>1, <1>2 DEF n
      <4> QED BY <2>0
    <3> QED BY <3>1, <3>2, <3>3
  <2>2. (q \o out)[x] = out[x - Len(q)]
    BY <1>1, <2>1
  <2> QED
    BY <2>1, <2>2
<1>5. \A i \in DOMAIN d : (q \o out)[n + i].type = d[i] /\ New(s, (q \o out)[n + i])
  BY <1>2, <1>3, <1>4
<1>6. \A i, j \in DOMAIN d : i < j => n + i < n + j
  BY <1>1, <1>2
<1> HIDE DEF n
<1>7. /\ f \in [DOMAIN d -> DOMAIN (q \o out)] /\ \A i \in DOMAIN d : f[i] = n + i
  BY <1>3
<1> HIDE DEF f
<1>8. /\ \A i, j \in DOMAIN d : i < j => f[i] < f[j]
      /\ \A i \in DOMAIN d : (q \o out)[f[i]].type = d[i] /\ New(s, (q \o out)[f[i]])
  BY <1>5, <1>6, <1>7
<1> QED
  BY <1>7, <1>8 DEF Coming

(* When the oldest record has been read, it still comes, unless that was   *)
(* the first of what was expected.                                         *)
LEMMA ComingNext ==
  ASSUME NEW q \in Seq(Records), 1 \in DOMAIN q, NEW s, NEW t, NEW d \in Seq(Types),
         NEW d2 \in Seq(Types), NEW k, Suffix(d2, d, k), Coming(q, s, d),
         \A i \in DOMAIN d : d[i] # "HVR",
         \A i \in DOMAIN q : i # 1 /\ q[i].type # "HVR" /\ New(s, q[i]) => New(t, q[i]),
         k = 0 /\ d # <<>> => ~(q[1].type = d[1] /\ New(s, q[1]))
  PROVE  Coming(RemoveAt(q, 1), t, d2)
<1> DEFINE r == RemoveAt(q, 1)
<1>1. PICK f \in [DOMAIN d -> DOMAIN q] :
        /\ \A i, j \in DOMAIN d : i < j => f[i] < f[j]
        /\ \A i \in DOMAIN d : q[f[i]].type = d[i] /\ New(s, q[f[i]])
  BY DEF Coming
<1>2. /\ DOMAIN d = 1 .. Len(d) /\ Len(d) \in Nat /\ DOMAIN d2 = 1 .. Len(d2) /\ Len(d2) \in Nat
      /\ k \in Nat /\ Len(d) = Len(d2) + k /\ (d = <<>> => Len(d) = 0)
  BY LenProperties, EmptySeq DEF Suffix
<1>3. /\ DOMAIN r = 1 .. Len(q) - 1 /\ \A j \in DOMAIN r : r[j] = IF j < 1 THEN q[j] ELSE q[j + 1]
      /\ DOMAIN q = 1 .. Len(q) /\ Len(q) \in Nat
  BY InRemoved, InQueue
<1> HIDE DEF r
<1>4. ASSUME NEW i \in DOMAIN d2
      PROVE  /\ i + k \in DOMAIN d /\ f[i + k] \in DOMAIN q /\ f[i + k] # 1
             /\ d2[i] = d[i + k]
  <2>1. i + k \in DOMAIN d /\ 1 \in DOMAIN d /\ d # <<>> /\ d2[i] = d[i + k] /\ i + k >= 1
    BY <1>2 DEF Suffix
  <2>2. f[i + k] \in DOMAIN q /\ f[1] \in DOMAIN q
    BY <1>1, <2>1
  <2>3. CASE k = 0
    <3>1. f[1] # 1
      BY <1>1, <2>1, <2>3
    <3>2. f[1] > 1
      BY <1>3, <2>2, <3>1
    <3>3. i + k = 1 \/ 1 < i + k
      BY <1>2, <2>1
    <3>4. 1 < i + k => f[1] < f[i + k]
      BY <1>1, <2>1
    <3> QED
      BY <1>3, <2>1, <2>2, <3>2, <3>3, <3>4
  <2>4. CASE k # 0
    <3>1. 1 < i + k
      BY <1>2, <2>4
    <3>2. f[1] < f[i + k]
      BY <1>1, <2>1, <3>1
    <3> QED
      BY <1>3, <2>1, <2>2, <3>2
  <2> QED
    BY <2>3, <2>4
<1> DEFINE g == [i \in DOMAIN d2 |-> f[i + k] - 1]
<1>5. \A i \in DOMAIN d2 : /\ f[i + k] - 1 \in DOMAIN r /\ f[i + k] - 1 + 1 = f[i + k]
                           /\ ~(f[i + k] - 1 < 1) /\ f[i + k] \in Int
  BY <1>3, <1>4
<1>6. \A i \in DOMAIN d2 : r[f[i + k] - 1] = q[f[i + k]]
  BY <1>3, <1>5
<1>7. \A i \in DOMAIN d2 : r[f[i + k] - 1].type = d2[i] /\ New(t, r[f[i + k] - 1])
  <2> TAKE i \in DOMAIN d2
  <2>1. q[f[i + k]].type = d2[i] /\ New(s, q[f[i + k]]) /\ d2[i] # "HVR"
    BY <1>1, <1>4
  <2> QED
    BY <1>4, <1>6, <2>1
<1>8. \A i, j \in DOMAIN d2 : i < j => f[i + k] - 1 < f[j + k] - 1
  <2> TAKE i, j \in DOMAIN d2
  <2> HAVE i < j
  <2>1. i + k < j + k
    BY <1>2
  <2>2. f[i + k] < f[j + k]
    BY <1>1, <1>4, <2>1
  <2> QED
    BY <1>5, <2>2
<1>9. g \in [DOMAIN d2 -> DOMAIN r] /\ \A i \in DOMAIN d2 : g[i] = f[i + k] - 1
  BY <1>5
<1> HIDE DEF g
<1>10. /\ \A i, j \in DOMAIN d2 : i < j => g[i] < g[j]
       /\ \A i \in DOMAIN d2 : r[g[i]].type = d2[i] /\ New(t, r[g[i]])
  BY <1>7, <1>8, <1>9
<1> QED
  BY <1>9, <1>10 DEF Coming, r

------------------------------------------------------------------------------
(* The numbers on their way.                                               *)

(* The fields the numbers are compared with.                               *)
LEMMA LinkIs ==
  ASSUME NEW r \in SSL
  PROVE  /\ r.bitmap \in Bitmaps /\ r.nextBitmap \in Bitmaps /\ r.readEpoch \in 0 .. 1
         /\ r.writeEpoch \in 0 .. 1 /\ r.wseq \in [0 .. 1 -> Nat] /\ r.unprocessed \in SUBSET Records
         /\ r.wseq[0] \in Nat /\ r.wseq[1] \in Nat /\ r.wseq[r.readEpoch] \in Nat
         /\ r.sent \in Seq(Kept) /\ r.tries \in Nat /\ r.readSeq \in Nat
BY DEF SSL

(* A record that w gives its next numbers is new to r.                     *)
LEMMA NewSent ==
  ASSUME NEW w \in SSL, NEW r \in SSL, NEW q, Link(w, r, q), NEW m \in Records,
         w.wseq[m.epoch] <= m.rseq, m.epoch >= r.readEpoch
  PROVE  New(r, m)
<1>1. m.epoch \in 0 .. 1 /\ m.rseq \in Nat /\ w.wseq[m.epoch] \in Nat
  BY LinkIs DEF Records
<1>2. Under(MapOf(r, m.epoch), w.wseq[m.epoch]) /\ MapOf(r, m.epoch) \in Bitmaps
  <2>1. CASE m.epoch = r.readEpoch
    BY <2>1, LinkIs DEF Link, MapOf
  <2>2. CASE m.epoch # r.readEpoch
    <3>1. r.readEpoch = 0 /\ m.epoch = 1
      BY <1>1, <2>2, LinkIs
    <3> QED
      BY <2>2, <3>1, LinkIs DEF Link, MapOf
  <2> QED
    BY <2>1, <2>2
<1> QED
  BY <1>1, <1>2, UnderNewer DEF New

(* Sending keeps the numbers in order,                                     *)
LEMMA LinkSend ==
  ASSUME NEW w \in SSL, NEW w2 \in SSL, NEW r \in SSL, NEW q \in Seq(Records), Link(w, r, q),
         NEW out \in Seq(Records), Numbered(w.wseq, w2.wseq, out)
  PROVE  Link(w2, r, q \o out)
<1>1. /\ DOMAIN (q \o out) = 1 .. Len(q) + Len(out)
      /\ \A i \in 1 .. Len(q) + Len(out) :
           (q \o out)[i] = IF i <= Len(q) THEN q[i] ELSE out[i - Len(q)]
      /\ DOMAIN q = 1 .. Len(q) /\ Len(q) \in Nat /\ Len(out) \in Nat /\ DOMAIN out = 1 .. Len(out)
      /\ \A i \in DOMAIN q : q[i] \in Records
      /\ \A i \in DOMAIN out : out[i] \in Records
  BY Joined, InQueue
<1>2. \A ep \in 0 .. 1 : w.wseq[ep] \in Nat /\ w2.wseq[ep] \in Nat /\ w.wseq[ep] <= w2.wseq[ep]
  BY DEF Numbered
<1>3. \A i \in DOMAIN q : /\ q[i].epoch \in 0 .. 1 /\ q[i].rseq \in Nat
                          /\ q[i].rseq < w.wseq[q[i].epoch] /\ q[i].rseq < w2.wseq[q[i].epoch]
  <2> TAKE i \in DOMAIN q
  <2>1. q[i].epoch \in 0 .. 1 /\ q[i].rseq \in Nat
    BY <1>1 DEF Records
  <2>2. q[i].rseq < w.wseq[q[i].epoch]
    BY DEF Link
  <2> QED
    BY <1>2, <2>1, <2>2
<1>4. \A i \in DOMAIN out : /\ out[i].epoch \in 0 .. 1 /\ out[i].rseq \in Nat
                            /\ w.wseq[out[i].epoch] <= out[i].rseq
                            /\ out[i].rseq < w2.wseq[out[i].epoch]
  BY <1>1 DEF Numbered, Records
<1>5. \A i \in DOMAIN (q \o out) : (q \o out)[i].rseq < w2.wseq[(q \o out)[i].epoch]
  <2> TAKE i \in DOMAIN (q \o out)
  <2>1. CASE i <= Len(q)
    BY <1>1, <1>3, <2>1
  <2>2. CASE ~(i <= Len(q))
    <3>1. i - Len(q) \in DOMAIN out /\ (q \o out)[i] = out[i - Len(q)]
      BY <1>1, <2>2
    <3> QED
      BY <1>4, <3>1
  <2> QED
    BY <2>1, <2>2
<1>6. ASSUME NEW i \in DOMAIN (q \o out), NEW j \in DOMAIN (q \o out), i < j,
             (q \o out)[i].epoch = (q \o out)[j].epoch, (q \o out)[j].type # "HVR"
      PROVE  (q \o out)[i].rseq < (q \o out)[j].rseq
  <2>1. CASE j <= Len(q)
    <3>1. i \in DOMAIN q /\ j \in DOMAIN q /\ (q \o out)[i] = q[i] /\ (q \o out)[j] = q[j]
      BY <1>1, <1>6, <2>1
    <3> QED
      BY <1>6, <3>1 DEF Link
  <2>2. CASE ~(j <= Len(q)) /\ i <= Len(q)
    <3>1. /\ i \in DOMAIN q /\ j - Len(q) \in DOMAIN out /\ (q \o out)[i] = q[i]
          /\ (q \o out)[j] = out[j - Len(q)]
      BY <1>1, <2>2
    <3>2. q[i].rseq < w.wseq[q[i].epoch] /\ w.wseq[q[i].epoch] <= out[j - Len(q)].rseq
      BY <1>3, <1>4, <1>6, <3>1
    <3>3. q[i].rseq \in Nat /\ w.wseq[q[i].epoch] \in Nat /\ out[j - Len(q)].rseq \in Nat
      BY <1>2, <1>3, <1>4, <3>1
    <3>4. \A x, y, z \in Nat : x < y /\ y <= z => x < z
      OBVIOUS
    <3> QED
      BY <3>1, <3>2, <3>3, <3>4
  <2>3. CASE ~(i <= Len(q))
    <3>1. /\ i - Len(q) \in DOMAIN out /\ j - Len(q) \in DOMAIN out /\ i - Len(q) < j - Len(q)
          /\ (q \o out)[i] = out[i - Len(q)] /\ (q \o out)[j] = out[j - Len(q)]
      BY <1>1, <1>6, <2>3
    <3> QED
      BY <1>6, <3>1 DEF Numbered
  <2> QED
    BY <2>1, <2>2, <2>3
<1>7. /\ Under(r.bitmap, w2.wseq[r.readEpoch])
      /\ r.readEpoch = 0 => Under(r.nextBitmap, w2.wseq[1])
  <2>1. /\ Under(r.bitmap, w.wseq[r.readEpoch])
        /\ r.readEpoch = 0 => Under(r.nextBitmap, w.wseq[1])
    BY DEF Link
  <2> QED
    BY <1>2, <2>1, LinkIs, UnderMore
<1>8. \A m \in r.unprocessed : m.rseq < w2.wseq[1]
  <2> TAKE m \in r.unprocessed
  <2>1. m.rseq < w.wseq[1] /\ m.rseq \in Nat
    BY LinkIs DEF Link, Records
  <2> QED
    BY <1>2, <2>1
<1> QED
  BY <1>5, <1>6, <1>7, <1>8 DEF Link

(* so does a loss,                                                         *)
LEMMA LinkDrop ==
  ASSUME NEW w, NEW r, NEW q \in Seq(Records), Link(w, r, q), NEW i \in DOMAIN q
  PROVE  Link(w, r, RemoveAt(q, i))
<1> DEFINE p == RemoveAt(q, i)
<1>1. /\ DOMAIN p = 1 .. Len(q) - 1 /\ DOMAIN q = 1 .. Len(q) /\ Len(q) \in Nat
      /\ \A j \in DOMAIN p : /\ j \in DOMAIN q /\ j + 1 \in DOMAIN q
                             /\ p[j] = IF j < i THEN q[j] ELSE q[j + 1]
  BY InRemoved, InQueue
<1> HIDE DEF p
<1>2. \A j \in DOMAIN p : p[j].rseq < w.wseq[p[j].epoch]
  BY <1>1 DEF Link
<1>3. ASSUME NEW j \in DOMAIN p, NEW k \in DOMAIN p, j < k, p[j].epoch = p[k].epoch,
             p[k].type # "HVR"
      PROVE  p[j].rseq < p[k].rseq
  <2> DEFINE a == IF j < i THEN j ELSE j + 1
             b == IF k < i THEN k ELSE k + 1
  <2>1. a \in DOMAIN q /\ b \in DOMAIN q /\ a < b /\ p[j] = q[a] /\ p[k] = q[b]
    BY <1>1, <1>3
  <2> HIDE DEF a, b
  <2> QED
    BY <1>3, <2>1 DEF Link
<1> QED
  BY <1>2, <1>3 DEF Link, p

\* What becomes of the replay windows of r when it has read m.
Saw(r, t, m) ==
  \/ /\ t.readEpoch = r.readEpoch /\ t.bitmap = r.bitmap /\ t.nextBitmap = r.nextBitmap
     /\ t.unprocessed \subseteq r.unprocessed
  \/ /\ m.epoch = r.readEpoch /\ t.readEpoch = r.readEpoch
     /\ t.bitmap = Mark(r.bitmap, m.rseq) /\ t.nextBitmap = r.nextBitmap
     /\ t.unprocessed = r.unprocessed
  \/ /\ m.epoch = 1 /\ r.readEpoch = 0 /\ t.readEpoch = 0 /\ Unseen(r.nextBitmap, m.rseq)
     /\ t.bitmap = r.bitmap /\ t.nextBitmap = Mark(r.nextBitmap, m.rseq)
     /\ t.unprocessed = r.unprocessed \cup {m}
  \/ /\ m.epoch = 0 /\ r.readEpoch = 0 /\ t.readEpoch = 1
     /\ t.bitmap = r.nextBitmap /\ t.nextBitmap = NoRecords /\ t.unprocessed = r.unprocessed

(* and so does reading a record.                                           *)
LEMMA LinkRead ==
  ASSUME NEW w \in SSL, NEW r \in SSL, NEW t \in SSL, NEW q \in Seq(Records), Link(w, r, q),
         NEW m \in ToSet(q), Saw(r, t, m)
  PROVE  Link(w, t, q)
<1>1. /\ m \in Records /\ m.epoch \in 0 .. 1 /\ m.rseq \in Nat /\ m.rseq < w.wseq[m.epoch]
      /\ w.wseq[0] \in Nat /\ w.wseq[1] \in Nat
  BY InQueue, LinkIs DEF Records, Link
<1>2. /\ Under(r.bitmap, w.wseq[r.readEpoch]) /\ r.readEpoch \in 0 .. 1
      /\ r.readEpoch = 0 => Under(r.nextBitmap, w.wseq[1])
      /\ r.bitmap \in Bitmaps /\ r.nextBitmap \in Bitmaps
      /\ \A u \in r.unprocessed : /\ u.rseq < w.wseq[1] /\ ~Unseen(MapOf(r, 1), u.rseq)
                                  /\ u.rseq \in Nat
      /\ \A u, v \in r.unprocessed : u.rseq = v.rseq => u = v
  BY LinkIs DEF Link, Records
<1> SUFFICES /\ Under(t.bitmap, w.wseq[t.readEpoch])
             /\ t.readEpoch = 0 => Under(t.nextBitmap, w.wseq[1])
             /\ \A u \in t.unprocessed : u.rseq < w.wseq[1] /\ ~Unseen(MapOf(t, 1), u.rseq)
             /\ \A u, v \in t.unprocessed : u.rseq = v.rseq => u = v
  BY DEF Link
<1>3. \A b \in Bitmaps : /\ ~Unseen(Mark(b, m.rseq), m.rseq)
                         /\ \A k \in Nat : ~Unseen(b, k) => ~Unseen(Mark(b, m.rseq), k)
  BY <1>1, Marked
<1>4. \A b \in Bitmaps : Under(b, w.wseq[m.epoch]) => Under(Mark(b, m.rseq), w.wseq[m.epoch])
  BY <1>1, UnderMark
<1>5. CASE /\ t.readEpoch = r.readEpoch /\ t.bitmap = r.bitmap /\ t.nextBitmap = r.nextBitmap
           /\ t.unprocessed \subseteq r.unprocessed
  BY <1>2, <1>5 DEF MapOf
<1>6. CASE /\ m.epoch = r.readEpoch /\ t.readEpoch = r.readEpoch
           /\ t.bitmap = Mark(r.bitmap, m.rseq) /\ t.nextBitmap = r.nextBitmap
           /\ t.unprocessed = r.unprocessed
  <2>1. Under(t.bitmap, w.wseq[t.readEpoch]) /\ (t.readEpoch = 0 => Under(t.nextBitmap, w.wseq[1]))
    BY <1>2, <1>4, <1>6
  <2>2. \A u \in t.unprocessed : ~Unseen(MapOf(t, 1), u.rseq)
    BY <1>2, <1>3, <1>6 DEF MapOf
  <2> QED
    BY <1>2, <1>6, <2>1, <2>2
<1>7. CASE /\ m.epoch = 1 /\ r.readEpoch = 0 /\ t.readEpoch = 0 /\ Unseen(r.nextBitmap, m.rseq)
           /\ t.bitmap = r.bitmap /\ t.nextBitmap = Mark(r.nextBitmap, m.rseq)
           /\ t.unprocessed = r.unprocessed \cup {m}
  <2>1. Under(t.bitmap, w.wseq[t.readEpoch]) /\ Under(t.nextBitmap, w.wseq[1])
    BY <1>2, <1>4, <1>7
  <2>2. \A u \in t.unprocessed : u.rseq < w.wseq[1] /\ ~Unseen(MapOf(t, 1), u.rseq)
    BY <1>1, <1>2, <1>3, <1>7 DEF MapOf
  <2>3. \A u \in r.unprocessed : u.rseq # m.rseq
    BY <1>2, <1>7 DEF MapOf
  <2>4. \A u, v \in t.unprocessed : u.rseq = v.rseq => u = v
    BY <1>2, <1>7, <2>3
  <2> QED
    BY <2>1, <2>2, <2>4
<1>8. CASE /\ m.epoch = 0 /\ r.readEpoch = 0 /\ t.readEpoch = 1
           /\ t.bitmap = r.nextBitmap /\ t.nextBitmap = NoRecords
           /\ t.unprocessed = r.unprocessed
  BY <1>2, <1>8 DEF MapOf
<1> QED
  BY <1>5, <1>6, <1>7, <1>8 DEF Saw

(* Nothing that is behind the oldest record is older than it.              *)
LEMMA NewKept ==
  ASSUME NEW w \in SSL, NEW r \in SSL, NEW t \in SSL, NEW q \in Seq(Records), Link(w, r, q),
         1 \in DOMAIN q, Saw(r, t, q[1]), NEW i \in DOMAIN q, i # 1, q[i].type # "HVR",
         New(r, q[i])
  PROVE  New(t, q[i])
<1> DEFINE m == q[1]
           n == q[i]
<1>1. /\ m.epoch \in 0 .. 1 /\ m.rseq \in Nat /\ n.epoch \in 0 .. 1 /\ n.rseq \in Nat
      /\ r.bitmap \in Bitmaps /\ r.nextBitmap \in Bitmaps
  BY InQueue, LinkIs DEF Records
<1>2. m.epoch = n.epoch => m.rseq < n.rseq
  <2>1. 1 < i
    BY InQueue
  <2> QED
    BY <2>1 DEF Link
<1>3. Newer(MapOf(r, n.epoch), n.rseq)
  BY DEF New
<1> HIDE DEF m, n
<1>4. \A b \in Bitmaps : Newer(b, n.rseq) /\ m.rseq < n.rseq => Newer(Mark(b, m.rseq), n.rseq)
  BY <1>1, NewerMark
<1>5. Saw(r, t, m)
  BY DEF m
<1>6. Newer(MapOf(t, n.epoch), n.rseq)
  BY <1>1, <1>2, <1>3, <1>4, <1>5, EmptyIsNew DEF Saw, MapOf
<1> QED
  BY <1>6 DEF New, n
------------------------------------------------------------------------------
(* The two endpoints of a handshake that the client has not completed.      *)

Paired(c, s) ==
  /\ c \in SSL /\ s \in SSL
  /\ c.st \in {"CW_CLNT_HELLO", "CR_SRVR_HELLO", "CR_CERT", "CR_CERT_REQ", "CW_CERT",
               "CR_SESSION_TICKET", "CR_FINISHED"}
  /\ s.st \in {"SR_CLNT_HELLO", "SW_HELLO_VERIFY", "SW_SRVR_HELLO", "SR_KEY_EXCH",
               "SR_CERT_VRFY", "SW_CHANGE", "OK"}
  /\ c.writeEpoch = 1 <=> c.st \in {"CR_SESSION_TICKET", "CR_FINISHED"}
  /\ s.writeEpoch = 1 <=> s.st = "OK"
  /\ c.readEpoch = 1 <=> c.ccs
  /\ c.readEpoch = 1 => c.st = "CR_FINISHED" /\ s.st = "OK"
  /\ s.readEpoch = 1 <=> s.ccs \/ s.st \in {"SW_CHANGE", "OK"}
  /\ s.ccs => s.st = "SR_CERT_VRFY"
  /\ s.readEpoch = 1 => c.writeEpoch = 1
  /\ Answered(c.st) => Helloed(s.st)
  /\ c.st = "CR_SESSION_TICKET" => mode.ticket
  /\ mode.cookie \in {"none", "listen"}
  /\ s.st = "SW_HELLO_VERIFY" \/ c.sendCookie => mode.cookie = "listen"
  /\ c.st \in {"CR_SRVR_HELLO", "CR_CERT", "CR_SESSION_TICKET", "CR_FINISHED"} => c.timer
  /\ s.st \in {"SR_KEY_EXCH", "SR_CERT_VRFY"} => s.timer

(* The invariant of the component gives the states the two can be in.      *)
LEMMA PairedIs ==
  ASSUME mode \in ModeSpace, Plain(mode), mode.cookie # "accept", NEW c, NEW s,
         Sound(mode, "client", c, s), Sound(mode, "server", s, c),
         c.failed = "no", s.failed = "no", InInit(c)
  PROVE  Paired(c, s)
<1>0. /\ c \in SSL /\ s \in SSL /\ c.st \in ClientStates(mode) /\ s.st \in ServerStates(mode)
      /\ Epochs(mode, "client", c) /\ Epochs(mode, "server", s)
      /\ Peers(mode, "client", c, s) /\ Peers(mode, "server", s, c)
      /\ Numbers(mode, "client", c) /\ Timers(c) /\ Timers(s)
  BY DEF Sound, Core, Placed, StatesOf
<1>1. /\ ~mode.hit /\ ~mode.cert /\ mode.cookie \in {"none", "listen"}
      /\ c.readEpoch \in 0 .. 1 /\ s.readEpoch \in 0 .. 1 /\ c.ccs \in BOOLEAN /\ s.ccs \in BOOLEAN
  BY <1>0 DEF Plain, ModeSpace, SSL
<1>2. /\ c.st \in {"CW_CLNT_HELLO", "CR_SRVR_HELLO", "CR_CERT", "CR_CERT_REQ", "CW_CERT",
                   "CR_SESSION_TICKET", "CR_FINISHED"}
      /\ c.st = "CR_SESSION_TICKET" => mode.ticket
  BY <1>0, <1>1 DEF ClientStates, InInit
<1>3. /\ s.st \in {"SR_CLNT_HELLO", "SW_HELLO_VERIFY", "SW_SRVR_HELLO", "SR_KEY_EXCH",
                   "SR_CERT_VRFY", "SW_CHANGE", "OK"}
      /\ s.st = "SW_HELLO_VERIFY" => mode.cookie # "none"
  BY <1>0, <1>1 DEF ServerStates
<1>4. /\ c.writeEpoch = 1 <=> c.st \in {"CR_SESSION_TICKET", "CR_FINISHED"}
      /\ s.writeEpoch = 1 <=> s.st = "OK"
  BY <1>0, <1>1, <1>2, <1>3 DEF Epochs, WroteFin
<1>5. /\ c.readEpoch = 1 <=> c.ccs
      /\ c.ccs => c.st = "CR_FINISHED"
  BY <1>0, <1>1, <1>2 DEF Epochs, ReadFin, CcsOk
<1>6. /\ s.readEpoch = 1 <=> s.ccs \/ s.st \in {"SW_CHANGE", "OK"}
      /\ s.ccs => s.st = "SR_CERT_VRFY"
  BY <1>0, <1>1, <1>3 DEF Epochs, ReadFin, CcsOk
<1>7. /\ c.readEpoch = 1 => s.writeEpoch = 1
      /\ s.readEpoch = 1 => c.writeEpoch = 1
      /\ Answered(c.st) => Helloed(s.st)
      /\ c.sendCookie => mode.cookie # "none"
  BY <1>0 DEF Peers, Numbers
<1>8. /\ c.st \in {"CR_SRVR_HELLO", "CR_CERT", "CR_SESSION_TICKET", "CR_FINISHED"} => c.timer
      /\ s.st \in {"SR_KEY_EXCH", "SR_CERT_VRFY"} => s.timer
  BY <1>0 DEF Timers
<1> QED
  BY <1>0, <1>1, <1>2, <1>3, <1>4, <1>5, <1>6, <1>7, <1>8 DEF Paired

(* What can be on its way.                                                 *)
Carried(c, s, up, down) ==
  /\ up \in Seq(Records) /\ down \in Seq(Records)
  /\ \A m \in ToSet(up) : Arrives(mode, "client", c, m)
  /\ \A m \in ToSet(down) : Arrives(mode, "server", s, m)

(* What a client can send.                                                 *)
LEMMA UpIs ==
  ASSUME mode \in ModeSpace, Plain(mode), NEW c, NEW m \in Records, Arrives(mode, "client", c, m)
  PROVE  /\ m.type \in {"CH", "CHC", "CKE", "CCS", "FIN", "APP", "ALERT"}
         /\ m.type \in {"CH", "CHC", "CKE", "CCS"} => m.epoch = 0
         /\ m.type = "FIN" => m.epoch = 1
         /\ m.type \in {"CCS", "FIN"} => c.writeEpoch = 1
         /\ m.type = "CHC" => mode.cookie # "none"
<1>1. m.type \in Types /\ ~mode.hit /\ ~mode.cert
  BY DEF Records, Plain
<1>2. IsHandshake(m) => Says(mode, "client", m.type)
  BY DEF Arrives, Good
<1>3. IsHandshake(m) => m.type \in {"CH", "CHC", "CKE", "FIN"}
  BY <1>1, <1>2 DEF Says
<1>4. m.type \in {"CH", "CHC", "CKE", "CCS", "FIN", "APP", "ALERT"}
  BY <1>3 DEF IsHandshake
<1>5. m.type = "CHC" => mode.cookie # "none"
  BY <1>2 DEF Says, IsHandshake
<1> QED
  BY <1>4, <1>5 DEF Arrives, Good, Reached

(* What a server can send.                                                 *)
LEMMA DownIs ==
  ASSUME mode \in ModeSpace, Plain(mode), NEW s, NEW m \in Records, Arrives(mode, "server", s, m)
  PROVE  /\ m.type \in {"HVR", "SH", "CERT", "SHD", "NST", "CCS", "FIN", "APP", "ALERT"}
         /\ m.type \in {"HVR", "SH", "CERT", "SHD", "NST", "CCS"} => m.epoch = 0
         /\ m.type \in {"FIN", "APP"} => m.epoch = 1
         /\ m.type \in {"CCS", "FIN"} => s.writeEpoch = 1
         /\ m.type = "SH" => Helloed(s.st)
         /\ m.type = "HVR" => mode.cookie # "none"
<1>1. m.type \in Types /\ ~mode.hit /\ ~mode.cert
  BY DEF Records, Plain
<1>2. IsHandshake(m) => Says(mode, "server", m.type)
  BY DEF Arrives, Good
<1>3. IsHandshake(m) => m.type \in {"HVR", "SH", "CERT", "SHD", "NST", "FIN"}
  BY <1>1, <1>2 DEF Says
<1>4. m.type \in {"HVR", "SH", "CERT", "SHD", "NST", "CCS", "FIN", "APP", "ALERT"}
  BY <1>3 DEF IsHandshake
<1>5. m.type = "HVR" => mode.cookie # "none"
  BY <1>2 DEF Says, IsHandshake
<1> QED
  BY <1>4, <1>5 DEF Arrives, Good, Reached

------------------------------------------------------------------------------
(* Reading.                                                                *)

\* r has read m and become t: from its queue q, of which q2 remains, or from what it
\* had kept.  Only the oldest record of q is read without a fault.
Reads(r, t, q, q2, m, f, f2) ==
  /\ f \in Nat /\ f2 \in Nat
  /\ \/ /\ Saw(r, t, m) /\ f + 1 <= f2
        /\ \E i \in DOMAIN q : m = q[i] /\ (q2 = q \/ q2 = RemoveAt(q, i))
     \/ /\ Saw(r, t, m) /\ f2 = f
        /\ 1 \in DOMAIN q /\ m = q[1] /\ q2 = RemoveAt(q, 1)
     \/ /\ t.readEpoch = r.readEpoch /\ t.bitmap = r.bitmap /\ t.nextBitmap = r.nextBitmap
        /\ t.unprocessed \subseteq r.unprocessed
        /\ q2 = q /\ f2 = f

(* What remains in the queue.                                              *)
LEMMA ReadsLeaves ==
  ASSUME NEW r, NEW t, NEW q \in Seq(Records), NEW q2, NEW m, NEW f, NEW f2,
         Reads(r, t, q, q2, m, f, f2)
  PROVE  /\ q2 \in Seq(Records) /\ ToSet(q2) \subseteq ToSet(q)
         /\ ToSet(q) \subseteq ToSet(q2) \cup {m}
         /\ m \in ToSet(q) \/ q2 = q
         /\ f <= f2 /\ f \in Nat /\ f2 \in Nat
<1>1. ASSUME NEW i \in DOMAIN q, m = q[i], q2 = q \/ q2 = RemoveAt(q, i)
      PROVE  /\ q2 \in Seq(Records) /\ ToSet(q2) \subseteq ToSet(q)
             /\ ToSet(q) \subseteq ToSet(q2) \cup {m} /\ m \in ToSet(q)
  BY <1>1, InRemoved, InQueue
<1>2. f <= f2 /\ f \in Nat /\ f2 \in Nat
  BY DEF Reads
<1> QED
  BY <1>1, <1>2 DEF Reads

(* The numbers on their way.                                               *)
LEMMA ReadsLink ==
  ASSUME NEW w \in SSL, NEW r \in SSL, NEW t \in SSL, NEW q \in Seq(Records), Link(w, r, q),
         NEW q2, NEW m, NEW f, NEW f2, Reads(r, t, q, q2, m, f, f2)
  PROVE  Link(w, t, q2)
<1>1. ASSUME NEW i \in DOMAIN q, m = q[i], q2 = q \/ q2 = RemoveAt(q, i), Saw(r, t, m)
      PROVE  Link(w, t, q2)
  <2>1. Link(w, t, q)
    BY <1>1, LinkRead, InQueue
  <2> QED
    BY <1>1, <2>1, LinkDrop
<1>2. ASSUME t.readEpoch = r.readEpoch, t.bitmap = r.bitmap, t.nextBitmap = r.nextBitmap,
             t.unprocessed \subseteq r.unprocessed, q2 = q
      PROVE  Link(w, t, q2)
  BY <1>2 DEF Link, MapOf
<1> QED
  BY <1>1, <1>2 DEF Reads

(* What is expected still comes, unless there was a fault.                 *)
LEMMA ReadsComing ==
  ASSUME NEW w \in SSL, NEW r \in SSL, NEW t \in SSL, NEW q \in Seq(Records), Link(w, r, q),
         NEW q2, NEW m, NEW f, NEW f2, Reads(r, t, q, q2, m, f, f2),
         NEW d \in Seq(Types), NEW d2 \in Seq(Types), NEW k, Suffix(d2, d, k), Coming(q, r, d),
         \A i \in DOMAIN d : d[i] # "HVR",
         k = 0 /\ d # <<>> => ~(m.type = d[1] /\ New(r, m))
  PROVE  f + 1 <= f2 \/ Coming(q2, t, d2)
<1>1. CASE Saw(r, t, m) /\ 1 \in DOMAIN q /\ m = q[1] /\ q2 = RemoveAt(q, 1)
  <2>1. \A i \in DOMAIN q : i # 1 /\ q[i].type # "HVR" /\ New(r, q[i]) => New(t, q[i])
    BY <1>1, NewKept
  <2> QED
    BY <1>1, <2>1, ComingNext
<1>2. CASE t.readEpoch = r.readEpoch /\ t.bitmap = r.bitmap /\ t.nextBitmap = r.nextBitmap
           /\ q2 = q
  <2>1. \A i \in DOMAIN q : New(r, q[i]) => New(t, q[i])
    BY <1>2 DEF New, MapOf
  <2> QED
    BY <1>2, <2>1, ComingKept
<1> QED
  BY <1>1, <1>2 DEF Reads

------------------------------------------------------------------------------
(* Faults pay for timeouts.                                                *)

(* Hope is a number from 0 to 2.                                           *)
LEMMA Hopes ==
  /\ \A c, s, U, D : HelloHope(c, s, U, D) \in 0 .. 2
  /\ \A c, down : KeyHope(c, down) \in 0 .. 2 /\ (c.st # "CW_CERT" => KeyHope(c, down) \in 0 .. 1)
  /\ \A s, up : FinHope(s, up) \in 0 .. 2 /\ (s.st # "SW_CHANGE" => FinHope(s, up) \in 0 .. 1)
  /\ \A c, s, up, down : LastHope(c, s, up, down) \in 0 .. 2
BY DEF HelloHope, KeyHope, FinHope, LastHope

(* A fault pays for whatever has become of the hope.                       *)
LEMMA Faulty ==
  ASSUME NEW c, NEW s, Paired(c, s), NEW up, NEW down, NEW f \in Nat, NEW f2 \in Nat,
         f + 1 <= f2, Within(c, s, f)
  PROVE  Hoped(c, s, up, down, f2) /\ Within(c, s, f2)
<1>1. c.tries \in Nat /\ s.tries \in Nat /\ c.writeEpoch \in 0 .. 1
  BY LinkIs DEF Paired
<1>2. /\ HelloHope(c, s, ToSet(up), ToSet(down)) \in 0 .. 2 /\ KeyHope(c, down) \in 0 .. 2
      /\ FinHope(s, up) \in 0 .. 2 /\ LastHope(c, s, up, down) \in 0 .. 2
  BY Hopes
<1>3. c.writeEpoch = 0 => InInit(s)
  BY DEF Paired, InInit
<1>4. c.tries + 1 <= 2 * f2 /\ (InInit(s) => s.tries + 1 <= 2 * f2)
  BY <1>1 DEF Within
<1> QED
  BY <1>1, <1>2, <1>3, <1>4 DEF Hoped, Within

(* What is due.                                                            *)
LEMMA DueIs ==
  /\ \A c : ClientDue(c) \in Seq(Types) /\ ClientDue(c) # <<>>
            /\ (\A i \in DOMAIN ClientDue(c) : ClientDue(c)[i] # "HVR")
            /\ 1 \in DOMAIN ClientDue(c)
  /\ \A s : ServerDue(s) \in Seq(Types) /\ ServerDue(s) # <<>>
            /\ (\A i \in DOMAIN ServerDue(s) : ServerDue(s)[i] # "HVR")
            /\ 1 \in DOMAIN ServerDue(s)
<1> DEFINE P(d) == /\ d \in Seq(Types) /\ d # <<>> /\ (\A i \in DOMAIN d : d[i] # "HVR")
                   /\ 1 \in DOMAIN d
<1>1. /\ P(<<"SH", "CERT", "SHD">>) /\ P(<<"CERT", "SHD">>) /\ P(<<"SHD">>)
      /\ P(<<"NST", "CCS", "FIN">>) /\ P(<<"CCS", "FIN">>) /\ P(<<"FIN">>)
      /\ P(<<"CKE", "CCS", "FIN">>)
  BY DEF Types
<1> HIDE DEF P
<1>2. \A c : P(ClientDue(c))
  BY <1>1 DEF ClientDue
<1>3. \A s : P(ServerDue(s))
  BY <1>1 DEF ServerDue
<1> QED
  BY <1>2, <1>3 DEF P

------------------------------------------------------------------------------
(* The client reads.                                                       *)

(* Before the ServerHello it reads HelloVerifyRequests.                    *)
LEMMA OpeningRead ==
  ASSUME NEW c \in SSL, NEW s, NEW t \in SSL, NEW U, NEW down \in Seq(Records),
         NEW q2, NEW m, NEW f, NEW f2, Reads(c, t, down, q2, m, f, f2),
         Opening(mode, c, s, U, ToSet(down)), t.wseq = c.wseq, t.sendCookie,
         t.readEpoch = 0, c.readEpoch = 0,
         \A n \in ToSet(down) : n.epoch = 0 /\ n.rseq \in Nat
  PROVE  Opening(mode, t, s, U, ToSet(q2))
<1> DEFINE D == ToSet(down)
           D2 == ToSet(q2)
<1>1. D2 \subseteq D
  BY ReadsLeaves
<1>2. /\ t.unprocessed \subseteq c.unprocessed /\ t.nextBitmap = c.nextBitmap
      /\ t.bitmap = c.bitmap \/ (m \in D /\ t.bitmap = Mark(c.bitmap, m.rseq))
  <2>1. CASE Saw(c, t, m) /\ m \in D
    BY <2>1 DEF Saw
  <2>2. CASE ~(Saw(c, t, m) /\ m \in D)
    BY <2>2, InQueue DEF Reads
  <2> QED
    BY <2>1, <2>2
<1>3. PICK h \in 0 .. c.wseq[0] :
        /\ Under(c.bitmap, h)
        /\ \A n \in U : IF n.type = "CHC" THEN h <= n.rseq ELSE n.rseq < h
        /\ \A n \in D : n.rseq < h
        /\ s.st = "SW_HELLO_VERIFY" => s.wseq[0] < h
  BY DEF Opening
<1>4. h \in Nat /\ c.bitmap \in Bitmaps
  BY <1>3, LinkIs
<1>5. Under(t.bitmap, h)
  BY <1>2, <1>3, <1>4, UnderMark
<1>6. /\ t.nextBitmap = NoRecords /\ t.unprocessed = {}
      /\ mode.cookie = "none" => s.bitmap = NoRecords
  BY <1>2 DEF Opening
<1>7. h \in 0 .. t.wseq[0] /\ \A n \in D2 : n.rseq < h
  BY <1>1, <1>3
<1> HIDE DEF D, D2
<1>8. Opening(mode, t, s, U, D2)
  BY <1>3, <1>5, <1>6, <1>7 DEF Opening
<1> QED
  BY <1>8 DEF D2

(* The client reads a record: what does not depend on the faults.          *)
LEMMA ClientReads ==
  ASSUME mode \in ModeSpace, Plain(mode), NEW c, NEW s, NEW t, Paired(c, s), Paired(t, s),
         NEW up, NEW down, Carried(c, s, up, down), Steady(mode, c, s, up, down),
         NEW q2, NEW m, NEW f, NEW f2, Reads(c, t, down, q2, m, f, f2),
         t.failed = "no", t.sendCookie = c.sendCookie, t.writeEpoch = c.writeEpoch,
         t.wseq = c.wseq, t.st # "CW_CLNT_HELLO",
         c.writeEpoch = 1 => t.tries = c.tries /\ t.sent = c.sent,
         t.st \in {"CR_SRVR_HELLO", "CR_CERT"} =>
           t.sent = c.sent /\ c.st \in {"CR_SRVR_HELLO", "CR_CERT"},
         t.st \in {"CR_CERT_REQ", "CW_CERT"} => Idle(t),
         ~Helloed(s.st) => c.sendCookie,
         \A u \in t.unprocessed : u.type = "FIN"
  PROVE  Steady(mode, t, s, up, q2)
<1> DEFINE U == ToSet(up)
           D == ToSet(down)
           D2 == ToSet(q2)
<1>0. /\ c \in SSL /\ s \in SSL /\ t \in SSL /\ up \in Seq(Records) /\ down \in Seq(Records)
  BY DEF Paired, Carried
<1>1. /\ q2 \in Seq(Records) /\ D2 \subseteq D /\ (m \in D \/ q2 = down)
      /\ f <= f2 /\ f \in Nat /\ f2 \in Nat
  <2>1. down \in Seq(Records) /\ Reads(c, t, down, q2, m, f, f2)
    BY <1>0
  <2>2. /\ q2 \in Seq(Records) /\ ToSet(q2) \subseteq ToSet(down)
        /\ m \in ToSet(down) \/ q2 = down
        /\ f <= f2 /\ f \in Nat /\ f2 \in Nat
    BY <2>1, ReadsLeaves
  <2> QED
    BY <2>2
<1>2. /\ Quiet(c, s, U, D) /\ Clocks(c, s) /\ Flights(mode, c, s) /\ Stages(mode, c, s, U, D)
      /\ Link(c, s, up) /\ IF Settled(s) THEN Link(s, c, down) ELSE Opening(mode, c, s, U, D)
  BY DEF Steady
<1> HIDE DEF U, D, D2
<1>3. Quiet(t, s, U, D2)
  BY <1>1, <1>2 DEF Quiet
<1>4. Clocks(t, s)
  BY <1>2 DEF Clocks
<1>5. Flights(mode, t, s)
  BY <1>2 DEF Flights, MyHello, Paired
<1>6. Stages(mode, t, s, U, D2)
  BY <1>1, <1>2 DEF Stages, Paired
<1>7. Link(t, s, up)
  BY <1>2 DEF Link
<1>8. CASE Settled(s)
  <2>1. Link(s, t, q2)
    BY <1>0, <1>2, <1>8, ReadsLink
  <2> QED
    BY <1>3, <1>4, <1>5, <1>6, <1>7, <1>8, <2>1 DEF Steady, U, D2
<1>9. CASE ~Settled(s)
  <2>1. ~Helloed(s.st) /\ c.sendCookie /\ Opening(mode, c, s, U, D)
    BY <1>2, <1>9 DEF Settled, Helloed
  <2>2. \A n \in D : n \in Records /\ n.epoch = 0 /\ n.type = "HVR" /\ n.rseq \in Nat
    <3>1. \A n \in D : n \in Records /\ Arrives(mode, "server", s, n) /\ n.type = "HVR"
      BY <1>0, <1>2, <2>1, InQueue DEF Carried, Stages, D
    <3> QED
      BY <3>1, DownIs DEF Records
  <2>3. t.readEpoch = 0 /\ c.readEpoch = 0
    BY <1>0, <2>1, LinkIs DEF Paired, Helloed
  <2>10. Opening(mode, t, s, U, D2)
    BY <1>0, <2>1, <2>2, <2>3, OpeningRead DEF D, D2
  <2> QED
    BY <1>3, <1>4, <1>5, <1>6, <1>7, <1>9, <2>10 DEF Steady, U, D2
<1> QED
  BY <1>8, <1>9

(* The client reads a record: the timeouts are still accounted for.        *)
LEMMA ClientReadsPaid ==
  ASSUME NEW c, NEW s, NEW t, Paired(c, s), Paired(t, s),
         NEW up, NEW down, Carried(c, s, up, down), Steady(mode, c, s, up, down),
         NEW q2, NEW m, NEW f, NEW f2, Reads(c, t, down, q2, m, f, f2),
         Budget(c, s, up, down, f), ~Writing(c),
         t.sendCookie = c.sendCookie, t.writeEpoch = c.writeEpoch, t.tries <= c.tries,
         c.writeEpoch = 1 => t.tries = c.tries,
         ~Helloed(s.st) => c.sendCookie /\ t.st = c.st,
         t.st = "CR_SRVR_HELLO" => c.st = t.st,
         NEW k, t.st = "CW_CERT" \/ Suffix(ClientDue(t), ClientDue(c), k),
         k = 0 => ~(m.type = ClientDue(c)[1] /\ New(c, m))
  PROVE  Budget(t, s, up, q2, f2)
<1> DEFINE U == ToSet(up)
           D == ToSet(down)
           D2 == ToSet(q2)
<1>0. /\ c \in SSL /\ s \in SSL /\ t \in SSL /\ up \in Seq(Records) /\ down \in Seq(Records)
      /\ c.tries \in Nat /\ s.tries \in Nat /\ t.tries \in Nat /\ c.writeEpoch \in 0 .. 1
  BY LinkIs DEF Paired, Carried
<1>1. f <= f2 /\ f \in Nat /\ f2 \in Nat
  BY <1>0, ReadsLeaves
<1>2. Hoped(c, s, up, down, f) /\ Within(c, s, f) /\ Paid(c, s, U)
  BY DEF Budget
<1>3. Within(t, s, f)
  BY <1>0, <1>1, <1>2 DEF Within
<1>4. Paid(t, s, U)
  <2>1. ReadFin(s.st) => t.tries = c.tries
    BY DEF ReadFin, Paired
  <2> QED
    BY <1>2, <2>1 DEF Paid, Gone
<1>5. CASE f + 1 <= f2
  BY <1>1, <1>3, <1>4, <1>5, Faulty DEF Budget
<1>6. CASE f2 = f
  <2>0. ~(f + 1 <= f2)
    BY <1>1, <1>6
  <2>1. Helloed(s.st) => Link(s, c, down)
    BY DEF Steady, Settled, Helloed
  <2>2. ASSUME Helloed(s.st), t.st # "CW_CERT", Coming(down, c, ClientDue(c))
        PROVE  Coming(q2, t, ClientDue(t))
    BY <1>0, <2>0, <2>1, <2>2, DueIs, ReadsComing
  <2>3. c.st # "CW_CERT" /\ (s.writeEpoch = 1 => Helloed(s.st))
        /\ (c.writeEpoch = 1 => Helloed(s.st) /\ t.st # "CW_CERT")
    BY DEF Writing, Paired, Helloed, Answered
  <2>4. t.st = "CR_SRVR_HELLO" /\ ~Helloed(s.st) =>
          t.tries + 1 <= 2 * f2 + HelloHope(t, s, U, D2)
    <3>1. ~Helloed(s.st) => HelloHope(t, s, U, D2) = HelloHope(c, s, U, D)
      BY DEF HelloHope, Answering, MyHello
    <3>2. HelloHope(c, s, U, D) \in 0 .. 2
      BY Hopes
    <3>3. t.st = "CR_SRVR_HELLO" /\ ~Helloed(s.st) =>
            c.tries + 1 <= 2 * f + HelloHope(c, s, U, D)
      BY <1>2 DEF Hoped
    <3> HIDE DEF U, D, D2
    <3> QED
      BY <1>0, <1>1, <1>6, <3>1, <3>2, <3>3
  <2>5. t.writeEpoch = 0 /\ Helloed(s.st) => s.tries + 1 <= 2 * f2 + KeyHope(t, q2)
    <3>1. KeyHope(c, down) \in 0 .. 1 /\ KeyHope(t, q2) \in 0 .. 2
      BY <2>3, Hopes
    <3>2. Helloed(s.st) => KeyHope(c, down) <= KeyHope(t, q2)
      BY <2>2, <2>3 DEF KeyHope
    <3>3. t.writeEpoch = 0 /\ Helloed(s.st) => s.tries + 1 <= 2 * f + KeyHope(c, down)
      BY <1>2 DEF Hoped
    <3> QED
      BY <1>0, <1>1, <1>6, <3>1, <3>2, <3>3
  <2>6. t.writeEpoch = 1 /\ InInit(s) => t.tries + 1 <= 2 * f2 + FinHope(s, up)
    BY <1>2, <1>6 DEF Hoped
  <2>7. t.writeEpoch = 1 /\ ~InInit(s) => t.tries + 1 <= 2 * f2 + LastHope(t, s, up, q2)
    <3>1. LastHope(c, s, up, down) \in 0 .. 2 /\ LastHope(t, s, up, q2) \in 0 .. 2
      BY Hopes
    <3>2. t.writeEpoch = 1 => LastHope(c, s, up, down) <= LastHope(t, s, up, q2)
      BY <2>2, <2>3 DEF LastHope
    <3>3. t.writeEpoch = 1 /\ ~InInit(s) => c.tries + 1 <= 2 * f + LastHope(c, s, up, down)
      BY <1>2 DEF Hoped
    <3> QED
      BY <1>0, <1>1, <1>6, <3>1, <3>2, <3>3
  <2> QED
    BY <1>3, <1>4, <1>6, <2>4, <2>5, <2>6, <2>7 DEF Budget, Hoped, U, D2
<1>7. f + 1 <= f2 \/ f2 = f
  BY <1>1
<1> QED
  BY <1>5, <1>6, <1>7

------------------------------------------------------------------------------
(* The server reads.                                                       *)

(* Finished messages that are gone stay gone.                              *)
LEMMA GoneGrows ==
  ASSUME NEW c, NEW c2, NEW s, NEW s2, NEW U, NEW U2, c.tries \in Nat, c2.tries \in Nat,
         c.tries <= c2.tries,
         \A m \in s2.unprocessed : m \in s.unprocessed \/ m.rseq \notin 0 .. c.tries,
         \A m \in U2 : m.type = "FIN" /\ Unseen(s2.bitmap, m.rseq) =>
           (m \in U /\ Unseen(s.bitmap, m.rseq)) \/ m.rseq \notin 0 .. c.tries
  PROVE  /\ Gone(c, s, U) \subseteq Gone(c2, s2, U2)
         /\ IsFiniteSet(Gone(c, s, U)) /\ IsFiniteSet(Gone(c2, s2, U2))
         /\ Cardinality(Gone(c, s, U)) \in Nat /\ Cardinality(Gone(c2, s2, U2)) \in Nat
         /\ Cardinality(Gone(c, s, U)) <= Cardinality(Gone(c2, s2, U2))
         /\ Cardinality(Gone(c, s, U)) <= c.tries + 1
<1> DEFINE G == Gone(c, s, U)
           G2 == Gone(c2, s2, U2)
<1>1. G \subseteq G2
  <2> SUFFICES ASSUME NEW r \in G PROVE r \in G2
    OBVIOUS
  <2>1. r \in 0 .. c.tries /\ r \in 0 .. c2.tries
    BY DEF Gone
  <2>2. \A m \in s2.unprocessed : m.rseq # r
    BY <2>1 DEF Gone
  <2>3. \A m \in U2 : m.type = "FIN" /\ Unseen(s2.bitmap, m.rseq) => m.rseq # r
    BY <2>1 DEF Gone
  <2> QED
    BY <2>1, <2>2, <2>3 DEF Gone
<1>2. G \subseteq 0 .. c.tries /\ G2 \subseteq 0 .. c2.tries
  BY DEF Gone
<1>3. /\ IsFiniteSet(0 .. c.tries) /\ Cardinality(0 .. c.tries) = c.tries + 1
      /\ IsFiniteSet(0 .. c2.tries)
  BY FS_Interval
<1> HIDE DEF G, G2
<1>4. IsFiniteSet(G) /\ Cardinality(G) <= c.tries + 1
  BY <1>2, <1>3, FS_Subset
<1>5. IsFiniteSet(G2)
  BY <1>2, <1>3, FS_Subset
<1>6. Cardinality(G) <= Cardinality(G2) /\ Cardinality(G) \in Nat /\ Cardinality(G2) \in Nat
  BY <1>1, <1>4, <1>5, FS_Subset, FS_CardinalityType
<1> QED
  BY <1>1, <1>4, <1>5, <1>6 DEF G, G2

(* The server reads a record: what does not depend on the faults.          *)
LEMMA ServerReads ==
  ASSUME mode \in ModeSpace, Plain(mode), NEW c, NEW s, NEW t, Paired(c, s), Paired(c, t),
         NEW up, NEW down, Carried(c, s, up, down), Steady(mode, c, s, up, down),
         NEW q2, NEW m, NEW f, NEW f2, Reads(s, t, up, q2, m, f, f2),
         Helloed(s.st), Helloed(t.st), t.failed = "no", t.wseq = s.wseq,
         t.buffered = {}, t.appQueue = {},
         t.st \in {"SR_KEY_EXCH", "SR_CERT_VRFY"} =>
           t.sent = s.sent /\ s.st \in {"SR_KEY_EXCH", "SR_CERT_VRFY"},
         t.st = "OK" => s.st = "OK" /\ t.sent = s.sent /\ t.timer = s.timer,
         t.st = "SW_CHANGE" => Idle(t),
         t.st = "SR_CERT_VRFY" => c.writeEpoch = 1,
         \A u \in t.unprocessed : u.type = "FIN"
  PROVE  Steady(mode, c, t, q2, down)
<1> DEFINE U == ToSet(up)
           D == ToSet(down)
           U2 == ToSet(q2)
<1>0. /\ c \in SSL /\ s \in SSL /\ t \in SSL /\ up \in Seq(Records) /\ down \in Seq(Records)
  BY DEF Paired, Carried
<1>1. q2 \in Seq(Records) /\ U2 \subseteq U
  <2>1. q2 \in Seq(Records) /\ ToSet(q2) \subseteq ToSet(up)
    BY <1>0, ReadsLeaves
  <2> QED
    BY <2>1
<1>2. /\ Quiet(c, s, U, D) /\ Clocks(c, s) /\ Flights(mode, c, s) /\ Stages(mode, c, s, U, D)
      /\ Link(c, s, up) /\ Settled(s) /\ Settled(t) /\ Link(s, c, down)
  BY DEF Steady, Settled, Helloed
<1> HIDE DEF U, D, U2
<1>3. Quiet(c, t, U2, D)
  BY <1>1, <1>2 DEF Quiet
<1>4. Clocks(c, t)
  BY <1>2 DEF Clocks, Helloed
<1>5. Flights(mode, c, t)
  BY <1>2 DEF Flights
<1>6. Stages(mode, c, t, U2, D)
  BY <1>1, <1>2 DEF Stages, Has
<1>7. Link(c, t, q2)
  BY <1>0, <1>2, ReadsLink
<1>8. Link(t, c, down)
  BY <1>2 DEF Link
<1> QED
  BY <1>2, <1>3, <1>4, <1>5, <1>6, <1>7, <1>8 DEF Steady, U2, D

(* The server reads a record: the timeouts are still accounted for.        *)
LEMMA ServerReadsPaid ==
  ASSUME NEW c, NEW s, NEW t, Paired(c, s), Paired(c, t),
         NEW up, NEW down, Carried(c, s, up, down), Steady(mode, c, s, up, down),
         NEW q2, NEW m, NEW f, NEW f2, Reads(s, t, up, q2, m, f, f2),
         Budget(c, s, up, down, f), ~Writing(s), Helloed(s.st), Helloed(t.st),
         t.tries <= s.tries, InInit(s) <=> InInit(t),
         NEW k, t.st = "SW_CHANGE" \/ Suffix(ServerDue(t), ServerDue(s), k),
         k = 0 => ~(m.type = ServerDue(s)[1] /\ New(s, m)),
         Paid(c, t, ToSet(q2))
  PROVE  Budget(c, t, q2, down, f2)
<1>0. /\ c \in SSL /\ s \in SSL /\ t \in SSL /\ up \in Seq(Records) /\ down \in Seq(Records)
      /\ c.tries \in Nat /\ s.tries \in Nat /\ t.tries \in Nat /\ c.writeEpoch \in 0 .. 1
  BY LinkIs DEF Paired, Carried
<1>1. f <= f2 /\ f \in Nat /\ f2 \in Nat
  BY <1>0, ReadsLeaves
<1>2. Hoped(c, s, up, down, f) /\ Within(c, s, f)
  BY DEF Budget
<1>3. Within(c, t, f)
  BY <1>0, <1>1, <1>2 DEF Within
<1>5. CASE f + 1 <= f2
  BY <1>1, <1>3, <1>5, Faulty DEF Budget
<1>6. CASE f2 = f
  <2>0. ~(f + 1 <= f2)
    BY <1>1, <1>6
  <2>1. Link(c, s, up) /\ s.st # "SW_CHANGE"
    BY DEF Steady, Writing
  <2>2. ASSUME t.st # "SW_CHANGE", Coming(up, s, ServerDue(s))
        PROVE  Coming(q2, t, ServerDue(t))
    BY <1>0, <2>0, <2>1, <2>2, DueIs, ReadsComing
  <2>3. t.writeEpoch = s.writeEpoch
    BY LinkIs DEF Paired, InInit
  <2>5. c.writeEpoch = 0 /\ Helloed(t.st) => t.tries + 1 <= 2 * f2 + KeyHope(c, down)
    <3>1. KeyHope(c, down) \in 0 .. 2
      BY Hopes
    <3>2. c.writeEpoch = 0 => s.tries + 1 <= 2 * f + KeyHope(c, down)
      BY <1>2 DEF Hoped
    <3> QED
      BY <1>0, <1>1, <1>6, <3>1, <3>2
  <2>6. c.writeEpoch = 1 /\ InInit(t) => c.tries + 1 <= 2 * f2 + FinHope(t, q2)
    <3>1. FinHope(s, up) \in 0 .. 1 /\ FinHope(t, q2) \in 0 .. 2
      BY <2>1, Hopes
    <3>2. FinHope(s, up) <= FinHope(t, q2)
      BY <2>1, <2>2 DEF FinHope
    <3>3. c.writeEpoch = 1 /\ InInit(t) => c.tries + 1 <= 2 * f + FinHope(s, up)
      BY <1>2 DEF Hoped
    <3> QED
      BY <1>0, <1>1, <1>6, <3>1, <3>2, <3>3
  <2>7. c.writeEpoch = 1 /\ ~InInit(t) => c.tries + 1 <= 2 * f2 + LastHope(c, t, q2, down)
    <3>1. LastHope(c, s, up, down) \in 0 .. 2 /\ LastHope(c, t, q2, down) \in 0 .. 2
      BY Hopes
    <3>2. ~InInit(t) => ServerDue(s) = <<"FIN">> /\ ServerDue(t) = <<"FIN">>
      BY DEF InInit, ServerDue
    <3>3. ~InInit(t) => LastHope(c, s, up, down) <= LastHope(c, t, q2, down)
      BY <2>2, <3>2 DEF LastHope, InInit
    <3>4. c.writeEpoch = 1 /\ ~InInit(t) => c.tries + 1 <= 2 * f + LastHope(c, s, up, down)
      BY <1>2 DEF Hoped
    <3> QED
      BY <1>0, <1>1, <1>6, <3>1, <3>3, <3>4
  <2> QED
    BY <1>3, <1>6, <2>5, <2>6, <2>7 DEF Budget, Hoped
<1>7. f + 1 <= f2 \/ f2 = f
  BY <1>1
<1> QED
  BY <1>5, <1>6, <1>7

(* At a server that has completed, no Finished comes back.                 *)
LEMMA ReadsPaid ==
  ASSUME NEW c, NEW s, NEW t, Paired(c, s), NEW up \in Seq(Records), NEW q2, NEW m,
         NEW f, NEW f2, Reads(s, t, up, q2, m, f, f2), t.tries = s.tries, s.readEpoch = 1,
         Paid(c, s, ToSet(up)), ReadFin(s.st)
  PROVE  Paid(c, t, ToSet(q2))
<1>0. s \in SSL /\ c \in SSL /\ c.tries \in Nat /\ s.tries \in Nat /\ s.bitmap \in Bitmaps
  BY LinkIs DEF Paired
<1>1. ToSet(q2) \subseteq ToSet(up) /\ (m \in ToSet(up) \/ q2 = up)
  BY ReadsLeaves
<1>2. \A n \in ToSet(up) : n \in Records /\ n.rseq \in Nat
  BY InQueue DEF Records
<1>3. /\ t.unprocessed \subseteq s.unprocessed
      /\ t.bitmap = s.bitmap \/ (m \in ToSet(up) /\ t.bitmap = Mark(s.bitmap, m.rseq))
  <2>1. ASSUME Saw(s, t, m), m \in ToSet(up)
        PROVE  /\ t.unprocessed \subseteq s.unprocessed
               /\ t.bitmap = s.bitmap \/ (m \in ToSet(up) /\ t.bitmap = Mark(s.bitmap, m.rseq))
    BY <2>1 DEF Saw
  <2>2. CASE ~(Saw(s, t, m) /\ m \in ToSet(up))
    BY <2>2, InQueue DEF Reads
  <2> QED
    BY <2>1, <2>2
<1>4. \A n \in ToSet(q2) : Unseen(t.bitmap, n.rseq) => Unseen(s.bitmap, n.rseq)
  BY <1>0, <1>1, <1>2, <1>3, Marked
<1>5. /\ Cardinality(Gone(c, s, ToSet(up))) <= Cardinality(Gone(c, t, ToSet(q2)))
      /\ Cardinality(Gone(c, s, ToSet(up))) \in Nat /\ Cardinality(Gone(c, t, ToSet(q2))) \in Nat
  <2>1. \A n \in t.unprocessed : n \in s.unprocessed \/ n.rseq \notin 0 .. c.tries
    BY <1>3
  <2>2. \A n \in ToSet(q2) : n.type = "FIN" /\ Unseen(t.bitmap, n.rseq) =>
          (n \in ToSet(up) /\ Unseen(s.bitmap, n.rseq)) \/ n.rseq \notin 0 .. c.tries
    BY <1>1, <1>4
  <2>3. c.tries <= c.tries
    BY <1>0
  <2> QED
    BY <1>0, <2>1, <2>2, <2>3, GoneGrows
<1>6. s.tries < Cardinality(Gone(c, s, ToSet(up)))
  BY DEF Paid
<1> QED
  BY <1>0, <1>5, <1>6 DEF Paid

------------------------------------------------------------------------------
(* The ClientHello and the cookie.                                         *)

(* The client takes the HelloVerifyRequest.                                *)
LEMMA ClientVerified ==
  ASSUME mode \in ModeSpace, Plain(mode), NEW c, NEW s, NEW t, Paired(c, s), Paired(t, s),
         NEW up, NEW down, Carried(c, s, up, down), NEW f, Tolerates(mode, c, s, up, down, f),
         NEW q2, NEW m, NEW f2, Reads(c, t, down, q2, m, f, f2),
         c.st = "CR_SRVR_HELLO", ~c.sendCookie, mode.cookie # "none",
         t.st = "CW_CLNT_HELLO", t.sendCookie, t.failed = "no", t.wseq = c.wseq,
         t.sent = <<>>, Idle(t), \A u \in t.unprocessed : u.type = "FIN"
  PROVE  Tolerates(mode, t, s, up, q2, f2)
<1> DEFINE U == ToSet(up)
           D == ToSet(down)
           D2 == ToSet(q2)
<1>0. /\ c \in SSL /\ s \in SSL /\ t \in SSL /\ up \in Seq(Records) /\ down \in Seq(Records)
  BY DEF Paired, Carried
<1>1. /\ q2 \in Seq(Records) /\ D2 \subseteq D
      /\ f <= f2 /\ f \in Nat /\ f2 \in Nat
  <2>1. down \in Seq(Records) /\ Reads(c, t, down, q2, m, f, f2)
    BY <1>0
  <2>2. /\ q2 \in Seq(Records) /\ ToSet(q2) \subseteq ToSet(down)
        /\ f <= f2 /\ f \in Nat /\ f2 \in Nat
    BY <2>1, ReadsLeaves
  <2> QED
    BY <2>2
<1>2. /\ Quiet(c, s, U, D) /\ Clocks(c, s) /\ Flights(mode, c, s) /\ Stages(mode, c, s, U, D)
      /\ Link(c, s, up) /\ IF Settled(s) THEN Link(s, c, down) ELSE Opening(mode, c, s, U, D)
      /\ Budget(c, s, up, down, f)
  BY DEF Steady, Tolerates
<1> HIDE DEF U, D, D2
<1>3. ~Settled(s) /\ ~Helloed(s.st) /\ Opening(mode, c, s, U, D) /\ t.writeEpoch = 0
      /\ c.writeEpoch = 0
  BY <1>0, <1>2, LinkIs DEF Stages, Settled, Helloed, Paired
<1>4. Quiet(t, s, U, D2)
  BY <1>1, <1>2 DEF Quiet
<1>5. Clocks(t, s)
  BY <1>2 DEF Clocks
<1>6. Flights(mode, t, s)
  BY <1>2, <1>3 DEF Flights
<1>7. Stages(mode, t, s, U, D2)
  BY <1>1, <1>2, <1>3 DEF Stages
<1>8. Link(t, s, up)
  BY <1>2 DEF Link
<1>9. Opening(mode, t, s, U, D2)
  <2>1. \A n \in D : n.epoch = 0 /\ n.rseq \in Nat
    <3>1. \A n \in D : n \in Records /\ Arrives(mode, "server", s, n) /\ n.type = "HVR"
      BY <1>0, <1>2, <1>3, InQueue DEF Carried, Stages, D
    <3> QED
      BY <3>1, DownIs DEF Records
  <2>2. t.readEpoch = 0 /\ c.readEpoch = 0
    BY <1>0, <1>3, LinkIs DEF Paired, Helloed
  <2> QED
    BY <1>0, <1>3, <2>1, <2>2, OpeningRead DEF D, D2
<1>10. Budget(t, s, up, q2, f2)
  <2>1. Within(t, s, f2)
    BY <1>0, <1>1, <1>2, LinkIs DEF Budget, Within, Idle
  <2>2. Hoped(t, s, up, q2, f2)
    BY <1>3 DEF Hoped
  <2>3. ~ReadFin(s.st)
    BY <1>3 DEF Settled, ReadFin
  <2> QED
    BY <2>1, <2>2, <2>3 DEF Budget, Paid
<1> QED
  BY <1>3, <1>4, <1>5, <1>6, <1>7, <1>8, <1>9, <1>10 DEF Tolerates, Steady, U, D2

(* The server takes a ClientHello.                                         *)
LEMMA ServerHears ==
  ASSUME mode \in ModeSpace, Plain(mode), NEW c, NEW s, NEW t, Paired(c, s), Paired(c, t),
         NEW up, NEW down, Carried(c, s, up, down), NEW f, Tolerates(mode, c, s, up, down, f),
         NEW q2, NEW m \in ToSet(up), NEW f2, Reads(s, t, up, q2, m, f, f2),
         s.st = "SR_CLNT_HELLO", t.failed = "no", Idle(t), t.buffered = {}, t.appQueue = {},
         t.wseq[0] = IF mode.cookie = "listen" THEN m.rseq ELSE s.wseq[0],
         \/ t.st = "SW_HELLO_VERIFY" /\ m.type = "CH" /\ mode.cookie = "listen"
         \/ t.st = "SW_SRVR_HELLO" /\ m.type = IF mode.cookie = "none" THEN "CH" ELSE "CHC",
         \A u \in t.unprocessed : u.type = "FIN"
  PROVE  Tolerates(mode, c, t, q2, down, f2)
<1> DEFINE U == ToSet(up)
           D == ToSet(down)
           U2 == ToSet(q2)
<1>0. /\ c \in SSL /\ s \in SSL /\ t \in SSL /\ up \in Seq(Records) /\ down \in Seq(Records)
      /\ mode.cookie \in {"none", "listen"}
  BY DEF Paired, Carried
<1>1. /\ q2 \in Seq(Records) /\ U2 \subseteq U /\ U \subseteq U2 \cup {m}
      /\ f <= f2 /\ f \in Nat /\ f2 \in Nat
  <2>1. up \in Seq(Records) /\ Reads(s, t, up, q2, m, f, f2)
    BY <1>0
  <2>2. /\ q2 \in Seq(Records) /\ ToSet(q2) \subseteq ToSet(up)
        /\ ToSet(up) \subseteq ToSet(q2) \cup {m}
        /\ f <= f2 /\ f \in Nat /\ f2 \in Nat
    BY <2>1, ReadsLeaves
  <2> QED
    BY <2>2
<1>m. m \in Records /\ m \in U /\ m.rseq \in Nat
  BY <1>0, InQueue DEF Records
<1>2. /\ Quiet(c, s, U, D) /\ Clocks(c, s) /\ Flights(mode, c, s) /\ Stages(mode, c, s, U, D)
      /\ Link(c, s, up) /\ IF Settled(s) THEN Link(s, c, down) ELSE Opening(mode, c, s, U, D)
      /\ Budget(c, s, up, down, f)
  BY DEF Steady, Tolerates
<1> HIDE DEF U, D, U2
<1>3. /\ ~Settled(s) /\ ~Helloed(s.st) /\ ~Helloed(t.st) /\ Opening(mode, c, s, U, D)
      /\ c.readEpoch = 0 /\ c.writeEpoch = 0 /\ c.st \in {"CW_CLNT_HELLO", "CR_SRVR_HELLO"}
  BY <1>0, <1>2, LinkIs DEF Settled, Helloed, Paired, Answered
<1>d. \A n \in D : n.type = "HVR" /\ n \in Records /\ n.epoch = 0 /\ mode.cookie # "none"
  <2>1. \A n \in D : n \in Records /\ Arrives(mode, "server", s, n) /\ n.type = "HVR"
    BY <1>0, <1>2, <1>3, InQueue DEF Carried, Stages, D
  <2> QED
    BY <2>1, DownIs
<1>4. Quiet(c, t, U2, D)
  BY <1>1, <1>2 DEF Quiet
<1>5. Clocks(c, t)
  BY <1>2 DEF Clocks
<1>6. Flights(mode, c, t)
  BY <1>2 DEF Flights
<1>7. Link(c, t, q2)
  BY <1>0, <1>2, ReadsLink
<1>8. t.st = "SW_SRVR_HELLO" => c.st # "CW_CLNT_HELLO" /\ (c.sendCookie <=> mode.cookie # "none")
  <2>1. CASE mode.cookie # "none"
    BY <1>m, <1>2, <2>1 DEF Stages, Has
  <2>2. CASE mode.cookie = "none" /\ t.st = "SW_SRVR_HELLO"
    <3>1. ~c.sendCookie
      BY <2>2 DEF Paired
    <3>2. Arrives(mode, "client", c, m) /\ m.type = "CH"
      BY <2>2 DEF Carried
    <3>3. m.epoch = 0
      BY <1>m, <3>2, UpIs
    <3>4. m.rseq < c.wseq[0] /\ c.wseq[0] \in Nat
      BY <1>0, <1>2, <3>3, InQueue, LinkIs DEF Link
    <3>5. c.wseq[0] # 0
      BY <1>m, <3>4
    <3> QED
      BY <1>2, <2>2, <3>1, <3>5 DEF Stages
  <2> QED
    BY <2>1, <2>2
<1>9. Stages(mode, c, t, U2, D)
  BY <1>1, <1>2, <1>3, <1>8 DEF Stages, Has, Settled
<1>10. PICK h \in 0 .. c.wseq[0] :
          /\ Under(c.bitmap, h)
          /\ \A n \in U : IF n.type = "CHC" THEN h <= n.rseq ELSE n.rseq < h
          /\ \A n \in D : n.rseq < h
          /\ s.st = "SW_HELLO_VERIFY" => s.wseq[0] < h
  BY <1>3 DEF Opening
<1>11. h \in Nat /\ c.bitmap \in Bitmaps /\ t.wseq[0] \in Nat
  BY <1>0, <1>10, LinkIs
<1>s. /\ t.st = "SW_HELLO_VERIFY" \/ t.st = "SW_SRVR_HELLO"
      /\ t.st = "SW_HELLO_VERIFY" => mode.cookie # "none" /\ m.type = "CH"
  OBVIOUS
<1>12. ASSUME t.st = "SW_HELLO_VERIFY" PROVE Steady(mode, c, t, q2, down)
  <2>1. t.wseq[0] < h
    BY <1>m, <1>10, <1>12
  <2>3. /\ c.nextBitmap = NoRecords /\ c.unprocessed = {}
        /\ ~c.sendCookie => c.bitmap = NoRecords
        /\ mode.cookie = "none" => t.bitmap = NoRecords
    BY <1>3, <1>12, <1>s DEF Opening
  <2>4. \A n \in U2 : IF n.type = "CHC" THEN h <= n.rseq ELSE n.rseq < h
    BY <1>1, <1>10
  <2>2. Opening(mode, c, t, U2, D)
    BY <1>10, <2>1, <2>3, <2>4 DEF Opening
  <2> QED
    BY <1>4, <1>5, <1>6, <1>7, <1>9, <1>12, <2>2 DEF Steady, Settled, U2, D
<1>13. ASSUME t.st = "SW_SRVR_HELLO" PROVE Steady(mode, c, t, q2, down)
  <2>1. Under(c.bitmap, t.wseq[0]) /\ \A n \in D : n.rseq < t.wseq[0] /\ n.epoch = 0
    <3>1. CASE mode.cookie = "none"
      BY <1>3, <1>d, <1>8, <1>13, <3>1 DEF Opening, Under
    <3>2. CASE mode.cookie = "listen"
      <4>1. t.wseq[0] = m.rseq /\ h <= m.rseq
        BY <1>m, <1>10, <1>13, <3>2
      <4> QED
        BY <1>d, <1>m, <1>10, <1>11, <4>1, UnderMore DEF Records
    <3> QED
      BY <1>0, <3>1, <3>2
  <2>2. /\ \A i \in DOMAIN down : down[i] \in D
        /\ c.unprocessed = {} /\ c.nextBitmap = NoRecords
    BY <1>0, <1>3, InQueue DEF Opening, D
  <2>4. \A i \in DOMAIN down : down[i].type = "HVR" /\ down[i].rseq < t.wseq[down[i].epoch]
    BY <1>d, <2>1, <2>2
  <2>5. Under(c.bitmap, t.wseq[c.readEpoch]) /\ Under(c.nextBitmap, t.wseq[1])
    BY <1>3, <2>1, <2>2 DEF Under
  <2>3. Link(t, c, down)
    BY <2>2, <2>4, <2>5 DEF Link
  <2> QED
    BY <1>4, <1>5, <1>6, <1>7, <1>9, <1>13, <2>3 DEF Steady, Settled, U2, D
<1>14. Steady(mode, c, t, q2, down)
  BY <1>12, <1>13, <1>s
<1>15. Within(c, t, f2) /\ Within(c, t, f)
  BY <1>0, <1>1, <1>2, LinkIs DEF Budget, Within, Idle
<1>16. Hoped(c, t, q2, down, f2)
  <2>1. CASE f + 1 <= f2
    BY <1>1, <1>15, <2>1, Faulty
  <2>2. CASE f2 = f
    <3>1. HelloHope(c, s, U, D) <= HelloHope(c, t, U2, D)
      <4>1. ~Answering(c, s)
        BY DEF Answering
      <4>2. CASE t.st = "SW_SRVR_HELLO"
        <5>1. ~(~c.sendCookie /\ D # {})
          BY <1>d, <1>8, <4>2
        <5>2. Answering(c, t)
          BY <4>2 DEF Answering
        <5> QED
          BY <4>1, <5>1, <5>2 DEF HelloHope
      <4>3. CASE t.st = "SW_HELLO_VERIFY" /\ ~c.sendCookie
        <5>1. Answering(c, t)
          BY <4>3 DEF Answering
        <5> QED
          BY <4>1, <4>3, <5>1 DEF HelloHope
      <4>4. CASE t.st = "SW_HELLO_VERIFY" /\ c.sendCookie
        <5>1. Has(U, MyHello(c)) => Has(U2, MyHello(c))
          BY <1>1, <4>4 DEF Has, MyHello
        <5> QED
          BY <4>1, <4>4, <5>1 DEF HelloHope
      <4> QED
        BY <4>2, <4>3, <4>4
    <3>2. HelloHope(c, s, U, D) \in 0 .. 2 /\ HelloHope(c, t, U2, D) \in 0 .. 2
      BY Hopes
    <3>3. c.st = "CR_SRVR_HELLO" => c.tries + 1 <= 2 * f + HelloHope(c, s, U, D)
      BY <1>2, <1>3 DEF Hoped, Budget, U, D
    <3>4. c.tries \in Nat
      BY <1>0, LinkIs
    <3>5. c.st = "CR_SRVR_HELLO" => c.tries + 1 <= 2 * f2 + HelloHope(c, t, U2, D)
      BY <1>1, <2>2, <3>1, <3>2, <3>3, <3>4
    <3> QED
      BY <1>3, <3>5 DEF Hoped, U2, D
  <2>3. f + 1 <= f2 \/ f2 = f
    BY <1>1
  <2> QED
    BY <2>1, <2>2, <2>3
<1>17. ~ReadFin(t.st)
  BY DEF ReadFin
<1> QED
  BY <1>14, <1>15, <1>16, <1>17 DEF Tolerates, Budget, Paid

------------------------------------------------------------------------------
(* The client writes.                                                      *)

(* What is still due of a flight is the rest of it.                        *)
LEMMA Tails ==
  /\ Suffix(<<"CKE", "CCS", "FIN">>, <<"CKE", "CCS", "FIN">>, 0)
  /\ Suffix(<<"CCS", "FIN">>, <<"CKE", "CCS", "FIN">>, 1)
  /\ Suffix(<<"FIN">>, <<"CKE", "CCS", "FIN">>, 2)
  /\ Suffix(<<"NST", "CCS", "FIN">>, <<"NST", "CCS", "FIN">>, 0)
  /\ Suffix(<<"CCS", "FIN">>, <<"NST", "CCS", "FIN">>, 1)
  /\ Suffix(<<"FIN">>, <<"NST", "CCS", "FIN">>, 2)
  /\ Suffix(<<"CCS", "FIN">>, <<"CCS", "FIN">>, 0)
  /\ Suffix(<<"FIN">>, <<"CCS", "FIN">>, 1)
  /\ Suffix(<<"FIN">>, <<"FIN">>, 0)
  /\ Suffix(<<"SH", "CERT", "SHD">>, <<"SH", "CERT", "SHD">>, 0)
  /\ Suffix(<<"CERT", "SHD">>, <<"SH", "CERT", "SHD">>, 1)
  /\ Suffix(<<"SHD">>, <<"SH", "CERT", "SHD">>, 2)
  /\ Suffix(<<"SHD">>, <<"CERT", "SHD">>, 1)
  /\ Suffix(<<"CERT", "SHD">>, <<"CERT", "SHD">>, 0)
  /\ Suffix(<<"SHD">>, <<"SHD">>, 0)
<1>1. Suffix(<<"CKE", "CCS", "FIN">>, <<"CKE", "CCS", "FIN">>, 0)
  BY DEF Suffix
<1>2. Suffix(<<"CCS", "FIN">>, <<"CKE", "CCS", "FIN">>, 1)
  BY DEF Suffix
<1>3. Suffix(<<"FIN">>, <<"CKE", "CCS", "FIN">>, 2)
  BY DEF Suffix
<1>4. Suffix(<<"NST", "CCS", "FIN">>, <<"NST", "CCS", "FIN">>, 0)
  BY DEF Suffix
<1>5. Suffix(<<"CCS", "FIN">>, <<"NST", "CCS", "FIN">>, 1)
  BY DEF Suffix
<1>6. Suffix(<<"FIN">>, <<"NST", "CCS", "FIN">>, 2)
  BY DEF Suffix
<1>7. Suffix(<<"CCS", "FIN">>, <<"CCS", "FIN">>, 0)
  BY DEF Suffix
<1>8. Suffix(<<"FIN">>, <<"CCS", "FIN">>, 1)
  BY DEF Suffix
<1>9. Suffix(<<"FIN">>, <<"FIN">>, 0)
  BY DEF Suffix
<1>10. Suffix(<<"SH", "CERT", "SHD">>, <<"SH", "CERT", "SHD">>, 0)
  BY DEF Suffix
<1>11. Suffix(<<"CERT", "SHD">>, <<"SH", "CERT", "SHD">>, 1)
  BY DEF Suffix
<1>12. Suffix(<<"SHD">>, <<"SH", "CERT", "SHD">>, 2)
  BY DEF Suffix
<1>13. Suffix(<<"SHD">>, <<"CERT", "SHD">>, 1)
  BY DEF Suffix
<1>14. Suffix(<<"CERT", "SHD">>, <<"CERT", "SHD">>, 0)
  BY DEF Suffix
<1>15. Suffix(<<"SHD">>, <<"SHD">>, 0)
  BY DEF Suffix
<1> QED
  BY <1>1, <1>2, <1>3, <1>4, <1>5, <1>6, <1>7, <1>8, <1>9, <1>10, <1>11, <1>12, <1>13, <1>14, <1>15

(* The windows of s and t are the same.                                    *)
Sees(s, t) ==
  /\ t.readEpoch = s.readEpoch /\ t.bitmap = s.bitmap /\ t.nextBitmap = s.nextBitmap
  /\ t.unprocessed = s.unprocessed

(* The client sends: what does not depend on the faults.                   *)
LEMMA ClientSends ==
  ASSUME mode \in ModeSpace, Plain(mode), NEW c, NEW s, NEW t, Paired(c, s), Paired(t, s),
         NEW up, NEW down, Carried(c, s, up, down), Steady(mode, c, s, up, down),
         NEW out \in Seq(Records), Numbered(c.wseq, t.wseq, out),
         t.failed = "no", t.sendCookie = c.sendCookie, Sees(c, t),
         \A i \in DOMAIN out : /\ out[i].type \in {"CH", "CHC", "CKE", "CCS", "FIN"}
                               /\ out[i].type = "CHC" => t.sendCookie
                               /\ out[i].type = "CKE" => t.writeEpoch = 1
                               /\ ~Settled(s) => out[i].type = MyHello(t) /\ out[i].epoch = 0,
         t.st \notin {"CW_CLNT_HELLO", "CR_CERT_REQ", "CW_CERT"},
         c.writeEpoch = 1 => t.writeEpoch = 1,
         t.wseq[1] = IF t.writeEpoch = 1 THEN t.tries + 1 ELSE 0,
         t.st \in {"CR_SRVR_HELLO", "CR_CERT"} => Sends(t.sent, <<MyHello(t)>>),
         t.writeEpoch = 1 => Sends(t.sent, <<"CKE", "CCS", "FIN">>)
  PROVE  Steady(mode, t, s, up \o out, down)
<1> DEFINE U == ToSet(up)
           D == ToSet(down)
           U2 == ToSet(up \o out)
           O == ToSet(out)
<1>0. /\ c \in SSL /\ s \in SSL /\ t \in SSL /\ up \in Seq(Records) /\ down \in Seq(Records)
  BY DEF Paired, Carried
<1>1. U2 = U \cup O
  BY <1>0, InJoined
<1>2. /\ Quiet(c, s, U, D) /\ Clocks(c, s) /\ Flights(mode, c, s) /\ Stages(mode, c, s, U, D)
      /\ Link(c, s, up) /\ IF Settled(s) THEN Link(s, c, down) ELSE Opening(mode, c, s, U, D)
  BY DEF Steady
<1>3. \A m \in O : /\ m.type \in {"CH", "CHC", "CKE", "CCS", "FIN"}
                   /\ m.type = "CHC" => t.sendCookie
                   /\ m.type = "CKE" => t.writeEpoch = 1
                   /\ ~Settled(s) => m.type = MyHello(t) /\ m.epoch = 0
                   /\ m.epoch \in 0 .. 1 /\ m.rseq \in Nat
                   /\ c.wseq[m.epoch] <= m.rseq /\ m.rseq < t.wseq[m.epoch]
  <2> SUFFICES ASSUME NEW m \in O
               PROVE  /\ m.type \in {"CH", "CHC", "CKE", "CCS", "FIN"}
                      /\ m.type = "CHC" => t.sendCookie
                      /\ m.type = "CKE" => t.writeEpoch = 1
                      /\ ~Settled(s) => m.type = MyHello(t) /\ m.epoch = 0
                      /\ m.epoch \in 0 .. 1 /\ m.rseq \in Nat
                      /\ c.wseq[m.epoch] <= m.rseq /\ m.rseq < t.wseq[m.epoch]
    OBVIOUS
  <2>1. PICK i \in DOMAIN out : m = out[i]
    BY InQueue
  <2>2. m \in Records
    BY InQueue
  <2>3. c.wseq[out[i].epoch] <= out[i].rseq /\ out[i].rseq < t.wseq[out[i].epoch]
    BY DEF Numbered
  <2> QED
    BY <2>1, <2>2, <2>3 DEF Records
<1> HIDE DEF U, D, U2, O
<1>4. Quiet(t, s, U2, D)
  BY <1>1, <1>2, <1>3 DEF Quiet, Sees
<1>5. Clocks(t, s)
  BY <1>2 DEF Clocks
<1>6. Flights(mode, t, s)
  BY <1>2 DEF Flights
<1>7. Stages(mode, t, s, U2, D)
  <2>1. Has(U2, "CHC") => t.sendCookie
    BY <1>1, <1>2, <1>3 DEF Stages, Has
  <2>2. Has(U2, "CKE") \/ s.st = "SR_CERT_VRFY" => t.writeEpoch = 1
    BY <1>1, <1>2, <1>3 DEF Stages, Has
  <2> QED
    BY <1>2, <2>1, <2>2 DEF Stages
<1>8. Link(t, s, up \o out)
  BY <1>0, <1>2, LinkSend
<1>9. CASE Settled(s)
  <2>1. Link(s, t, down)
    BY <1>2, <1>9 DEF Link, Sees, MapOf
  <2> QED
    BY <1>4, <1>5, <1>6, <1>7, <1>8, <1>9, <2>1 DEF Steady, U2, D
<1>10. CASE ~Settled(s)
  <2>1. Opening(mode, c, s, U, D)
    BY <1>2, <1>10
  <2>2. PICK h \in 0 .. c.wseq[0] :
          /\ Under(c.bitmap, h)
          /\ \A n \in U : IF n.type = "CHC" THEN h <= n.rseq ELSE n.rseq < h
          /\ \A n \in D : n.rseq < h
          /\ s.st = "SW_HELLO_VERIFY" => s.wseq[0] < h
    BY <2>1 DEF Opening
  <2>3. /\ t.nextBitmap = NoRecords /\ t.unprocessed = {}
        /\ ~t.sendCookie => t.bitmap = NoRecords
        /\ mode.cookie = "none" => s.bitmap = NoRecords
        /\ t.bitmap = c.bitmap
    BY <2>1 DEF Opening, Sees
  <2>4. h \in Nat /\ c.wseq[0] \in Nat /\ t.wseq[0] \in Nat /\ c.wseq[0] <= t.wseq[0] /\ h <= c.wseq[0]
        /\ s.wseq[0] \in Nat
    BY <1>0, <2>2, LinkIs DEF Numbered
  <2>n. /\ \A n \in U \cup D : n.rseq \in Nat
        /\ \A n \in O : n.type = MyHello(t) /\ n.rseq \in Nat
                        /\ c.wseq[0] <= n.rseq /\ n.rseq < t.wseq[0]
    BY <1>0, <1>3, <1>10, InQueue DEF Records, U, D
  <2>5. CASE t.sendCookie
    <3>1. \A n \in U2 : IF n.type = "CHC" THEN h <= n.rseq ELSE n.rseq < h
      BY <1>1, <2>2, <2>4, <2>5, <2>n DEF MyHello
    <3>2. h \in 0 .. t.wseq[0] /\ Under(t.bitmap, h)
      BY <2>2, <2>3, <2>4
    <3>3. Opening(mode, t, s, U2, D)
      BY <2>2, <2>3, <3>1, <3>2 DEF Opening
    <3> QED
      BY <1>4, <1>5, <1>6, <1>7, <1>8, <1>10, <3>3 DEF Steady, U2, D
  <2>6. CASE ~t.sendCookie
    <3> DEFINE g == t.wseq[0]
    <3>1. g \in 0 .. t.wseq[0] /\ h <= g
      BY <2>4
    <3>2. \A n \in U : n.type # "CHC"
      BY <1>2, <2>6 DEF Stages, Has
    <3>3. \A n \in U2 : IF n.type = "CHC" THEN g <= n.rseq ELSE n.rseq < g
      BY <1>1, <2>2, <2>4, <2>6, <2>n, <3>1, <3>2 DEF MyHello
    <3>4. Under(t.bitmap, g)
      BY <2>3, <2>6 DEF Under
    <3>5. /\ \A n \in D : n.rseq < g
          /\ s.st = "SW_HELLO_VERIFY" => s.wseq[0] < g
      BY <2>2, <2>4, <2>n, <3>1
    <3> HIDE DEF g
    <3>6. Opening(mode, t, s, U2, D)
      BY <2>3, <3>1, <3>3, <3>4, <3>5 DEF Opening
    <3> QED
      BY <1>4, <1>5, <1>6, <1>7, <1>8, <1>10, <3>6 DEF Steady, U2, D
  <2> QED
    BY <2>5, <2>6
<1> QED
  BY <1>9, <1>10

(* There is hope for what has just been sent.                              *)
LEMMA ClientHopes ==
  ASSUME mode \in ModeSpace, Plain(mode), NEW c, NEW s, NEW t, Paired(c, s), Paired(t, s),
         NEW up, NEW down, Carried(c, s, up, down), Link(c, s, up),
         NEW out \in Seq(Records), Numbered(c.wseq, t.wseq, out),
         \A i \in DOMAIN out : Arrives(mode, "client", t, out[i]),
         t.st = "CR_SRVR_HELLO" => Sends(out, <<MyHello(t)>>),
         t.writeEpoch = 1 => Sends(out, <<"CKE", "CCS", "FIN">>)
  PROVE  /\ t.st = "CR_SRVR_HELLO" =>
              LET h == HelloHope(t, s, ToSet(up \o out), ToSet(down))
              IN h >= 1 /\ (Answering(t, s) => h = 2)
         /\ t.writeEpoch = 1 /\ InInit(s) =>
              /\ FinHope(s, up \o out) >= 1
              /\ s.st = "SW_CHANGE" => FinHope(s, up \o out) = 2
         /\ t.writeEpoch = 1 /\ ~InInit(s) => LastHope(t, s, up \o out, down) >= 1
<1>0. /\ c \in SSL /\ s \in SSL /\ t \in SSL /\ up \in Seq(Records) /\ down \in Seq(Records)
      /\ s.readEpoch \in 0 .. 1
  BY LinkIs DEF Paired, Carried
<1>1. ToSet(up \o out) = ToSet(up) \cup ToSet(out)
  BY <1>0, InJoined
<1>2. ASSUME t.st = "CR_SRVR_HELLO"
      PROVE  LET h == HelloHope(t, s, ToSet(up \o out), ToSet(down))
             IN h >= 1 /\ (Answering(t, s) => h = 2)
  <2>1. 1 \in DOMAIN out /\ out[1].type = MyHello(t)
    <3>1. Sends(out, <<MyHello(t)>>)
      BY <1>2
    <3>2. Len(out) = 1 /\ out[1].type = MyHello(t)
      BY <3>1 DEF Sends
    <3> QED
      BY <3>2, InQueue
  <2>2. Has(ToSet(up \o out), MyHello(t)) /\ ToSet(up \o out) # {}
    BY <1>1, <2>1, InQueue DEF Has
  <2> QED
    BY <2>2 DEF HelloHope
<1>3. ASSUME t.writeEpoch = 1
      PROVE  /\ \A i \in DOMAIN out : out[i] \in Records /\ out[i].epoch = IF i = 3 THEN 1 ELSE 0
             /\ Sends(out, <<"CKE", "CCS", "FIN">>) /\ DOMAIN out = 1 .. 3
  <2>1. Sends(out, <<"CKE", "CCS", "FIN">>)
    BY <1>3
  <2>2. Len(out) = 3 /\ out[1].type = "CKE" /\ out[2].type = "CCS" /\ out[3].type = "FIN"
    BY <2>1 DEF Sends
  <2>3. DOMAIN out = 1 .. 3 /\ \A i \in DOMAIN out : out[i] \in Records
    BY <2>2, InQueue
  <2>4. out[1].epoch = 0 /\ out[2].epoch = 0 /\ out[3].epoch = 1
    BY <2>2, <2>3, UpIs
  <2> QED
    BY <2>1, <2>3, <2>4
<1>4. ASSUME t.writeEpoch = 1, NEW i \in DOMAIN out, out[i].epoch >= s.readEpoch
      PROVE  New(s, out[i])
  <2>1. c.wseq[out[i].epoch] <= out[i].rseq /\ out[i] \in Records
    BY <1>3, <1>4 DEF Numbered
  <2> QED
    BY <1>0, <1>4, <2>1, NewSent
<1>5. ASSUME t.writeEpoch = 1, NEW d \in Seq(Types), NEW k, Suffix(d, <<"CKE", "CCS", "FIN">>, k),
             k \in Nat, s.readEpoch = 0 \/ k >= 2
      PROVE  Coming(up \o out, s, d)
  <2>1. \A i \in DOMAIN out : i > k => New(s, out[i])
    BY <1>0, <1>3, <1>4, <1>5
  <2>2. <<"CKE", "CCS", "FIN">> \in Seq(Types)
    BY DEF Types
  <2>3. Sends(out, <<"CKE", "CCS", "FIN">>)
    BY <1>3, <1>5
  <2> QED
    BY <1>0, <1>5, <2>1, <2>2, <2>3, ComingFresh
<1>6. ASSUME t.writeEpoch = 1, InInit(s), s.st # "SW_CHANGE"
      PROVE  Coming(up \o out, s, ServerDue(s))
  <2>1. s.st \in {"SR_KEY_EXCH", "SR_CERT_VRFY"}
    BY <1>6 DEF Paired, InInit, Answered, Helloed
  <2>2. CASE s.st = "SR_KEY_EXCH"
    <3>1. ServerDue(s) = <<"CKE", "CCS", "FIN">> /\ s.readEpoch = 0
      BY <1>0, <2>2 DEF ServerDue, Paired
    <3>2. Suffix(ServerDue(s), <<"CKE", "CCS", "FIN">>, 0) /\ ServerDue(s) \in Seq(Types)
      BY <3>1, Tails, DueIs
    <3>3. s.readEpoch = 0 /\ 0 \in Nat
      BY <3>1
    <3> QED
      BY <1>5, <1>6, <3>2, <3>3
  <2>3. CASE s.st = "SR_CERT_VRFY" /\ s.readEpoch = 0
    <3>1. ServerDue(s) = <<"CCS", "FIN">>
      BY <2>3 DEF ServerDue
    <3> QED
      BY <1>5, <1>6, <2>3, <3>1, Tails, DueIs
  <2>4. CASE s.st = "SR_CERT_VRFY" /\ s.readEpoch # 0
    <3>1. ServerDue(s) = <<"FIN">>
      BY <2>4 DEF ServerDue
    <3> QED
      BY <1>5, <1>6, <3>1, Tails, DueIs
  <2> QED
    BY <2>1, <2>2, <2>3, <2>4
<1>7. ASSUME t.writeEpoch = 1, InInit(s)
      PROVE  /\ FinHope(s, up \o out) >= 1
             /\ s.st = "SW_CHANGE" => FinHope(s, up \o out) = 2
  <2>1. ToSet(up \o out) # {}
    BY <1>1, <1>3, <1>7, InQueue
  <2> QED
    BY <1>6, <1>7, <2>1 DEF FinHope
<1>8. ASSUME t.writeEpoch = 1
      PROVE  LastHope(t, s, up \o out, down) >= 1
  <2>1. <<"FIN">> \in Seq(Types)
    BY DEF Types
  <2> DEFINE d == <<"FIN">>
  <2>3. Suffix(d, <<"CKE", "CCS", "FIN">>, 2) /\ d \in Seq(Types)
    BY <2>1, Tails
  <2> HIDE DEF d
  <2>2. Coming(up \o out, s, d)
    BY <1>5, <1>8, <2>3
  <2> QED
    BY <2>2 DEF LastHope, d
<1> QED
  BY <1>2, <1>7, <1>8

(* What it sends is not gone yet.                                          *)
LEMMA ClientSendsPaid ==
  ASSUME NEW c, NEW s, NEW t, Paired(c, s), Paired(t, s), NEW up \in Seq(Records),
         NEW out \in Seq(Records), Numbered(c.wseq, t.wseq, out), c.tries <= t.tries,
         \A i \in DOMAIN out : out[i].type = "FIN" => out[i].epoch = 1,
         c.writeEpoch = 1 => c.wseq[1] = c.tries + 1, Paid(c, s, ToSet(up))
  PROVE  Paid(t, s, ToSet(up \o out))
<1>0. c.tries \in Nat /\ t.tries \in Nat /\ s.tries \in Nat
  BY LinkIs DEF Paired
<1>1. ToSet(up \o out) = ToSet(up) \cup ToSet(out)
  BY InJoined
<1>2. CASE ~ReadFin(s.st)
  BY <1>2 DEF Paid
<1>3. CASE ReadFin(s.st)
  <2>1. c.wseq[1] = c.tries + 1
    BY <1>3 DEF Paired, ReadFin
  <2>2. \A m \in ToSet(out) : m.type = "FIN" => m.rseq \notin 0 .. c.tries
    <3> SUFFICES ASSUME NEW m \in ToSet(out), m.type = "FIN"
                 PROVE  m.rseq \notin 0 .. c.tries
      OBVIOUS
    <3>1. PICK i \in DOMAIN out : m = out[i]
      BY InQueue
    <3>2. c.wseq[1] <= m.rseq /\ m \in Records
      BY <3>1, InQueue DEF Numbered
    <3> QED
      BY <1>0, <2>1, <3>2 DEF Records
  <2>3. \A m \in ToSet(up \o out) : m.type = "FIN" /\ Unseen(s.bitmap, m.rseq) =>
          (m \in ToSet(up) /\ Unseen(s.bitmap, m.rseq)) \/ m.rseq \notin 0 .. c.tries
    BY <1>1, <2>2
  <2>4. /\ Cardinality(Gone(c, s, ToSet(up))) <= Cardinality(Gone(t, s, ToSet(up \o out)))
        /\ Cardinality(Gone(c, s, ToSet(up))) \in Nat
        /\ Cardinality(Gone(t, s, ToSet(up \o out))) \in Nat
    BY <1>0, <2>3, GoneGrows
  <2>5. s.tries < Cardinality(Gone(c, s, ToSet(up)))
    BY <1>3 DEF Paid
  <2> QED
    BY <1>0, <2>4, <2>5 DEF Paid
<1> QED
  BY <1>2, <1>3

(* Nothing comes from an empty queue.                                      *)
LEMMA NothingComes ==
  ASSUME NEW s, NEW d, 1 \in DOMAIN d
  PROVE  ~Coming(<<>>, s, d)
BY DEF Coming

(* The flights of the client.                                              *)
ClientFlight3(t, ms) ==
  /\ t.writeEpoch = 0 => t.st \in {"CR_SRVR_HELLO", "CR_CERT"} /\ Sends(ms, <<MyHello(t)>>)
  /\ t.writeEpoch = 1 => Sends(ms, <<"CKE", "CCS", "FIN">>)

(* What it has sent, it has numbered.                                      *)
LEMMA ClientNumbers ==
  ASSUME mode \in ModeSpace, Plain(mode), NEW c, NEW s, NEW t, Paired(t, s),
         NEW out \in Seq(Records), Numbered(c.wseq, t.wseq, out),
         \A i \in DOMAIN out : Arrives(mode, "client", t, out[i]), ClientFlight3(t, out)
  PROVE  /\ t.wseq[1] = c.wseq[1] + (IF t.writeEpoch = 1 THEN 1 ELSE 0)
         /\ \A i \in DOMAIN out : /\ out[i].type \in {"CH", "CHC", "CKE", "CCS", "FIN"}
                                  /\ out[i].type = "CHC" => t.sendCookie
                                  /\ out[i].type = "CKE" => t.writeEpoch = 1
                                  /\ out[i].type = "FIN" => out[i].epoch = 1
                                  /\ t.writeEpoch = 0 => out[i].type = MyHello(t)
                                                         /\ out[i].epoch = 0
<1>0. t.writeEpoch \in 0 .. 1 /\ c.wseq[1] \in Nat
  BY LinkIs DEF Paired, Numbered
<1>1. CASE t.writeEpoch = 0
  <2>1. Len(out) = 1 /\ out[1].type = MyHello(t)
    <3>1. Sends(out, <<MyHello(t)>>)
      BY <1>1 DEF ClientFlight3
    <3> QED
      BY <3>1 DEF Sends
  <2>2. DOMAIN out = {1} /\ out[1] \in Records
    BY <2>1, InQueue
  <2>3. out[1].epoch = 0
    BY <2>1, <2>2, UpIs DEF MyHello
  <2>4. t.wseq[1] = c.wseq[1]
    BY <2>2, <2>3 DEF Numbered
  <2> QED
    BY <1>0, <1>1, <2>1, <2>2, <2>3, <2>4 DEF MyHello
<1>2. CASE t.writeEpoch = 1
  <2>1. Len(out) = 3 /\ out[1].type = "CKE" /\ out[2].type = "CCS" /\ out[3].type = "FIN"
    <3>1. Sends(out, <<"CKE", "CCS", "FIN">>)
      BY <1>2 DEF ClientFlight3
    <3> QED
      BY <3>1 DEF Sends
  <2>2. DOMAIN out = 1 .. 3 /\ \A i \in DOMAIN out : out[i] \in Records
    BY <2>1, InQueue
  <2>3. out[1].epoch = 0 /\ out[2].epoch = 0 /\ out[3].epoch = 1
    BY <2>1, <2>2, UpIs
  <2>4. \A i \in DOMAIN out : out[i].epoch = out[3].epoch => i = 3
    BY <2>2, <2>3
  <2>5. t.wseq[1] = c.wseq[1] + 1
    BY <2>2, <2>3, <2>4 DEF Numbered
  <2>6. \A i \in DOMAIN out : i = 1 \/ i = 2 \/ i = 3
    BY <2>2
  <2> QED
    BY <1>2, <2>1, <2>3, <2>5, <2>6
<1> QED
  BY <1>0, <1>1, <1>2

\* t is c after writing out.
ClientWrote(c, s, t, out) ==
  /\ out \in Seq(Records) /\ Numbered(c.wseq, t.wseq, out)
  /\ \A i \in DOMAIN out : Arrives(mode, "client", t, out[i])
  /\ ClientFlight3(t, out) /\ ClientFlight3(t, t.sent)
  /\ t.failed = "no" /\ t.sendCookie = c.sendCookie /\ Sees(c, t)

(* The client writes within what its timeouts are accounted for.           *)
LEMMA ClientWrites ==
  ASSUME mode \in ModeSpace, Plain(mode), NEW c, NEW s, NEW t, Paired(c, s), Paired(t, s),
         NEW up, NEW down, Carried(c, s, up, down), NEW f, Tolerates(mode, c, s, up, down, f),
         NEW f2 \in Nat, NEW out, ClientWrote(c, s, t, out),
         c.tries <= t.tries, t.wseq[1] = IF t.writeEpoch = 1 THEN t.tries + 1 ELSE 0,
         c.writeEpoch = 1 => t.writeEpoch = 1,
         Within(t, s, f2),
         t.st = "CR_SRVR_HELLO" /\ ~Helloed(s.st) /\ ~Answering(t, s) => t.tries <= 2 * f2,
         t.writeEpoch = 0 /\ Helloed(s.st) => s.tries + 1 <= 2 * f2 + KeyHope(t, down),
         t.writeEpoch = 1 /\ s.st # "SW_CHANGE" => t.tries <= 2 * f2
  PROVE  Tolerates(mode, t, s, up \o out, down, f2)
<1>0. /\ c \in SSL /\ s \in SSL /\ t \in SSL /\ up \in Seq(Records) /\ down \in Seq(Records)
      /\ c.tries \in Nat /\ t.tries \in Nat /\ s.tries \in Nat /\ t.writeEpoch \in 0 .. 1
  BY LinkIs DEF Paired, Carried
<1>1. /\ out \in Seq(Records) /\ Numbered(c.wseq, t.wseq, out)
      /\ \A i \in DOMAIN out : Arrives(mode, "client", t, out[i])
      /\ ClientFlight3(t, out) /\ ClientFlight3(t, t.sent)
      /\ t.failed = "no" /\ t.sendCookie = c.sendCookie /\ Sees(c, t)
  BY DEF ClientWrote
<1>2. \A i \in DOMAIN out : /\ out[i].type \in {"CH", "CHC", "CKE", "CCS", "FIN"}
                            /\ out[i].type = "CHC" => t.sendCookie
                            /\ out[i].type = "CKE" => t.writeEpoch = 1
                            /\ out[i].type = "FIN" => out[i].epoch = 1
                            /\ t.writeEpoch = 0 => out[i].type = MyHello(t) /\ out[i].epoch = 0
  BY <1>1, ClientNumbers
<1>3. Steady(mode, c, s, up, down) /\ Budget(c, s, up, down, f) /\ Link(c, s, up)
      /\ Paid(c, s, ToSet(up))
  BY DEF Tolerates, Steady, Budget
<1>4. /\ t.writeEpoch = 0 => t.st \in {"CR_SRVR_HELLO", "CR_CERT"}
      /\ t.writeEpoch = 0 => Sends(t.sent, <<MyHello(t)>>) /\ Sends(out, <<MyHello(t)>>)
      /\ t.writeEpoch = 1 => /\ Sends(t.sent, <<"CKE", "CCS", "FIN">>)
                             /\ Sends(out, <<"CKE", "CCS", "FIN">>)
  BY <1>1 DEF ClientFlight3
<1>5. /\ t.st \notin {"CW_CLNT_HELLO", "CR_CERT_REQ", "CW_CERT"}
      /\ t.st \in {"CR_SRVR_HELLO", "CR_CERT"} => t.writeEpoch = 0
      /\ ~Settled(s) => t.writeEpoch = 0
  BY <1>0, <1>4 DEF Paired, Settled, Answered, Helloed
<1>6. Steady(mode, t, s, up \o out, down)
  <2>1. \A i \in DOMAIN out : /\ out[i].type \in {"CH", "CHC", "CKE", "CCS", "FIN"}
                              /\ out[i].type = "CHC" => t.sendCookie
                              /\ out[i].type = "CKE" => t.writeEpoch = 1
                              /\ ~Settled(s) => out[i].type = MyHello(t) /\ out[i].epoch = 0
    BY <1>2, <1>5
  <2>2. t.st \in {"CR_SRVR_HELLO", "CR_CERT"} => Sends(t.sent, <<MyHello(t)>>)
    BY <1>4, <1>5
  <2> QED
    BY <1>1, <1>3, <1>4, <1>5, <2>1, <2>2, ClientSends
<1>7. Paid(t, s, ToSet(up \o out))
  <2>1. c.writeEpoch = 1 => c.wseq[1] = c.tries + 1
    BY <1>3 DEF Steady, Stages
  <2> QED
    BY <1>0, <1>1, <1>2, <1>3, <2>1, ClientSendsPaid
<1>8. /\ t.st = "CR_SRVR_HELLO" =>
           LET h == HelloHope(t, s, ToSet(up \o out), ToSet(down))
           IN h >= 1 /\ (Answering(t, s) => h = 2)
      /\ t.writeEpoch = 1 /\ InInit(s) =>
           /\ FinHope(s, up \o out) >= 1
           /\ s.st = "SW_CHANGE" => FinHope(s, up \o out) = 2
      /\ t.writeEpoch = 1 /\ ~InInit(s) => LastHope(t, s, up \o out, down) >= 1
  <2>1. t.st = "CR_SRVR_HELLO" => Sends(out, <<MyHello(t)>>)
    BY <1>4, <1>5
  <2> QED
    BY <1>1, <1>3, <1>4, <2>1, ClientHopes
<1>9. Hoped(t, s, up \o out, down, f2)
  <2>1. /\ HelloHope(t, s, ToSet(up \o out), ToSet(down)) \in 0 .. 2
        /\ FinHope(s, up \o out) \in 0 .. 2 /\ LastHope(t, s, up \o out, down) \in 0 .. 2
    BY Hopes
  <2>2. t.tries <= 2 * f2 + 1
    BY DEF Within
  <2>3. t.st = "CR_SRVR_HELLO" /\ ~Helloed(s.st) =>
          t.tries + 1 <= 2 * f2 + HelloHope(t, s, ToSet(up \o out), ToSet(down))
    BY <1>0, <1>8, <2>1, <2>2
  <2>4. t.writeEpoch = 1 /\ InInit(s) => t.tries + 1 <= 2 * f2 + FinHope(s, up \o out)
    BY <1>0, <1>8, <2>1, <2>2
  <2>5. t.writeEpoch = 1 /\ ~InInit(s) =>
          t.tries + 1 <= 2 * f2 + LastHope(t, s, up \o out, down)
    BY <1>0, <1>8, <2>1, <2>2 DEF InInit
  <2> QED
    BY <2>3, <2>4, <2>5 DEF Hoped
<1> QED
  BY <1>6, <1>7, <1>9 DEF Tolerates, Budget

(* A flight of the client.                                                 *)
LEMMA ClientFlies ==
  ASSUME mode \in ModeSpace, Plain(mode), NEW c, NEW s, NEW t, Paired(c, s), Paired(t, s),
         NEW up, NEW down, Carried(c, s, up, down), NEW f \in Nat,
         Tolerates(mode, c, s, up, down, f), NEW out, ClientWrote(c, s, t, out),
         c.st \in {"CW_CLNT_HELLO", "CW_CERT"}, t.tries = c.tries,
         t.writeEpoch = IF c.st = "CW_CERT" THEN 1 ELSE 0
  PROVE  Tolerates(mode, t, s, up \o out, down, f)
<1>0. c \in SSL /\ s \in SSL /\ s.tries \in Nat /\ c.writeEpoch \in 0 .. 1
  BY LinkIs DEF Paired
<1>1. /\ Clocks(c, s) /\ Stages(mode, c, s, ToSet(up), ToSet(down)) /\ Within(c, s, f)
  BY DEF Tolerates, Steady, Budget
<1>2. c.tries = 0 /\ t.tries = 0 /\ c.writeEpoch = 0
  BY <1>0, <1>1 DEF Clocks, Idle, Paired
<1>3. t.wseq[1] = IF t.writeEpoch = 1 THEN t.tries + 1 ELSE 0
  <2>1. t.wseq[1] = c.wseq[1] + (IF t.writeEpoch = 1 THEN 1 ELSE 0)
    BY ClientNumbers DEF ClientWrote
  <2>2. c.wseq[1] = 0
    BY <1>1, <1>2 DEF Stages
  <2> QED
    BY <1>2, <2>1, <2>2
<1>4. Within(t, s, f) /\ t.tries <= 2 * f /\ c.tries <= t.tries
  BY <1>1, <1>2 DEF Within
<1>5. ~(t.writeEpoch = 0 /\ Helloed(s.st))
  BY <1>1 DEF Stages, Settled, Helloed
<1> QED
  BY <1>2, <1>3, <1>4, <1>5, ClientWrites

(* A timeout that is not a fault: nothing is on its way, and the timer of  *)
(* the other, if it runs, is not shorter.                                  *)
TimedOut(x, y, up, down, f, f2) ==
  \/ f2 = f + 1
  \/ f2 = f /\ up = <<>> /\ down = <<>> /\ ~(y.timer /\ y.tries < x.tries)

(* A timeout of the client.                                                *)
LEMMA ClientFits ==
  ASSUME NEW c, NEW s, Paired(c, s), NEW up, NEW down, NEW f \in Nat,
         Tolerates(mode, c, s, up, down, f), NEW f2, TimedOut(c, s, up, down, f, f2),
         ~Writing(c)
  PROVE  /\ c.tries + 1 <= 2 * f2 + 1 /\ f2 \in Nat
         /\ c.st = "CR_SRVR_HELLO" /\ ~Helloed(s.st) /\ ~Answering(c, s) => c.tries + 1 <= 2 * f2
         /\ c.writeEpoch = 0 /\ Helloed(s.st) => s.tries + 1 <= 2 * f2 + KeyHope(c, down)
         /\ c.writeEpoch = 1 /\ s.st # "SW_CHANGE" => c.tries + 1 <= 2 * f2
         /\ InInit(s) => s.tries <= 2 * f2 + 1
<1>0. /\ c \in SSL /\ s \in SSL /\ c.tries \in Nat /\ s.tries \in Nat /\ c.writeEpoch \in 0 .. 1
      /\ f2 \in Nat /\ f <= f2
  BY LinkIs DEF Paired, TimedOut
<1>1. Within(c, s, f) /\ Hoped(c, s, up, down, f)
      /\ Stages(mode, c, s, ToSet(up), ToSet(down))
  BY DEF Tolerates, Budget, Steady
<1>2. KeyHope(c, down) \in 0 .. 2
  BY Hopes
<1>k. c.writeEpoch = 0 /\ Helloed(s.st) => s.tries + 1 <= 2 * f + KeyHope(c, down)
  BY <1>1 DEF Hoped
<1>w. c.tries <= 2 * f + 1 /\ (InInit(s) => s.tries <= 2 * f + 1)
  BY <1>1 DEF Within
<1>3. CASE f2 = f + 1
  BY <1>0, <1>2, <1>3, <1>k, <1>w
<1>4. CASE f2 = f /\ up = <<>> /\ down = <<>> /\ ~(s.timer /\ s.tries < c.tries)
  <2>1. ToSet(up) = {} /\ ToSet(down) = {}
    BY <1>4, InQueue, EmptySeq
  <2>2. c.st = "CR_SRVR_HELLO" /\ ~Helloed(s.st) =>
          c.tries + 1 <= 2 * f + (IF Answering(c, s) THEN 1 ELSE 0)
    <3>1. HelloHope(c, s, {}, {}) = IF Answering(c, s) THEN 1 ELSE 0
      BY DEF HelloHope, Has
    <3> QED
      BY <1>1, <2>1, <3>1 DEF Hoped
  <2>3. c.writeEpoch = 0 /\ Helloed(s.st) => c.tries <= s.tries /\ s.tries + 1 <= 2 * f
    <3>1. ASSUME c.writeEpoch = 0, Helloed(s.st)
          PROVE  s.st = "SR_KEY_EXCH" /\ s.timer
      BY <1>1, <3>1 DEF Paired, Helloed, Stages
    <3>2. KeyHope(c, down) = 0
      BY <1>4, DueIs, NothingComes DEF KeyHope, Writing
    <3> QED
      BY <1>0, <1>4, <1>k, <3>1, <3>2
  <2>4. c.writeEpoch = 1 /\ InInit(s) =>
          c.tries + 1 <= 2 * f + (IF s.st = "SW_CHANGE" THEN 1 ELSE 0)
    <3>1. FinHope(s, up) = IF s.st = "SW_CHANGE" THEN 1 ELSE 0
      BY <1>4, <2>1, DueIs, NothingComes DEF FinHope
    <3> QED
      BY <1>1, <3>1 DEF Hoped
  <2>5. c.writeEpoch = 1 /\ ~InInit(s) => c.tries + 1 <= 2 * f
    <3>1. LastHope(c, s, up, down) = 0
      <4>1. 1 \in DOMAIN <<"FIN">>
        OBVIOUS
      <4> QED
        BY <1>4, <4>1, DueIs, NothingComes DEF LastHope
    <3>2. c.writeEpoch = 1 /\ ~InInit(s) => c.tries + 1 <= 2 * f + LastHope(c, s, up, down)
      BY <1>1 DEF Hoped
    <3> QED
      BY <1>0, <3>1, <3>2
  <2>6. c.st \in {"CR_SRVR_HELLO", "CR_CERT", "CR_CERT_REQ", "CR_SESSION_TICKET", "CR_FINISHED"}
        /\ (c.st # "CR_SRVR_HELLO" => Helloed(s.st))
    BY DEF Paired, Writing, Answered
  <2>7. c.tries + 1 <= 2 * f + 1
    <3>1. CASE c.st = "CR_SRVR_HELLO" /\ ~Helloed(s.st)
      BY <1>0, <2>2, <3>1
    <3>2. CASE c.writeEpoch = 0 /\ Helloed(s.st)
      BY <1>0, <2>3, <3>2
    <3>3. CASE c.writeEpoch = 1
      BY <1>0, <2>4, <2>5, <3>3
    <3> QED
      BY <1>0, <2>6, <3>1, <3>2, <3>3
  <2>8. c.writeEpoch = 1 /\ s.st # "SW_CHANGE" => c.tries + 1 <= 2 * f
    BY <1>0, <2>4, <2>5
  <2> QED
    BY <1>0, <1>4, <1>k, <1>w, <2>2, <2>7, <2>8
<1> QED
  BY <1>3, <1>4 DEF TimedOut

(* A timeout of the client is accounted for.                               *)
LEMMA ClientRetries ==
  ASSUME mode \in ModeSpace, Plain(mode), NEW c, NEW s, NEW t, Paired(c, s), Paired(t, s),
         NEW up, NEW down, Carried(c, s, up, down), NEW f \in Nat,
         Tolerates(mode, c, s, up, down, f), NEW out, ClientWrote(c, s, t, out),
         NEW f2, TimedOut(c, s, up, down, f, f2), ~Writing(c), t.st = c.st,
         t.tries = c.tries + 1, t.readEpoch = c.readEpoch, t.writeEpoch = c.writeEpoch
  PROVE  Tolerates(mode, t, s, up \o out, down, f2)
<1>0. /\ c \in SSL /\ s \in SSL /\ t \in SSL /\ c.tries \in Nat /\ c.writeEpoch \in 0 .. 1
  BY LinkIs DEF Paired
<1>1. /\ c.tries + 1 <= 2 * f2 + 1 /\ f2 \in Nat
      /\ c.st = "CR_SRVR_HELLO" /\ ~Helloed(s.st) /\ ~Answering(c, s) => c.tries + 1 <= 2 * f2
      /\ c.writeEpoch = 0 /\ Helloed(s.st) => s.tries + 1 <= 2 * f2 + KeyHope(c, down)
      /\ c.writeEpoch = 1 /\ s.st # "SW_CHANGE" => c.tries + 1 <= 2 * f2
      /\ InInit(s) => s.tries <= 2 * f2 + 1
  BY ClientFits
<1>2. t.wseq[1] = IF t.writeEpoch = 1 THEN t.tries + 1 ELSE 0
  <2>1. t.wseq[1] = c.wseq[1] + (IF t.writeEpoch = 1 THEN 1 ELSE 0)
    BY ClientNumbers DEF ClientWrote
  <2>2. c.wseq[1] = IF c.writeEpoch = 1 THEN c.tries + 1 ELSE 0
    BY DEF Stages, Tolerates, Steady
  <2> QED
    BY <1>0, <2>1, <2>2
<1>3. Within(t, s, f2) /\ c.tries <= t.tries
  BY <1>0, <1>1 DEF Within
<1>4. Answering(t, s) = Answering(c, s) /\ KeyHope(t, down) = KeyHope(c, down)
  <2>1. ClientDue(t) = ClientDue(c) /\ t.sendCookie = c.sendCookie
    BY DEF ClientDue, ClientWrote
  <2>2. \A d : Coming(down, t, d) = Coming(down, c, d)
    BY DEF Coming, New, MapOf, ClientWrote, Sees
  <2> QED
    BY <2>1, <2>2 DEF Answering, KeyHope
<1> QED
  BY <1>1, <1>2, <1>3, <1>4, ClientWrites

------------------------------------------------------------------------------
(* The server writes.                                                      *)

(* The flights of the server.                                              *)
ServerFlights(t, ms) ==
  /\ t.st \in {"SR_KEY_EXCH", "SR_CERT_VRFY"} => Sends(ms, <<"SH", "CERT", "SHD">>)
  /\ t.st = "OK" => Sends(ms, LastTypes(mode))

(* The server sends: what does not depend on the faults.                   *)
LEMMA ServerSends ==
  ASSUME mode \in ModeSpace, Plain(mode), NEW c, NEW s, NEW t, Paired(c, s), Paired(c, t),
         NEW up, NEW down, Carried(c, s, up, down), Steady(mode, c, s, up, down),
         NEW out \in Seq(Records), Numbered(s.wseq, t.wseq, out), Settled(s),
         t.failed = "no", t.buffered = {}, t.appQueue = {}, Sees(s, t),
         \A i \in DOMAIN out : out[i].type # "ALERT",
         t.st \in {"SR_KEY_EXCH", "SR_CERT_VRFY", "OK"}, t.st = "OK" => ~t.timer,
         t.st = "SR_CERT_VRFY" => s.st = t.st, ServerFlights(t, t.sent)
  PROVE  Steady(mode, c, t, up, down \o out)
<1> DEFINE U == ToSet(up)
           D == ToSet(down)
           D2 == ToSet(down \o out)
<1>0. /\ c \in SSL /\ s \in SSL /\ t \in SSL /\ up \in Seq(Records) /\ down \in Seq(Records)
  BY DEF Paired, Carried
<1>1. D2 = D \cup ToSet(out)
  BY <1>0, InJoined
<1>2. \A m \in ToSet(out) : m.type # "ALERT"
  BY InQueue
<1>3. /\ Quiet(c, s, U, D) /\ Clocks(c, s) /\ Flights(mode, c, s) /\ Stages(mode, c, s, U, D)
      /\ Link(c, s, up) /\ Link(s, c, down)
  BY DEF Steady
<1> HIDE DEF U, D, D2
<1>4. Quiet(c, t, U, D2)
  BY <1>1, <1>2, <1>3 DEF Quiet, Sees
<1>5. Clocks(c, t)
  BY <1>3 DEF Clocks
<1>6. Flights(mode, c, t)
  BY <1>3 DEF Flights, ServerFlights
<1>7. Settled(t) /\ Helloed(t.st)
  BY DEF Settled, Helloed
<1>8. Stages(mode, c, t, U, D2)
  BY <1>3, <1>7 DEF Stages
<1>9. Link(c, t, up)
  BY <1>3 DEF Link, Sees, MapOf
<1>10. Link(t, c, down \o out)
  BY <1>0, <1>3, LinkSend
<1> QED
  BY <1>4, <1>5, <1>6, <1>7, <1>8, <1>9, <1>10 DEF Steady, U, D2

(* What the client waits for has just been sent.                           *)
LEMMA ServerHopes ==
  ASSUME mode \in ModeSpace, Plain(mode), NEW c, NEW s, NEW t, Paired(c, s), Paired(c, t),
         NEW down \in Seq(Records), Link(s, c, down),
         NEW out \in Seq(Records), Numbered(s.wseq, t.wseq, out),
         \A i \in DOMAIN out : Arrives(mode, "server", t, out[i]), ServerFlights(t, out),
         t.st \in {"SR_KEY_EXCH", "SR_CERT_VRFY", "OK"}, c.st \notin {"CW_CLNT_HELLO", "CW_CERT"},
         c.writeEpoch = 1 <=> t.st = "OK"
  PROVE  Coming(down \o out, c, ClientDue(c))
<1>0. c \in SSL /\ s \in SSL /\ t \in SSL /\ c.readEpoch \in 0 .. 1 /\ c.writeEpoch \in 0 .. 1
  BY LinkIs DEF Paired
<1>1. ASSUME NEW i \in DOMAIN out, out[i].epoch >= c.readEpoch
      PROVE  New(c, out[i])
  <2>1. s.wseq[out[i].epoch] <= out[i].rseq /\ out[i] \in Records
    BY InQueue DEF Numbered
  <2> QED
    BY <1>0, <1>1, <2>1, NewSent
<1>2. ASSUME NEW d \in Seq(Types), NEW ts \in Seq(Types), NEW k, Suffix(d, ts, k), Sends(out, ts),
             \A i \in DOMAIN out : i > k => out[i].epoch >= c.readEpoch
      PROVE  Coming(down \o out, c, d)
  <2>1. \A i \in DOMAIN out : i > k => New(c, out[i])
    BY <1>1, <1>2
  <2> QED
    BY <1>2, <2>1, ComingFresh
<1>3. \A i \in DOMAIN out : out[i].epoch \in 0 .. 1 /\ (out[i].type = "FIN" => out[i].epoch = 1)
  <2>1. \A i \in DOMAIN out : Arrives(mode, "server", t, out[i]) /\ out[i] \in Records
    BY InQueue
  <2>2. \A m \in Records : Arrives(mode, "server", t, m) /\ m.type = "FIN" => m.epoch = 1
    <3> SUFFICES ASSUME NEW m \in Records, Arrives(mode, "server", t, m), m.type = "FIN"
                 PROVE  m.epoch = 1
      OBVIOUS
    <3> QED
      BY UpIs, DownIs
  <2> QED
    BY <2>1, <2>2 DEF Records
<1>4. CASE t.st # "OK"
  <2>1. c.st \in {"CR_SRVR_HELLO", "CR_CERT", "CR_CERT_REQ"} /\ c.readEpoch = 0
    BY <1>0, <1>4 DEF Paired
  <2>2. Sends(out, <<"SH", "CERT", "SHD">>)
    BY <1>4 DEF ServerFlights
  <2>3. \A i \in DOMAIN out : out[i].epoch >= c.readEpoch
    BY <1>3, <2>1
  <2>4. <<"SH", "CERT", "SHD">> \in Seq(Types)
    BY DEF Types
  <2>5. \E k : Suffix(ClientDue(c), <<"SH", "CERT", "SHD">>, k)
    BY <2>1, Tails DEF ClientDue
  <2> QED
    BY <1>2, <2>2, <2>3, <2>4, <2>5, DueIs
<1>5. CASE t.st = "OK"
  <2>1. c.st \in {"CR_SESSION_TICKET", "CR_FINISHED"} /\ (c.st = "CR_SESSION_TICKET" => mode.ticket)
        /\ (c.readEpoch = 1 => c.st = "CR_FINISHED")
    BY <1>5 DEF Paired
  <2>2. Sends(out, LastTypes(mode)) /\ mode.ticket \in BOOLEAN
    BY <1>5 DEF ServerFlights, ModeSpace
  <2>3. CASE c.readEpoch = 0
    <3>1. \A i \in DOMAIN out : out[i].epoch >= c.readEpoch
      BY <1>3, <2>3
    <3>2. LastTypes(mode) \in Seq(Types)
      <4>1. <<"NST", "CCS", "FIN">> \in Seq(Types) /\ <<"CCS", "FIN">> \in Seq(Types)
        BY DEF Types
      <4> QED
        BY <4>1 DEF LastTypes
    <3>3. \E k : Suffix(ClientDue(c), LastTypes(mode), k)
      <4>1. CASE c.st = "CR_SESSION_TICKET"
        BY <2>1, <4>1, Tails DEF ClientDue, LastTypes
      <4>2. CASE c.st = "CR_FINISHED"
        <5>1. ClientDue(c) = <<"CCS", "FIN">>
          BY <2>3, <4>2 DEF ClientDue
        <5> QED
          BY <5>1, Tails DEF LastTypes
      <4> QED
        BY <2>1, <4>1, <4>2
    <3> QED
      BY <1>2, <2>2, <3>1, <3>2, <3>3, DueIs
  <2>4. CASE c.readEpoch = 1
    <3>1. ClientDue(c) = <<"FIN">>
      BY <2>1, <2>4 DEF ClientDue
    <3> DEFINE d == ClientDue(c)
               n == Len(LastTypes(mode)) - 1
    <3>2. Suffix(d, LastTypes(mode), n) /\ d \in Seq(Types) /\ LastTypes(mode) \in Seq(Types)
      <4>1. CASE mode.ticket
        BY <3>1, <4>1, Tails, DueIs DEF LastTypes, Types
      <4>2. CASE ~mode.ticket
        BY <3>1, <4>2, Tails, DueIs DEF LastTypes, Types
      <4> QED
        BY <4>1, <4>2
    <3>3. \A i \in DOMAIN out : i > n => out[i].type = "FIN"
      <4>1. CASE mode.ticket
        <5>1. n = 2 /\ Len(out) = 3 /\ out[3].type = "FIN"
          BY <2>2, <4>1 DEF Sends, LastTypes
        <5> QED
          BY <5>1, InQueue
      <4>2. CASE ~mode.ticket
        <5>1. LastTypes(mode) = <<"CCS", "FIN">>
          BY <4>2 DEF LastTypes
        <5>2. n = 1 /\ Len(out) = 2 /\ out[2].type = "FIN"
          BY <2>2, <5>1 DEF Sends
        <5> QED
          <6>1. \A i \in DOMAIN out : i > n => i = 2
            BY <5>2, InQueue
          <6> HIDE DEF n
          <6> QED
            BY <5>2, <6>1
      <4> QED
        BY <4>1, <4>2
    <3>4. \A i \in DOMAIN out : i > n => out[i].epoch >= c.readEpoch
      BY <1>3, <2>4, <3>3
    <3> HIDE DEF d, n
    <3>5. Coming(down \o out, c, d)
      BY <1>2, <2>2, <3>2, <3>4
    <3> QED
      BY <3>5 DEF d
  <2> QED
    BY <1>0, <2>3, <2>4
<1> QED
  BY <1>4, <1>5
\* t is s after writing out.
ServerWrote(c, s, t, out) ==
  /\ out \in Seq(Records) /\ Numbered(s.wseq, t.wseq, out)
  /\ \A i \in DOMAIN out : Arrives(mode, "server", t, out[i])
  /\ ServerFlights(t, out) /\ ServerFlights(t, t.sent)
  /\ t.failed = "no" /\ t.buffered = {} /\ t.appQueue = {} /\ Sees(s, t)
  /\ t.st \in {"SR_KEY_EXCH", "SR_CERT_VRFY", "OK"} /\ (t.st = "OK" => ~t.timer)
  /\ t.st = "SR_CERT_VRFY" => s.st = t.st

(* The server sends a flight that the client waits for.                    *)
LEMMA ServerWrites ==
  ASSUME mode \in ModeSpace, Plain(mode), NEW c, NEW s, NEW t, Paired(c, s), Paired(c, t),
         NEW up, NEW down, Carried(c, s, up, down), Steady(mode, c, s, up, down),
         NEW out, ServerWrote(c, s, t, out), Settled(s), c.writeEpoch = 1 <=> t.st = "OK",
         c.st # "CW_CERT"
  PROVE  /\ Steady(mode, c, t, up, down \o out)
         /\ Coming(down \o out, c, ClientDue(c))
<1>0. /\ c \in SSL /\ s \in SSL /\ t \in SSL /\ up \in Seq(Records) /\ down \in Seq(Records)
  BY DEF Paired, Carried
<1>1. /\ out \in Seq(Records) /\ Numbered(s.wseq, t.wseq, out)
      /\ \A i \in DOMAIN out : Arrives(mode, "server", t, out[i])
      /\ ServerFlights(t, out) /\ ServerFlights(t, t.sent)
      /\ t.failed = "no" /\ t.buffered = {} /\ t.appQueue = {} /\ Sees(s, t)
      /\ t.st \in {"SR_KEY_EXCH", "SR_CERT_VRFY", "OK"} /\ (t.st = "OK" => ~t.timer)
      /\ t.st = "SR_CERT_VRFY" => s.st = t.st
  BY DEF ServerWrote
<1>2. \A i \in DOMAIN out : out[i].type # "ALERT"
  <2>1. CASE t.st # "OK"
    <3>1. Sends(out, <<"SH", "CERT", "SHD">>)
      BY <1>1, <2>1 DEF ServerFlights
    <3>2. Len(out) = 3 /\ out[1].type = "SH" /\ out[2].type = "CERT" /\ out[3].type = "SHD"
      BY <3>1 DEF Sends
    <3> QED
      BY <1>1, <3>2, InQueue
  <2>2. CASE t.st = "OK" /\ mode.ticket
    <3>1. Sends(out, <<"NST", "CCS", "FIN">>)
      BY <1>1, <2>2 DEF ServerFlights, LastTypes
    <3>2. Len(out) = 3 /\ out[1].type = "NST" /\ out[2].type = "CCS" /\ out[3].type = "FIN"
      BY <3>1 DEF Sends
    <3> QED
      BY <1>1, <3>2, InQueue
  <2>3. CASE t.st = "OK" /\ ~mode.ticket
    <3>1. Sends(out, <<"CCS", "FIN">>)
      BY <1>1, <2>3 DEF ServerFlights, LastTypes
    <3>2. Len(out) = 2 /\ out[1].type = "CCS" /\ out[2].type = "FIN"
      BY <3>1 DEF Sends
    <3> QED
      BY <1>1, <3>2, InQueue
  <2> QED
    BY <2>1, <2>2, <2>3
<1>3. Steady(mode, c, t, up, down \o out)
  BY <1>1, <1>2, ServerSends
<1>4. Link(s, c, down) /\ c.st # "CW_CLNT_HELLO"
  BY DEF Steady, Stages
<1>5. Coming(down \o out, c, ClientDue(c))
  BY <1>0, <1>1, <1>4, ServerHopes
<1> QED
  BY <1>3, <1>5

(* The first flight of the server.                                         *)
LEMMA ServerFlies ==
  ASSUME mode \in ModeSpace, Plain(mode), NEW c, NEW s, NEW t, Paired(c, s), Paired(c, t),
         NEW up, NEW down, Carried(c, s, up, down), NEW f \in Nat,
         Tolerates(mode, c, s, up, down, f), NEW out, ServerWrote(c, s, t, out),
         s.st = "SW_SRVR_HELLO", t.st = "SR_KEY_EXCH", t.tries = s.tries
  PROVE  Tolerates(mode, c, t, up, down \o out, f)
<1>0. /\ c \in SSL /\ c.tries \in Nat /\ s.tries \in Nat /\ c.writeEpoch \in 0 .. 1
  BY LinkIs DEF Paired
<1>1. /\ Steady(mode, c, s, up, down) /\ Clocks(c, s) /\ Within(c, s, f)
      /\ Stages(mode, c, s, ToSet(up), ToSet(down))
  BY DEF Tolerates, Steady, Budget
<1>2. c.st = "CR_SRVR_HELLO" /\ c.writeEpoch = 0 /\ Settled(s) /\ Helloed(t.st) /\ InInit(t)
      /\ ~ReadFin(t.st)
  BY <1>0, <1>1 DEF Stages, Settled, Paired, Answered, Helloed, InInit, ReadFin
<1>3. t.tries = 0
  BY <1>1 DEF Clocks, Idle
<1>4. Steady(mode, c, t, up, down \o out) /\ Coming(down \o out, c, ClientDue(c))
  BY <1>1, <1>2, ServerWrites
<1>5. KeyHope(c, down \o out) = 1
  BY <1>2, <1>4 DEF KeyHope
<1>6. t.tries + 1 <= 2 * f + KeyHope(c, down \o out)
  BY <1>3, <1>5
<1>7. Hoped(c, t, up, down \o out, f)
  BY <1>2, <1>6 DEF Hoped
<1>8. Within(c, t, f)
  BY <1>1, <1>3 DEF Within
<1> QED
  BY <1>2, <1>4, <1>7, <1>8 DEF Tolerates, Budget, Paid

(* Its last flight.                                                        *)
LEMMA ServerEnds ==
  ASSUME mode \in ModeSpace, Plain(mode), NEW c, NEW s, NEW t, Paired(c, s), Paired(c, t),
         NEW up, NEW down, Carried(c, s, up, down), NEW f \in Nat,
         Tolerates(mode, c, s, up, down, f), NEW out, ServerWrote(c, s, t, out),
         s.st = "SW_CHANGE", t.st = "OK", t.tries = s.tries
  PROVE  Tolerates(mode, c, t, up, down \o out, f)
<1>0. /\ c \in SSL /\ c.tries \in Nat /\ s.tries \in Nat /\ c.writeEpoch \in 0 .. 1
      /\ s.readEpoch \in 0 .. 1
  BY LinkIs DEF Paired
<1>1. /\ Steady(mode, c, s, up, down) /\ Within(c, s, f) /\ Paid(c, s, ToSet(up))
  BY DEF Tolerates, Steady, Budget
<1>2. c.writeEpoch = 1 /\ c.st # "CW_CERT" /\ Settled(s) /\ ~InInit(t) /\ ReadFin(s.st)
      /\ c.st # "CR_SRVR_HELLO"
  BY <1>0 DEF Settled, Paired, InInit, ReadFin
<1>3. Steady(mode, c, t, up, down \o out) /\ Coming(down \o out, c, ClientDue(c))
  BY <1>1, <1>2, ServerWrites
<1>4. LastHope(c, t, up, down \o out) = 2
  BY <1>3 DEF LastHope
<1>5. c.tries <= 2 * f + 1
  BY <1>1 DEF Within
<1>6. c.tries + 1 <= 2 * f + LastHope(c, t, up, down \o out)
  BY <1>0, <1>4, <1>5
<1>7. Hoped(c, t, up, down \o out, f)
  BY <1>2, <1>6 DEF Hoped
<1>8. Within(c, t, f)
  BY <1>2, <1>5 DEF Within
<1>9. Paid(c, t, ToSet(up))
  BY <1>1, <1>2 DEF Paid, Gone, ServerWrote, Sees
<1> QED
  BY <1>3, <1>7, <1>8, <1>9 DEF Tolerates, Budget

(* A timeout of the server.                                                *)
LEMMA ServerFits ==
  ASSUME NEW c, NEW s, Paired(c, s), NEW up, NEW down, NEW f \in Nat,
         Tolerates(mode, c, s, up, down, f), NEW f2, TimedOut(s, c, up, down, f, f2),
         s.st \in {"SR_KEY_EXCH", "SR_CERT_VRFY"}
  PROVE  /\ s.tries + 1 <= 2 * f2 + 1 /\ f2 \in Nat
         /\ c.writeEpoch = 0 => s.tries + 2 <= 2 * f2 + (IF c.st = "CW_CERT" THEN 2 ELSE 1)
         /\ c.writeEpoch = 1 => c.tries + 1 <= 2 * f2 + FinHope(s, up)
         /\ c.tries <= 2 * f2 + 1
<1>0. /\ c \in SSL /\ s \in SSL /\ c.tries \in Nat /\ s.tries \in Nat /\ c.writeEpoch \in 0 .. 1
      /\ f2 \in Nat /\ f <= f2
  BY LinkIs DEF Paired, TimedOut
<1>1. Within(c, s, f) /\ Hoped(c, s, up, down, f)
  BY DEF Tolerates, Budget
<1>2. FinHope(s, up) \in 0 .. 2 /\ InInit(s) /\ Helloed(s.st)
  BY Hopes DEF InInit, Helloed
<1>3. c.tries <= 2 * f + 1 /\ s.tries <= 2 * f + 1
  BY <1>1, <1>2 DEF Within
<1>4. /\ c.writeEpoch = 0 => s.tries + 1 <= 2 * f + KeyHope(c, down)
      /\ c.writeEpoch = 1 => c.tries + 1 <= 2 * f + FinHope(s, up)
  BY <1>1, <1>2 DEF Hoped
<1>5. CASE f2 = f + 1
  BY <1>0, <1>2, <1>3, <1>5
<1>6. CASE f2 = f /\ up = <<>> /\ down = <<>> /\ ~(c.timer /\ c.tries < s.tries)
  <2>1. KeyHope(c, down) = IF c.st = "CW_CERT" THEN 1 ELSE 0
    <3>1. ToSet(down) = {}
      BY <1>6, InQueue, EmptySeq
    <3> QED
      BY <1>6, <3>1, DueIs, NothingComes DEF KeyHope
  <2>2. FinHope(s, up) = 0
    BY <1>6, DueIs, NothingComes DEF FinHope
  <2>3. c.writeEpoch = 1 => s.tries <= c.tries
    <3>1. c.writeEpoch = 1 => c.timer
      BY DEF Paired
    <3> QED
      BY <1>0, <1>6, <3>1
  <2>4. c.writeEpoch = 0 => s.tries + 1 <= 2 * f + (IF c.st = "CW_CERT" THEN 1 ELSE 0)
    BY <1>4, <2>1
  <2>5. c.writeEpoch = 1 => c.tries + 1 <= 2 * f /\ s.tries + 1 <= 2 * f
    BY <1>0, <1>4, <2>2, <2>3
  <2> QED
    BY <1>0, <1>3, <1>4, <1>6, <2>4, <2>5
<1> QED
  BY <1>5, <1>6 DEF TimedOut

(* A timeout of the server is accounted for.                               *)
LEMMA ServerRetries ==
  ASSUME mode \in ModeSpace, Plain(mode), NEW c, NEW s, NEW t, Paired(c, s), Paired(c, t),
         NEW up, NEW down, Carried(c, s, up, down), NEW f \in Nat,
         Tolerates(mode, c, s, up, down, f), NEW out, ServerWrote(c, s, t, out),
         NEW f2, TimedOut(s, c, up, down, f, f2), s.st \in {"SR_KEY_EXCH", "SR_CERT_VRFY"},
         t.st = s.st, t.tries = s.tries + 1
  PROVE  Tolerates(mode, c, t, up, down \o out, f2)
<1>0. /\ c \in SSL /\ s \in SSL /\ c.tries \in Nat /\ s.tries \in Nat /\ c.writeEpoch \in 0 .. 1
      /\ down \in Seq(Records)
  BY LinkIs DEF Paired, Carried
<1>1. /\ s.tries + 1 <= 2 * f2 + 1 /\ f2 \in Nat
      /\ c.writeEpoch = 0 => s.tries + 2 <= 2 * f2 + (IF c.st = "CW_CERT" THEN 2 ELSE 1)
      /\ c.writeEpoch = 1 => c.tries + 1 <= 2 * f2 + FinHope(s, up)
      /\ c.tries <= 2 * f2 + 1
  BY ServerFits
<1>2. /\ Steady(mode, c, s, up, down) /\ Settled(s) /\ Helloed(t.st) /\ InInit(t)
      /\ ~ReadFin(t.st)
  BY DEF Tolerates, Settled, Helloed, InInit, ReadFin
<1>3. Within(c, t, f2)
  BY <1>1 DEF Within
<1>4. FinHope(t, up) = FinHope(s, up)
  <2>1. ServerDue(t) = ServerDue(s)
    BY DEF ServerDue, ServerWrote, Sees
  <2>2. \A d : Coming(up, t, d) = Coming(up, s, d)
    BY DEF Coming, New, MapOf, ServerWrote, Sees
  <2> QED
    BY <2>1, <2>2 DEF FinHope
<1>5. Steady(mode, c, t, up, down \o out)
      /\ (c.writeEpoch = 0 => KeyHope(c, down \o out) = IF c.st = "CW_CERT" THEN 2 ELSE 1)
  <2>1. out \in Seq(Records) /\ out # <<>> /\ Numbered(s.wseq, t.wseq, out)
        /\ ServerFlights(t, t.sent) /\ t.failed = "no" /\ t.buffered = {} /\ t.appQueue = {}
        /\ Sees(s, t) /\ (\A i \in DOMAIN out : out[i].type # "ALERT")
        /\ \A i \in DOMAIN out : Arrives(mode, "server", t, out[i])
        /\ ServerFlights(t, out)
    <3>0. out \in Seq(Records) /\ Numbered(s.wseq, t.wseq, out)
          /\ ServerFlights(t, t.sent) /\ ServerFlights(t, out)
          /\ t.failed = "no" /\ t.buffered = {} /\ t.appQueue = {}
          /\ Sees(s, t) /\ \A i \in DOMAIN out : Arrives(mode, "server", t, out[i])
      BY DEF ServerWrote
    <3>1. Sends(out, <<"SH", "CERT", "SHD">>)
      BY <3>0 DEF ServerFlights
    <3>2. Len(out) = 3 /\ out[1].type = "SH" /\ out[2].type = "CERT" /\ out[3].type = "SHD"
      BY <3>1 DEF Sends
    <3>3. \A i \in DOMAIN out : out[i].type # "ALERT"
      BY <3>0, <3>2, InQueue
    <3>4. out # <<>>
      <4>1. 1 \in DOMAIN out
        BY <3>0, <3>2, InQueue
      <4> QED
        BY <3>0, <4>1, InQueue
    <3> QED
      BY <3>0, <3>3, <3>4
  <2>2. t.st \in {"SR_KEY_EXCH", "SR_CERT_VRFY", "OK"} /\ t.st # "OK"
    OBVIOUS
  <2>3. Steady(mode, c, t, up, down \o out)
    BY <1>2, <2>1, <2>2, ServerSends
  <2>4. ASSUME c.writeEpoch = 0, c.st # "CW_CERT"
        PROVE  Coming(down \o out, c, ClientDue(c))
    <3>1. Link(s, c, down) /\ c.st # "CW_CLNT_HELLO"
      BY <1>2 DEF Steady, Stages
    <3> QED
      BY <1>0, <2>1, <2>2, <2>4, <3>1, ServerHopes
  <2>5. ToSet(down \o out) # {}
    BY <1>0, <2>1, InJoined, InQueue
  <2> QED
    BY <2>3, <2>4, <2>5 DEF KeyHope
<1>6. c.writeEpoch = 0 => t.tries + 1 <= 2 * f2 + KeyHope(c, down \o out)
  BY <1>0, <1>1, <1>5
<1>7. Hoped(c, t, up, down \o out, f2)
  <2>1. c.writeEpoch = 1 => c.tries + 1 <= 2 * f2 + FinHope(t, up)
    BY <1>1, <1>4
  <2> QED
    BY <1>2, <1>6, <2>1 DEF Hoped
<1> QED
  BY <1>2, <1>3, <1>5, <1>7 DEF Tolerates, Budget, Paid

(* A completed server tells the client something.                          *)
LEMMA ServerTells ==
  ASSUME mode \in ModeSpace, Plain(mode), NEW c, NEW s, NEW t, Paired(c, s), Paired(c, t),
         NEW up, NEW down, Carried(c, s, up, down), NEW f \in Nat,
         Tolerates(mode, c, s, up, down, f), NEW out \in Seq(Records),
         Numbered(s.wseq, t.wseq, out), \A i \in DOMAIN out : out[i].type # "ALERT",
         s.st = "OK", t.st = "OK", Sees(s, t), t.sent = s.sent, t.timer = s.timer,
         t.tries = s.tries, t.failed = "no", t.buffered = s.buffered, t.appQueue = s.appQueue
  PROVE  Tolerates(mode, c, t, up, down \o out, f)
<1>0. /\ c \in SSL /\ c.tries \in Nat /\ s.tries \in Nat /\ down \in Seq(Records)
      /\ s.readEpoch \in 0 .. 1 /\ c.writeEpoch \in 0 .. 1
  BY LinkIs DEF Paired, Carried
<1>1. /\ Steady(mode, c, s, up, down) /\ Within(c, s, f) /\ Paid(c, s, ToSet(up))
      /\ Hoped(c, s, up, down, f)
      /\ Quiet(c, s, ToSet(up), ToSet(down)) /\ Clocks(c, s) /\ Flights(mode, c, s)
  BY DEF Tolerates, Steady, Budget
<1>2. c.writeEpoch = 1 /\ Settled(s) /\ ~InInit(t) /\ ~InInit(s) /\ c.st # "CR_SRVR_HELLO"
  BY <1>0 DEF Settled, Paired, InInit
<1>3. Steady(mode, c, t, up, down \o out)
  <2>1. ServerFlights(t, t.sent) /\ ~t.timer /\ t.buffered = {} /\ t.appQueue = {}
    BY <1>1 DEF ServerFlights, Flights, Clocks, Quiet
  <2> QED
    BY <1>1, <1>2, <2>1, ServerSends
<1>4. LastHope(c, s, up, down) <= LastHope(c, t, up, down \o out)
  <2>1. \A d : Coming(up, t, d) = Coming(up, s, d)
    BY DEF Coming, New, MapOf, Sees
  <2>2. Coming(down, c, ClientDue(c)) => Coming(down \o out, c, ClientDue(c))
    BY <1>0, ComingMore
  <2> QED
    BY <2>1, <2>2 DEF LastHope
<1>5. LastHope(c, s, up, down) \in 0 .. 2 /\ LastHope(c, t, up, down \o out) \in 0 .. 2
  BY Hopes
<1>6. c.tries + 1 <= 2 * f + LastHope(c, s, up, down)
  BY <1>1, <1>2 DEF Hoped
<1>7. c.tries + 1 <= 2 * f + LastHope(c, t, up, down \o out)
  BY <1>0, <1>4, <1>5, <1>6
<1>8. Hoped(c, t, up, down \o out, f)
  BY <1>2, <1>7 DEF Hoped
<1>9. Within(c, t, f)
  BY <1>1, <1>2 DEF Within
<1>10. Paid(c, t, ToSet(up))
  BY <1>1 DEF Paid, Gone, Sees
<1> QED
  BY <1>3, <1>8, <1>9, <1>10 DEF Tolerates, Budget

(* A completed server answers a Finished that comes again, and by then     *)
(* fewer answers are given than Finished messages are gone.                *)
LEMMA ServerAnswers ==
  ASSUME mode \in ModeSpace, Plain(mode), NEW c, NEW s, NEW t, Paired(c, s), Paired(c, t),
         NEW up, NEW down, Carried(c, s, up, down), NEW f \in Nat,
         Steady(mode, c, s, up, down), Within(c, s, f),
         s.tries + 1 < Cardinality(Gone(c, s, ToSet(up))),
         NEW out, ServerWrote(c, s, t, out),
         s.st = "OK", t.st = "OK", t.tries = s.tries + 1
  PROVE  Tolerates(mode, c, t, up, down \o out, f)
<1>0. /\ c \in SSL /\ c.tries \in Nat /\ s.tries \in Nat /\ c.writeEpoch \in 0 .. 1
      /\ s.readEpoch \in 0 .. 1
  BY LinkIs DEF Paired
<1>2. c.writeEpoch = 1 /\ c.st # "CW_CERT" /\ Settled(s) /\ ~InInit(t)
      /\ c.st # "CR_SRVR_HELLO"
  BY <1>0 DEF Settled, Paired, InInit
<1>3. Steady(mode, c, t, up, down \o out) /\ Coming(down \o out, c, ClientDue(c))
  BY <1>2, ServerWrites
<1>4. LastHope(c, t, up, down \o out) = 2
  BY <1>3 DEF LastHope
<1>5. c.tries <= 2 * f + 1
  BY DEF Within
<1>6. c.tries + 1 <= 2 * f + LastHope(c, t, up, down \o out)
  BY <1>0, <1>4, <1>5
<1>7. Hoped(c, t, up, down \o out, f)
  BY <1>2, <1>6 DEF Hoped
<1>8. Within(c, t, f)
  BY <1>2, <1>5 DEF Within
<1>9. Paid(c, t, ToSet(up))
  BY DEF Paid, Gone, ServerWrote, Sees
<1> QED
  BY <1>3, <1>7, <1>8, <1>9 DEF Tolerates, Budget

(* The server asks for a cookie.                                           *)
LEMMA ServerVerifies ==
  ASSUME mode \in ModeSpace, Plain(mode), NEW c, NEW s, NEW t, Paired(c, s), Paired(c, t),
         NEW up, NEW down, Carried(c, s, up, down), NEW f \in Nat,
         Tolerates(mode, c, s, up, down, f), NEW out \in Seq(Records),
         Numbered(s.wseq, t.wseq, out), Sends(out, <<"HVR">>), out[1].rseq = s.wseq[0],
         s.st = "SW_HELLO_VERIFY", t.st = "SR_CLNT_HELLO", Sees(s, t), t.timer = s.timer,
         t.tries = s.tries, t.failed = "no", t.buffered = s.buffered, t.appQueue = s.appQueue
  PROVE  Tolerates(mode, c, t, up, down \o out, f)
<1> DEFINE U == ToSet(up)
           D == ToSet(down)
           D2 == ToSet(down \o out)
<1>0. /\ c \in SSL /\ s \in SSL /\ t \in SSL /\ up \in Seq(Records) /\ down \in Seq(Records)
      /\ c.tries \in Nat /\ s.tries \in Nat /\ c.writeEpoch \in 0 .. 1
  BY LinkIs DEF Paired, Carried
<1>1. /\ Quiet(c, s, U, D) /\ Clocks(c, s) /\ Flights(mode, c, s) /\ Stages(mode, c, s, U, D)
      /\ Link(c, s, up) /\ Opening(mode, c, s, U, D) /\ Hoped(c, s, up, down, f)
      /\ Within(c, s, f)
  BY DEF Tolerates, Steady, Budget, Settled
<1>2. D2 = D \cup {out[1]} /\ out[1].type = "HVR"
  <2>1. Len(out) = 1 /\ out[1].type = "HVR"
    BY DEF Sends
  <2>2. ToSet(out) = {out[1]}
    BY <2>1, InQueue
  <2> QED
    BY <1>0, <2>1, <2>2, InJoined
<1>3. /\ ~Settled(t) /\ ~Settled(s) /\ ~Helloed(s.st) /\ ~Helloed(t.st) /\ ~ReadFin(t.st)
      /\ c.writeEpoch = 0 /\ c.st \in {"CW_CLNT_HELLO", "CR_SRVR_HELLO"} /\ InInit(s) /\ InInit(t)
  BY <1>0 DEF Settled, Helloed, ReadFin, Paired, Answered, InInit
<1> HIDE DEF D, D2
<1>4. Quiet(c, t, U, D2)
  BY <1>1, <1>2 DEF Quiet, Sees
<1>5. Clocks(c, t)
  BY <1>1 DEF Clocks, Idle
<1>6. Flights(mode, c, t)
  BY <1>1 DEF Flights
<1>7. Stages(mode, c, t, U, D2)
  BY <1>1, <1>2, <1>3 DEF Stages
<1>8. Link(c, t, up)
  BY <1>1 DEF Link, Sees, MapOf
<1>9. Opening(mode, c, t, U, D2)
  BY <1>1, <1>2 DEF Opening, Sees
<1>10. Steady(mode, c, t, up, down \o out)
  BY <1>3, <1>4, <1>5, <1>6, <1>7, <1>8, <1>9 DEF Steady, D2
<1>11. Within(c, t, f)
  BY <1>1, <1>3 DEF Within
<1>12. c.st = "CR_SRVR_HELLO" => c.tries + 1 <= 2 * f + HelloHope(c, t, U, D2)
  <2>1. CASE ~c.sendCookie
    <3>1. HelloHope(c, t, U, D2) = 2
      BY <1>2, <2>1 DEF HelloHope
    <3> QED
      BY <1>0, <1>11, <3>1 DEF Within
  <2>2. CASE c.sendCookie
    <3>1. HelloHope(c, t, U, D2) = HelloHope(c, s, U, D)
      BY <2>2 DEF HelloHope, Answering
    <3> QED
      BY <1>1, <1>3, <3>1 DEF Hoped, D
  <2> QED
    BY <2>1, <2>2
<1>13. Hoped(c, t, up, down \o out, f)
  BY <1>3, <1>12 DEF Hoped, D2
<1> QED
  BY <1>3, <1>10, <1>11, <1>13 DEF Tolerates, Budget, Paid
------------------------------------------------------------------------------
(* What a record makes of its reader.                                      *)

(* A connection that is given up.                                          *)
LEMMA FailIs ==
  ASSUME NEW s \in SSL, NEW why
  PROVE  Fail(s, why).st = s.st /\ Fail(s, why).failed = why
<1> DEFINE ms == <<[type |-> "ALERT", seq |-> 0, epoch |-> s.writeEpoch, digest |-> <<>>]>>
<1>1. ms \in Seq(Kept)
  <2>1. [type |-> "ALERT", seq |-> 0, epoch |-> s.writeEpoch, digest |-> <<>>] \in Kept
    BY NoneIn DEF Kept, SSL, Types
  <2> QED
    BY <2>1, TupleIn
<1>2. Fail(s, why) = [Put(s, ms) EXCEPT !.failed = why]
  BY DEF Fail
<1> HIDE DEF ms
<1>3. Put(s, ms) \in SSL /\ AllBut(s, Put(s, ms), {"wbio", "wseq"})
  BY <1>1, PutIs
<1> DEFINE u == Put(s, ms)
<1> HIDE DEF u
<1>4. u \in SSL /\ AllBut(s, u, {"wbio", "wseq"}) /\ Fail(s, why) = [u EXCEPT !.failed = why]
  BY <1>2, <1>3 DEF u
<1>5. u.st = s.st
  BY <1>4, FieldsOf DEF AllBut
<1> QED
  BY <1>4, <1>5 DEF SSL

\* No message is fatal to an endpoint x that becomes u.
Survives(u) == u.st # "OK" => u.failed \in {"no", "PEER_ALERT", "READ_TIMEOUT_EXPIRED"}

(* That is so in every plain handshake.                                    *)
LEMMA SoundSurvives ==
  ASSUME NEW md, Plain(md), NEW e, NEW u, NEW p, Sound(md, e, u, p)
  PROVE  Survives(u)
BY DEF Sound, Core, Blameless, Survives

\* What taking a message of the table changes.
Stepped == {"st", "transcript", "readSeq", "timer", "tries", "sent"}

\* The client x takes the message m.
ClientTook(x, u, m) ==
  \/ u.st = "OK"
  \/ /\ AllBut(x, u, Stepped)
     /\ <<x.st, m.type, u.st>> \in
          {<<"CR_SRVR_HELLO", "SH", "CR_CERT">>, <<"CR_CERT", "CERT", "CR_CERT_REQ">>,
           <<"CR_CERT_REQ", "SHD", "CW_CERT">>, <<"CR_SESSION_TICKET", "NST", "CR_FINISHED">>}
     /\ IF x.st \in {"CR_CERT", "CR_CERT_REQ"} THEN Idle(u)
        ELSE u.sent = x.sent /\ u.timer = x.timer /\ u.tries = x.tries
  \/ /\ AllBut(x, u, Stepped \cup {"sendCookie"})
     /\ x.st = "CR_SRVR_HELLO" /\ m.type = "HVR" /\ ~x.sendCookie /\ mode.cookie # "none"
     /\ u.st = "CW_CLNT_HELLO" /\ u.sendCookie /\ u.sent = <<>> /\ Idle(u)

\* The record m reaches the client x.
ClientWent(x, u, m) ==
  \/ ClientTook(x, u, m)
  \/ /\ AllBut(x, u, {"buffered", "appQueue"})
     /\ IsHandshake(m) => ~IsNext(x, m)
     /\ m.type = "CCS" => x.st # "CR_FINISHED"
  \/ /\ x.st = "CR_FINISHED" /\ m.type = "CCS" /\ x.readEpoch = 0 /\ u.readEpoch = 1
     /\ AllBut(x, u, {"ccs", "readEpoch", "peerFin", "bitmap", "nextBitmap"})
     /\ u.bitmap = x.nextBitmap /\ u.nextBitmap = NoRecords

(* dtls1_get_message, in the client.                                       *)
LEMMA ClientConsumes ==
  ASSUME mode \in ModeSpace, Plain(mode), NEW x, NEW p, Sound(mode, "client", x, p),
         x.failed = "no", NEW m \in Records, Arrives(mode, "server", p, m),
         Expected(mode, "client", x, m), m.epoch = 1 => x.readEpoch = 1
  PROVE  ClientTook(x, Consume(x, m), m)
<1>0. /\ x \in SSL /\ "client" \in Endpoints /\ ~mode.hit /\ ~mode.cert
      /\ x.st \in ClientStates(mode) /\ Peer("client") = "server"
  BY DEF Sound, Core, StatesOf, Plain, Endpoints, Peer
<1>1. ~Listening(x) /\ StopsTimer(x, m) \in BOOLEAN
  BY <1>0 DEF Listening, ClientStates, StopsTimer
<1>2. CASE x.st = "CR_SRVR_HELLO" /\ m.type = "HVR"
  <2> DEFINE t == Taken(x, m)
             w == StopTimer(t)
             u == [w EXCEPT !.st = "CW_CLNT_HELLO", !.sendCookie = TRUE]
  <2>1. ~x.sendCookie /\ mode.cookie # "none"
    BY <1>2 DEF Expected
  <2>2. Consume(x, m) = u
    <3>1. ~\E mv \in Moves : mv[1] = x.st /\ mv[2] = m.type
      BY <1>2 DEF Moves
    <3>2. ~CcsOk(x)
      BY <1>2 DEF CcsOk
    <3> QED
      BY <1>2, <2>1, <3>1, <3>2 DEF Consume, Taken
  <2>3. t \in SSL /\ AllBut(x, t, {"transcript", "readSeq"})
    BY <1>0, TakenIs
  <2> HIDE DEF t
  <2>4. /\ w \in SSL /\ AllBut(t, w, {"timer", "tries", "sent"}) /\ w.sent = <<>>
        /\ ~w.timer /\ w.tries = 0
    BY <2>3, StopTimerIs
  <2> HIDE DEF w
  <2>5. /\ AllBut(w, u, {"st", "sendCookie"}) /\ u.st = "CW_CLNT_HELLO" /\ u.sendCookie
        /\ u \in SSL
    <3>1. "CW_CLNT_HELLO" \in States
      BY DEF States
    <3> QED
      BY <2>4, <3>1 DEF SSL, AllBut
  <2> HIDE DEF u
  <2>6. /\ AllBut(x, u, Stepped \cup {"sendCookie"}) /\ u.sent = <<>> /\ ~u.timer /\ u.tries = 0
    BY <1>0, <2>3, <2>4, <2>5, FieldsOf DEF AllBut, Stepped
  <2> QED
    BY <1>2, <2>1, <2>2, <2>5, <2>6 DEF ClientTook, Idle
<1>3. CASE m.type \in {"SH", "CERT", "SHD", "NST"}
  <2>1. PICK next \in {"CR_CERT", "CR_CERT_REQ", "CW_CERT", "CR_FINISHED"} :
           /\ <<x.st, m.type, next>> \in Moves
           /\ <<x.st, m.type, next>> \in
                {<<"CR_SRVR_HELLO", "SH", "CR_CERT">>, <<"CR_CERT", "CERT", "CR_CERT_REQ">>,
                 <<"CR_CERT_REQ", "SHD", "CW_CERT">>,
                 <<"CR_SESSION_TICKET", "NST", "CR_FINISHED">>}
    <3>1. \/ x.st = "CR_SRVR_HELLO" /\ m.type = "SH"
          \/ x.st = "CR_CERT" /\ m.type = "CERT"
          \/ x.st = "CR_CERT_REQ" /\ m.type = "SHD"
          \/ x.st = "CR_SESSION_TICKET" /\ m.type = "NST"
      BY <1>0, <1>3 DEF Expected, ClientStates
    <3> QED
      BY <1>0, <3>1 DEF Moves
  <2> DEFINE stops == StopsTimer(x, m)
             u == Move(x, m, next, stops)
  <2>2. Consume(x, m) = u
    BY <2>1, MoveTaken
  <2>3. stops <=> x.st \in {"CR_CERT", "CR_CERT_REQ"}
    BY <2>1 DEF StopsTimer
  <2>4. next \in States /\ stops \in BOOLEAN
    BY <1>1 DEF States
  <2> HIDE DEF stops
  <2>5. /\ AllBut(x, u, Stepped) /\ u.st = next
        /\ stops => u.sent = <<>> /\ ~u.timer /\ u.tries = 0
        /\ ~stops => u.sent = x.sent /\ u.timer = x.timer /\ u.tries = x.tries
    BY <1>0, <2>4, MoveIs DEF Stepped
  <2> HIDE DEF u
  <2> QED
    BY <2>1, <2>2, <2>3, <2>5 DEF ClientTook, Idle
<1>4. CASE m.type = "FIN"
  <2> DEFINE t == Taken(x, m)
  <2>1. /\ x.st = "CR_FINISHED" /\ IsHandshake(m) /\ m.digest = FinDigest(mode, "server")
        /\ x.readEpoch = 1
    BY <1>4 DEF Expected, IsHandshake, Arrives, Good
  <2>2. Consume(x, m) = Finish(t, m)
    <3>1. ~\E mv \in Moves : mv[1] = x.st /\ mv[2] = m.type
      BY <1>4, <2>1 DEF Moves
    <3> QED
      BY <1>4, <2>1, <3>1 DEF Consume, Taken, CcsOk
  <2>3. Sound(mode, "client", Consume(x, m), p)
    BY <1>0, <1>4, <2>1, FinishedSound
  <2>4. t \in SSL /\ AllBut(x, t, {"transcript", "readSeq"})
    BY <1>0, TakenIs
  <2> HIDE DEF t
  <2>5. t.st = x.st
    BY <1>0, <2>4, FieldsOf DEF AllBut
  <2>6. CASE Finish(t, m) \in {Fail(t, "GOT_A_FIN_BEFORE_A_CCS"), Fail(t, "DIGEST_CHECK_FAILED")}
    <3>1. /\ Finish(t, m).st = t.st
          /\ Finish(t, m).failed \in {"GOT_A_FIN_BEFORE_A_CCS", "DIGEST_CHECK_FAILED"}
      BY <2>4, <2>6, FailIs
    <3>2. Survives(Finish(t, m))
      BY <2>2, <2>3, SoundSurvives
    <3> QED
      BY <2>1, <2>5, <3>1, <3>2 DEF Survives
  <2>7. CASE Finish(t, m) = ToState(StopTimer([t EXCEPT !.ccs = FALSE]), "OK")
    <3>1. "OK" \in States /\ [t EXCEPT !.ccs = FALSE] \in SSL
      BY <2>4 DEF States, SSL
    <3>2. StopTimer([t EXCEPT !.ccs = FALSE]) \in SSL
      BY <3>1, StopTimerIs
    <3>3. ToState(StopTimer([t EXCEPT !.ccs = FALSE]), "OK").st = "OK"
      BY <3>1, <3>2, ToStateIs
    <3> QED
      BY <2>2, <2>7, <3>3 DEF ClientTook
  <2> QED
    BY <1>0, <2>1, <2>5, <2>6, <2>7 DEF Finish
<1> QED
  BY <1>0, <1>2, <1>3, <1>4 DEF Expected, ClientStates

(* dtls1_process_out_of_seq_message and the application data queue.        *)
LEMMA PutAside ==
  ASSUME NEW s \in SSL, NEW m \in Records
  PROVE  /\ AllBut(s, OutOfSeq(s, m), {"buffered", "appQueue"})
         /\ m.seq <= s.readSeq => OutOfSeq(s, m) = s
         /\ AllBut(s, [s EXCEPT !.appQueue = s.appQueue \cup {m}], {"buffered", "appQueue"})
         /\ AllBut(s, s, {"buffered", "appQueue"})
<1> DEFINE q == s.buffered \cup {m}
           r == s.appQueue \cup {m}
<1>1. q \in SUBSET Records /\ r \in SUBSET Records
  BY DEF SSL
<1>2. OutOfSeq(s, m) \in {s, [s EXCEPT !.buffered = q]}
  BY DEF OutOfSeq
<1>3. m.seq <= s.readSeq => OutOfSeq(s, m) = s
  BY DEF OutOfSeq
<1> HIDE DEF q, r
<1>4. /\ AllBut(s, [s EXCEPT !.buffered = q], {"buffered"})
      /\ AllBut(s, [s EXCEPT !.appQueue = r], {"appQueue"})
  BY <1>1, Retyped
<1> QED
  BY <1>2, <1>3, <1>4 DEF AllBut, r

(* What ssl3_read_change_cipher_spec changes.                              *)
LEMMA CcsIs ==
  ASSUME NEW s \in SSL, CipherChosen(s), CcsOk(s), s.readEpoch = 0
  PROVE  LET t == ReadCcs(s)
         IN /\ AllBut(s, t, {"ccs", "readEpoch", "peerFin", "bitmap", "nextBitmap"})
            /\ t.readEpoch = 1 /\ t.bitmap = s.nextBitmap /\ t.nextBitmap = NoRecords /\ t.ccs
<1> DEFINE t == ReadCcs(s)
           tr == s.transcript
           bm == s.nextBitmap
           nr == NoRecords
           one == 1
           yes == TRUE
<1>1. t = [s EXCEPT !.ccs = yes, !.readEpoch = one, !.peerFin = tr, !.bitmap = bm,
                    !.nextBitmap = nr]
  BY DEF ReadCcs, SSL
<1> HIDE DEF t, tr, bm, nr, one, yes
<1>2. AllBut(s, t, {"ccs", "readEpoch", "peerFin", "bitmap", "nextBitmap"})
  BY <1>1 DEF SSL, AllBut
<1>3. t.ccs = yes /\ t.readEpoch = one /\ t.bitmap = bm /\ t.nextBitmap = nr
  BY <1>1 DEF SSL
<1> QED
  BY <1>2, <1>3 DEF t, one, bm, nr, yes

(* dtls1_read_bytes, in the client.                                        *)
LEMMA ClientTakes ==
  ASSUME mode \in ModeSpace, Plain(mode), NEW x, NEW p, Sound(mode, "client", x, p),
         x.failed = "no", InInit(x), ~Writing(x), NEW m \in Records, m.type # "ALERT",
         Ready(mode, "client", x, p, m)
  PROVE  ClientWent(x, Process("client", x, m), m)
<1> DEFINE u == Process("client", x, m)
<1>0. /\ x \in SSL /\ "client" \in Endpoints /\ ~mode.hit /\ ~mode.cert
      /\ x.st \in ClientStates(mode) /\ Peer("client") = "server"
      /\ Epochs(mode, "client", x) /\ m.type \in Types
  BY DEF Sound, Core, StatesOf, Plain, Endpoints, Peer, Records
<1>1. ~Listening(x)
  BY <1>0 DEF Listening, ClientStates
<1>2. Survives(u)
  <2>1. Sound(mode, "client", u, p)
    BY <1>0, ProcessSound
  <2> QED
    BY <2>1, SoundSurvives
<1>3. CASE x.ccs /\ ~IsHandshake(m)
  <2>1. u = [x EXCEPT !.appQueue = x.appQueue \cup {m}]
    BY <1>1, <1>3 DEF Process
  <2>2. m.type # "CCS"
    BY <1>0, <1>3 DEF Epochs, Ready
  <2> QED
    BY <1>0, <1>3, <2>1, <2>2, PutAside DEF ClientWent
<1>4. CASE m.type = "CCS" /\ ~x.ccs
  <2>1. u = ReadCcs(x) /\ ~IsHandshake(m)
    BY <1>1, <1>4 DEF Process, IsHandshake
  <2>2. CASE ~CipherChosen(x)
    <3>1. u = Fail(x, "CCS_RECEIVED_EARLY")
      BY <2>1, <2>2 DEF ReadCcs
    <3> QED
      BY <1>0, <1>2, <3>1, FailIs DEF Survives, InInit
  <2>3. CASE CipherChosen(x) /\ ~CcsOk(x)
    BY <1>0, <2>1, <2>3, PutAside DEF ReadCcs, ClientWent, CcsOk
  <2>4. CASE CipherChosen(x) /\ CcsOk(x)
    <3>1. x.readEpoch = 0 /\ x.st = "CR_FINISHED"
      BY <1>0, <1>4, <2>4 DEF Ready, CcsOk, ClientStates
    <3> QED
      BY <1>0, <1>4, <2>1, <2>4, <3>1, CcsIs DEF ClientWent
  <2> QED
    BY <2>2, <2>3, <2>4
<1>5. CASE m.type = "APP" /\ ~x.ccs
  <2>1. u = Fail(x, "UNEXPECTED_RECORD")
    BY <1>1, <1>5 DEF Process, IsHandshake
  <2> QED
    BY <1>0, <1>2, <2>1, FailIs DEF Survives, InInit
<1>6. CASE IsHandshake(m)
  <2>1. u = GetFragment(x, m)
    BY <1>1, <1>6 DEF Process, IsHandshake
  <2>2. CASE ~IsNext(x, m)
    <3>1. u = OutOfSeq(x, m)
      BY <2>1, <2>2 DEF GetFragment, IsNext
    <3> QED
      BY <1>0, <1>6, <2>2, <3>1, PutAside DEF ClientWent, IsHandshake
  <2>3. CASE IsNext(x, m)
    <3>1. u = Consume(x, m)
      BY <2>1, <2>3 DEF GetFragment, IsNext
    <3>2. Arrives(mode, "server", p, m) /\ (m.epoch = 1 => x.readEpoch = 1)
      BY <1>0, <1>6 DEF Ready, IsHandshake
    <3>3. Expected(mode, "client", x, m)
      BY <1>0, <1>6, <2>3, <3>2, NextIsExpected DEF Arrives
    <3> QED
      BY <3>1, <3>2, <3>3, ClientConsumes DEF ClientWent
  <2> QED
    BY <2>2, <2>3
<1> QED
  BY <1>3, <1>4, <1>5, <1>6 DEF IsHandshake

------------------------------------------------------------------------------
(* The client reads.                                                       *)

\* What became of the client c, which is t after the record m.
ClientDid(c, s, t, m) ==
  /\ t.wseq = c.wseq
  /\ \/ /\ c.st = "CR_SRVR_HELLO" /\ ~c.sendCookie /\ mode.cookie # "none"
        /\ t.st = "CW_CLNT_HELLO" /\ t.sendCookie /\ t.sent = <<>> /\ Idle(t)
     \/ /\ t.sendCookie = c.sendCookie /\ t.writeEpoch = c.writeEpoch
        /\ \/ /\ t.st = c.st /\ t.readEpoch = c.readEpoch
              /\ t.tries = c.tries /\ t.sent = c.sent /\ t.timer = c.timer
              /\ ~(m.type = ClientDue(c)[1] /\ New(c, m))
              /\ ~Helloed(s.st) => c.sendCookie
           \/ /\ <<c.st, m.type, t.st>> \in
                   {<<"CR_SRVR_HELLO", "SH", "CR_CERT">>, <<"CR_CERT", "CERT", "CR_CERT_REQ">>,
                    <<"CR_CERT_REQ", "SHD", "CW_CERT">>,
                    <<"CR_SESSION_TICKET", "NST", "CR_FINISHED">>}
              /\ t.readEpoch = c.readEpoch
              /\ IF c.st \in {"CR_CERT", "CR_CERT_REQ"} THEN Idle(t)
                 ELSE t.sent = c.sent /\ t.tries = c.tries
           \/ /\ c.st = "CR_FINISHED" /\ t.st = c.st /\ c.readEpoch = 0 /\ t.readEpoch = 1
              /\ t.sent = c.sent /\ t.tries = c.tries

(* Whatever it was, the handshake goes on.                                 *)
LEMMA ClientGoesOn ==
  ASSUME mode \in ModeSpace, Plain(mode), NEW c, NEW s, NEW t, Paired(c, s), Paired(t, s),
         NEW up, NEW down, Carried(c, s, up, down), NEW f, Tolerates(mode, c, s, up, down, f),
         NEW q2, NEW m, NEW f2, Reads(c, t, down, q2, m, f, f2), ~Writing(c),
         ClientDid(c, s, t, m), t.failed = "no", \A u \in t.unprocessed : u.type = "FIN"
  PROVE  Tolerates(mode, t, s, up, q2, f2)
<1>1. /\ Steady(mode, c, s, up, down) /\ Budget(c, s, up, down, f)
      /\ c.tries \in Nat /\ t.tries \in Nat
      /\ c.st \in {"CR_CERT_REQ"} => Idle(c)
  <2>1. Clocks(c, s)
    BY DEF Tolerates, Steady
  <2> QED
    BY <2>1, LinkIs DEF Tolerates, Clocks, Paired
<1>2. CASE t.st = "CW_CLNT_HELLO"
  <2>1. c.st # "CW_CLNT_HELLO"
    BY DEF Writing
  <2> QED
    BY <1>2, <2>1, ClientVerified DEF ClientDid
<1>3. CASE t.st # "CW_CLNT_HELLO"
  <2> DEFINE K(k) == /\ t.st = "CW_CERT" \/ Suffix(ClientDue(t), ClientDue(c), k)
                     /\ k = 0 => ~(m.type = ClientDue(c)[1] /\ New(c, m))
             Same == t.sent = c.sent /\ t.tries = c.tries
             Slow == c.st \in {"CR_CERT", "CR_CERT_REQ"} /\ t.st \in {"CR_CERT_REQ", "CW_CERT"}
  <2>0. t.wseq = c.wseq /\ t.sendCookie = c.sendCookie /\ t.writeEpoch = c.writeEpoch
    BY <1>3 DEF ClientDid
  <2>1. ASSUME t.st = c.st, t.readEpoch = c.readEpoch, t.tries = c.tries, t.sent = c.sent,
               t.timer = c.timer,
               ~(m.type = ClientDue(c)[1] /\ New(c, m)), ~Helloed(s.st) => c.sendCookie
        PROVE  /\ \E k : K(k)
               /\ Same /\ (t.st = "CR_CERT_REQ" => Idle(t)) /\ t.st # "CW_CERT"
               /\ t.st \in {"CR_SRVR_HELLO", "CR_CERT"} => c.st = t.st
               /\ ~Helloed(s.st) => c.sendCookie /\ t.st = c.st
               /\ t.st = "CR_SRVR_HELLO" => c.st = t.st
    <3>1. ClientDue(t) = ClientDue(c)
      BY <2>1 DEF ClientDue
    <3>2. Len(ClientDue(c)) \in Nat
      BY DueIs, LenProperties
    <3>3. Suffix(ClientDue(t), ClientDue(c), 0)
      <4> DEFINE d == ClientDue(c)
      <4>1. ClientDue(t) = d /\ Len(d) \in Nat
        BY <3>1, <3>2
      <4> HIDE DEF d
      <4>2. Suffix(d, d, 0)
        BY <4>1 DEF Suffix
      <4> QED
        BY <4>1, <4>2 DEF d
    <3>4. K(0)
      BY <2>1, <3>3
    <3>5. t.st = "CR_CERT_REQ" => Idle(t)
      BY <1>1, <2>1 DEF Idle
    <3> QED
      BY <2>1, <3>4, <3>5 DEF Writing
  <2>2. ASSUME <<c.st, m.type, t.st>> \in
                 {<<"CR_SRVR_HELLO", "SH", "CR_CERT">>, <<"CR_CERT", "CERT", "CR_CERT_REQ">>,
                  <<"CR_CERT_REQ", "SHD", "CW_CERT">>,
                  <<"CR_SESSION_TICKET", "NST", "CR_FINISHED">>},
               t.readEpoch = c.readEpoch,
               IF c.st \in {"CR_CERT", "CR_CERT_REQ"} THEN Idle(t) ELSE Same
        PROVE  /\ \E k : K(k)
               /\ Same \/ (Slow /\ Idle(t)) 
               /\ t.st \in {"CR_CERT_REQ", "CW_CERT"} => Idle(t)
               /\ t.st \in {"CR_SRVR_HELLO", "CR_CERT"} =>
                    Same /\ c.st \in {"CR_SRVR_HELLO", "CR_CERT"}
               /\ ~Helloed(s.st) => c.sendCookie /\ t.st = c.st
               /\ t.st = "CR_SRVR_HELLO" => c.st = t.st
    <3>1. \/ c.st = "CR_SRVR_HELLO" /\ t.st = "CR_CERT"
          \/ c.st = "CR_CERT" /\ t.st = "CR_CERT_REQ"
          \/ c.st = "CR_CERT_REQ" /\ t.st = "CW_CERT"
          \/ c.st = "CR_SESSION_TICKET" /\ t.st = "CR_FINISHED"
      BY <2>2
    <3>2. Helloed(s.st)
      BY <3>1 DEF Paired, Answered
    <3>3. c.st # "CR_FINISHED" => t.readEpoch = 0
      BY <2>2, LinkIs DEF Paired
    <3>4. K(1)
      <4>1. 1 # 0
        OBVIOUS
      <4>2. t.st = "CW_CERT" \/ Suffix(ClientDue(t), ClientDue(c), 1)
        BY <3>1, <3>3, Tails DEF ClientDue
      <4> QED
        BY <4>1, <4>2
    <3> QED
      BY <2>2, <3>1, <3>2, <3>4
  <2>3. ASSUME c.st = "CR_FINISHED", t.st = c.st, c.readEpoch = 0, t.readEpoch = 1, Same
        PROVE  \E k : K(k) /\ Helloed(s.st)
    <3>1. Suffix(ClientDue(t), ClientDue(c), 1) /\ 1 # 0
      BY <2>3, Tails DEF ClientDue
    <3>2. Helloed(s.st)
      BY <2>3 DEF Paired, Answered
    <3> QED
      BY <3>1, <3>2
  <2>4. /\ \E k : K(k)
        /\ Same \/ (Slow /\ Idle(t))
        /\ t.st \in {"CR_CERT_REQ", "CW_CERT"} => Idle(t)
        /\ t.st \in {"CR_SRVR_HELLO", "CR_CERT"} =>
             t.sent = c.sent /\ c.st \in {"CR_SRVR_HELLO", "CR_CERT"}
        /\ ~Helloed(s.st) => c.sendCookie /\ t.st = c.st
        /\ t.st = "CR_SRVR_HELLO" => c.st = t.st
    <3> HIDE DEF K
    <3>1. \/ /\ t.st = c.st /\ t.readEpoch = c.readEpoch
             /\ t.tries = c.tries /\ t.sent = c.sent /\ t.timer = c.timer
             /\ ~(m.type = ClientDue(c)[1] /\ New(c, m))
             /\ ~Helloed(s.st) => c.sendCookie
          \/ /\ <<c.st, m.type, t.st>> \in
                  {<<"CR_SRVR_HELLO", "SH", "CR_CERT">>, <<"CR_CERT", "CERT", "CR_CERT_REQ">>,
                   <<"CR_CERT_REQ", "SHD", "CW_CERT">>,
                   <<"CR_SESSION_TICKET", "NST", "CR_FINISHED">>}
             /\ t.readEpoch = c.readEpoch
             /\ IF c.st \in {"CR_CERT", "CR_CERT_REQ"} THEN Idle(t) ELSE Same
          \/ c.st = "CR_FINISHED" /\ t.st = c.st /\ c.readEpoch = 0 /\ t.readEpoch = 1 /\ Same
      BY <1>3 DEF ClientDid
    <3>2. CASE /\ t.st = c.st /\ t.readEpoch = c.readEpoch
               /\ t.tries = c.tries /\ t.sent = c.sent /\ t.timer = c.timer
               /\ ~(m.type = ClientDue(c)[1] /\ New(c, m))
               /\ ~Helloed(s.st) => c.sendCookie
      BY <2>1, <3>2
    <3>3. CASE /\ <<c.st, m.type, t.st>> \in
                    {<<"CR_SRVR_HELLO", "SH", "CR_CERT">>,
                     <<"CR_CERT", "CERT", "CR_CERT_REQ">>, <<"CR_CERT_REQ", "SHD", "CW_CERT">>,
                     <<"CR_SESSION_TICKET", "NST", "CR_FINISHED">>}
               /\ t.readEpoch = c.readEpoch
               /\ IF c.st \in {"CR_CERT", "CR_CERT_REQ"} THEN Idle(t) ELSE Same
      BY <2>2, <3>3
    <3>4. CASE /\ c.st = "CR_FINISHED" /\ t.st = c.st /\ c.readEpoch = 0 /\ t.readEpoch = 1
               /\ Same
      BY <2>3, <3>4
    <3> QED
      BY <3>1, <3>2, <3>3, <3>4
  <2> HIDE DEF K
  <2>5. PICK k : K(k)
    BY <2>4
  <2>6. t.st = "CW_CERT" \/ Suffix(ClientDue(t), ClientDue(c), k)
    BY <2>5 DEF K
  <2>7. k = 0 => ~(m.type = ClientDue(c)[1] /\ New(c, m))
    BY <2>5 DEF K
  <2>8. t.tries <= c.tries /\ (c.writeEpoch = 1 => Same)
    BY <1>1, <2>4 DEF Idle, Paired
  <2>9. Steady(mode, t, s, up, q2)
    BY <1>1, <1>3, <2>0, <2>4, <2>8, ClientReads
  <2>10. Budget(t, s, up, q2, f2)
    BY <1>1, <2>0, <2>4, <2>6, <2>7, <2>8, ClientReadsPaid
  <2> QED
    BY <2>9, <2>10 DEF Tolerates
<1> QED
  BY <1>2, <1>3

(* What the client waits for next it takes when it comes.                  *)
LEMMA DueIsNext ==
  ASSUME mode \in ModeSpace, Plain(mode), NEW c, NEW s, Paired(c, s), c.failed = "no",
         ~Writing(c), Sound(mode, "client", c, s), NEW up, NEW down, Carried(c, s, up, down),
         Steady(mode, c, s, up, down), NEW m \in ToSet(down),
         \/ m.type = ClientDue(c)[1] /\ New(c, m)
         \/ ~Helloed(s.st) /\ ~c.sendCookie
  PROVE  /\ m.epoch = c.readEpoch /\ Unseen(c.bitmap, m.rseq)
         /\ IsHandshake(m) => IsNext(c, m)
         /\ m.type = "CCS" => c.st = "CR_FINISHED"
<1>0. /\ c \in SSL /\ down \in Seq(Records) /\ c.readEpoch \in 0 .. 1 /\ c.bitmap \in Bitmaps
      /\ mode.cert = FALSE /\ mode.hit = FALSE /\ mode.ticket \in BOOLEAN
      /\ c.sendCookie \in BOOLEAN
  BY LinkIs DEF Paired, Carried, Plain, ModeSpace, SSL
<1>1. m \in Records /\ m.rseq \in Nat /\ Arrives(mode, "server", s, m)
  BY <1>0, InQueue DEF Carried, Records
<1>2. Stages(mode, c, s, ToSet(up), ToSet(down))
  BY DEF Steady
<1>3. Numbers(mode, "client", c)
  BY DEF Sound, Placed
<1>4. CASE ~Helloed(s.st) /\ ~c.sendCookie
  <2>1. m.type = "HVR" /\ c.st = "CR_SRVR_HELLO"
    BY <1>2, <1>4 DEF Stages, Paired, Answered, Writing
  <2>2. m.epoch = 0 /\ c.readEpoch = 0
    BY <1>0, <1>1, <2>1, DownIs DEF Paired
  <2>3. Opening(mode, c, s, ToSet(up), ToSet(down))
    <3>1. mode.cookie # "none"
      BY <1>1, <2>1, DownIs
    <3>2. ~Settled(s)
      BY <1>2, <1>4, <3>1 DEF Stages
    <3> QED
      BY <3>2 DEF Steady
  <2>4. Unseen(c.bitmap, m.rseq)
    BY <1>0, <1>1, <1>4, <2>3, EmptyIsNew, NewerUnseen DEF Opening
  <2>5. m.seq = c.readSeq
    <3>1. m.seq = 0
      BY <1>1, <2>1 DEF Arrives, Good, IsHandshake, Number
    <3>2. c.readSeq = 0
      BY <1>3, <1>4, <2>1 DEF Numbers, One
    <3> QED
      BY <3>1, <3>2
  <2> QED
    BY <2>1, <2>2, <2>4, <2>5 DEF IsNext
<1>5. CASE m.type = ClientDue(c)[1] /\ New(c, m) /\ (Helloed(s.st) \/ c.sendCookie)
  <2>1. \/ c.st = "CR_SRVR_HELLO" /\ m.type = "SH"
        \/ c.st = "CR_CERT" /\ m.type = "CERT"
        \/ c.st = "CR_CERT_REQ" /\ m.type = "SHD"
        \/ c.st = "CR_SESSION_TICKET" /\ m.type = "NST"
        \/ c.st = "CR_FINISHED" /\ c.readEpoch = 0 /\ m.type = "CCS"
        \/ c.st = "CR_FINISHED" /\ c.readEpoch = 1 /\ m.type = "FIN"
    BY <1>0, <1>5 DEF ClientDue, Paired, Writing
  <2>2. m.epoch = c.readEpoch
    <3>1. c.readEpoch = 1 => c.st = "CR_FINISHED"
      BY DEF Paired
    <3>2. m.type = "FIN" => m.epoch = 1
      BY <1>1, DownIs
    <3>3. m.type \in {"SH", "CERT", "SHD", "NST", "CCS"} => m.epoch = 0
      BY <1>1, DownIs
    <3> QED
      BY <1>0, <2>1, <3>1, <3>2, <3>3
  <2>3. Unseen(c.bitmap, m.rseq)
    BY <1>0, <1>1, <1>5, <2>2, NewerUnseen DEF New, MapOf
  <2>4. m.type # "CCS" => m.seq = c.readSeq
    <3>1. m.type # "CCS" => IsHandshake(m) /\ m.seq = Number(mode, "server", m.type)
      BY <1>1, <2>1 DEF Arrives, Good, IsHandshake
    <3>2. c.st = "CR_SRVR_HELLO" /\ m.type = "SH" => c.readSeq = Base(mode)
      <4>1. m.type = "SH" => Helloed(s.st)
        BY <1>1, DownIs
      <4>2. Helloed(s.st) => (c.sendCookie <=> mode.cookie # "none")
        BY <1>2 DEF Stages, Settled, Helloed
      <4>3. c.st = "CR_SRVR_HELLO" => c.readSeq = One(c.sendCookie)
        BY <1>3 DEF Numbers
      <4> QED
        BY <1>0, <4>1, <4>2, <4>3 DEF Base, One
    <3>3. Base(mode) \in Nat /\ One(mode.cert) = 0 /\ One(mode.ticket) \in Nat
      BY <1>0 DEF Base, One
    <3>4. CASE c.st = "CR_SRVR_HELLO" /\ m.type = "SH"
      BY <3>1, <3>2, <3>4 DEF Number
    <3>5. CASE c.st = "CR_CERT" /\ m.type = "CERT"
      BY <1>3, <3>1, <3>5 DEF Number, Numbers
    <3>6. CASE c.st = "CR_CERT_REQ" /\ m.type = "SHD"
      BY <1>3, <3>1, <3>3, <3>6 DEF Number, Numbers
    <3>7. CASE c.st = "CR_SESSION_TICKET" /\ m.type = "NST"
      BY <1>0, <1>3, <3>1, <3>3, <3>7 DEF Number, Numbers
    <3>8. CASE c.st = "CR_FINISHED" /\ m.type = "FIN"
      BY <1>0, <1>3, <3>1, <3>3, <3>8 DEF Number, Numbers
    <3> QED
      BY <2>1, <3>4, <3>5, <3>6, <3>7, <3>8
  <2> QED
    BY <2>1, <2>2, <2>3, <2>4 DEF IsNext, IsHandshake
<1> QED
  BY <1>4, <1>5

(* A record arrives at the client.                                         *)
LEMMA ClientHears ==
  ASSUME mode \in ModeSpace, Plain(mode), mode.cookie # "accept", NEW c, NEW s, Paired(c, s),
         c.failed = "no", ~Writing(c), Sound(mode, "client", c, s),
         Sound(mode, "server", s, c), NEW up, NEW down, Carried(c, s, up, down),
         Steady(mode, c, s, up, down), NEW m \in ToSet(down),
         NEW t, t = GetRecord("client", c, m)
  PROVE  \/ t.st = "OK"
         \/ /\ ClientDid(c, s, t, m) /\ Saw(c, t, m) /\ t.failed = "no"
            /\ t.wbio = c.wbio /\ \A u \in t.unprocessed : u.type = "FIN"
<1> DEFINE Stuck == ~(m.type = ClientDue(c)[1] /\ New(c, m)) /\ (~Helloed(s.st) => c.sendCookie)
           Result == /\ ClientDid(c, s, t, m) /\ Saw(c, t, m) /\ t.failed = "no"
                     /\ t.wbio = c.wbio /\ \A u \in t.unprocessed : u.type = "FIN"
<1>0. /\ c \in SSL /\ down \in Seq(Records) /\ c.readEpoch \in 0 .. 1 /\ c.bitmap \in Bitmaps
      /\ "client" \in Endpoints /\ Peer("client") = "server" /\ InInit(c)
      /\ ~Listening(c)
  BY LinkIs DEF Paired, Carried, Endpoints, Peer, InInit, Listening
<1>1. m \in Records /\ m.rseq \in Nat /\ m.epoch \in 0 .. 1 /\ Arrives(mode, "server", s, m)
  BY <1>0, InQueue DEF Carried, Records
<1>2. m.type # "ALERT" /\ \A u \in c.unprocessed : u.type = "FIN"
  BY DEF Steady, Quiet
<1>3. \/ Stuck
      \/ /\ m.epoch = c.readEpoch /\ Unseen(c.bitmap, m.rseq)
         /\ IsHandshake(m) => IsNext(c, m)
         /\ m.type = "CCS" => c.st = "CR_FINISHED"
  BY DueIsNext
<1>4. CASE m.epoch = c.readEpoch /\ Unseen(c.bitmap, m.rseq)
  <2> DEFINE x == [c EXCEPT !.bitmap = Mark(c.bitmap, m.rseq)]
  <2>1. /\ t = Process("client", x, m)
        /\ x \in SSL /\ AllBut(c, x, {"bitmap"}) /\ x.bitmap = Mark(c.bitmap, m.rseq)
        /\ Sound(mode, "client", x, s) /\ Ready(mode, "client", x, s, m) /\ ~Writing(x)
    BY <1>0, <1>1, <1>4, Admitted
  <2> HIDE DEF x
  <2>2. /\ x.st = c.st /\ x.failed = "no" /\ x.sendCookie = c.sendCookie /\ x.wseq = c.wseq
        /\ x.readEpoch = c.readEpoch /\ x.writeEpoch = c.writeEpoch /\ x.readSeq = c.readSeq
        /\ x.nextBitmap = c.nextBitmap /\ x.unprocessed = c.unprocessed /\ x.tries = c.tries
        /\ x.sent = c.sent /\ x.timer = c.timer /\ x.wbio = c.wbio /\ DOMAIN x = DOMAIN c
    BY <1>0, <2>1, FieldsOf DEF AllBut
  <2>3. ClientWent(x, t, m)
    BY <1>0, <1>1, <1>2, <2>1, <2>2, ClientTakes DEF InInit
  <2>4. ASSUME AllBut(x, t, {"buffered", "appQueue"}), IsHandshake(m) => ~IsNext(x, m),
               m.type = "CCS" => x.st # "CR_FINISHED"
        PROVE  Result
    <3>1. /\ t.st = x.st /\ t.failed = x.failed /\ t.sendCookie = x.sendCookie
          /\ t.wseq = x.wseq /\ t.readEpoch = x.readEpoch /\ t.writeEpoch = x.writeEpoch
          /\ t.bitmap = x.bitmap /\ t.nextBitmap = x.nextBitmap /\ t.tries = x.tries
          /\ t.unprocessed = x.unprocessed /\ t.sent = x.sent /\ t.timer = x.timer
          /\ t.wbio = x.wbio
      BY <2>1, <2>4, FieldsOf DEF AllBut
    <3>2. m.type = "APP" \/ IsHandshake(m) \/ m.type = "CCS"
      BY <1>2 DEF IsHandshake
    <3>3. Stuck
      <4>1. CASE m.type = "APP"
        <5>1. m.type # ClientDue(c)[1]
          BY <4>1 DEF ClientDue
        <5>2. ~Helloed(s.st) => m.type = "HVR"
          BY DEF Steady, Stages
        <5> QED
          BY <4>1, <5>1, <5>2
      <4>2. CASE m.type # "APP"
        <5>1. IsNext(x, m) <=> IsNext(c, m)
          BY <1>0, <2>2 DEF IsNext, Listening
        <5> QED
          BY <1>3, <2>2, <2>4, <3>2, <4>2, <5>1
      <4> QED
        BY <4>1, <4>2
    <3>4. Saw(c, t, m)
      BY <1>4, <2>1, <2>2, <3>1 DEF Saw
    <3> QED
      BY <1>2, <2>2, <3>1, <3>3, <3>4 DEF ClientDid
  <2>5. ASSUME x.st = "CR_FINISHED", m.type = "CCS", x.readEpoch = 0, t.readEpoch = 1,
               AllBut(x, t, {"ccs", "readEpoch", "peerFin", "bitmap", "nextBitmap"}),
               t.bitmap = x.nextBitmap, t.nextBitmap = NoRecords
        PROVE  Result
    <3>1. /\ t.st = x.st /\ t.failed = x.failed /\ t.sendCookie = x.sendCookie
          /\ t.wseq = x.wseq /\ t.writeEpoch = x.writeEpoch /\ t.tries = x.tries
          /\ t.unprocessed = x.unprocessed /\ t.sent = x.sent /\ t.wbio = x.wbio
      BY <2>1, <2>5, FieldsOf DEF AllBut
    <3>2. Saw(c, t, m)
      BY <1>4, <2>2, <2>5, <3>1 DEF Saw
    <3> QED
      BY <1>2, <2>2, <2>5, <3>1, <3>2 DEF ClientDid
  <2>6. ASSUME AllBut(x, t, Stepped),
               <<x.st, m.type, t.st>> \in
                 {<<"CR_SRVR_HELLO", "SH", "CR_CERT">>, <<"CR_CERT", "CERT", "CR_CERT_REQ">>,
                  <<"CR_CERT_REQ", "SHD", "CW_CERT">>,
                  <<"CR_SESSION_TICKET", "NST", "CR_FINISHED">>},
               IF x.st \in {"CR_CERT", "CR_CERT_REQ"} THEN Idle(t)
               ELSE t.sent = x.sent /\ t.timer = x.timer /\ t.tries = x.tries
        PROVE  Result
    <3>1. /\ t.failed = x.failed /\ t.sendCookie = x.sendCookie
          /\ t.wseq = x.wseq /\ t.readEpoch = x.readEpoch /\ t.writeEpoch = x.writeEpoch
          /\ t.bitmap = x.bitmap /\ t.nextBitmap = x.nextBitmap
          /\ t.unprocessed = x.unprocessed /\ t.wbio = x.wbio
      BY <2>1, <2>6, FieldsOf DEF AllBut, Stepped
    <3>2. Saw(c, t, m)
      BY <1>4, <2>1, <2>2, <3>1 DEF Saw
    <3> QED
      BY <1>2, <2>2, <2>6, <3>1, <3>2 DEF ClientDid
  <2>7. ASSUME AllBut(x, t, Stepped \cup {"sendCookie"}),
               x.st = "CR_SRVR_HELLO", m.type = "HVR", ~x.sendCookie, mode.cookie # "none",
               t.st = "CW_CLNT_HELLO", t.sendCookie, t.sent = <<>>, Idle(t)
        PROVE  Result
    <3>1. /\ t.failed = x.failed /\ t.wseq = x.wseq /\ t.readEpoch = x.readEpoch
          /\ t.bitmap = x.bitmap /\ t.nextBitmap = x.nextBitmap
          /\ t.unprocessed = x.unprocessed /\ t.wbio = x.wbio
      BY <2>1, <2>7, FieldsOf DEF AllBut, Stepped
    <3>2. Saw(c, t, m)
      BY <1>4, <2>1, <2>2, <3>1 DEF Saw
    <3> QED
      BY <1>2, <2>2, <2>7, <3>1, <3>2 DEF ClientDid
  <2> HIDE DEF Result
  <2> QED
    BY <2>3, <2>4, <2>5, <2>6, <2>7 DEF ClientWent, ClientTook, Result
<1>5. CASE /\ m.epoch # c.readEpoch /\ m.epoch = c.readEpoch + 1 /\ m.type \notin {"CCS", "APP"}
           /\ Unseen(c.nextBitmap, m.rseq)
  <2>1. /\ t \in SSL /\ AllBut(c, t, {"unprocessed", "nextBitmap"})
        /\ t.unprocessed = c.unprocessed \cup {m}
        /\ t.nextBitmap = Mark(c.nextBitmap, m.rseq)
    <3>1. /\ GetRecord("client", c, m) \in SSL
          /\ AllBut(c, GetRecord("client", c, m), {"unprocessed", "nextBitmap"})
          /\ GetRecord("client", c, m).unprocessed = c.unprocessed \cup {m}
          /\ GetRecord("client", c, m).nextBitmap = Mark(c.nextBitmap, m.rseq)
      <4>1. /\ m.epoch = c.readEpoch + 1 /\ m.type \notin {"CCS", "APP"} /\ InInit(c)
            /\ ~Listening(c) /\ Unseen(c.nextBitmap, m.rseq) /\ c \in SSL /\ m \in Records
        BY <1>0, <1>1, <1>5
      <4> HIDE DEF Stuck, Result
      <4> QED
        BY <4>1, KeptIs
    <3> QED
      BY <3>1
  <2>2. /\ t.st = c.st /\ t.failed = c.failed /\ t.sendCookie = c.sendCookie
        /\ t.wseq = c.wseq /\ t.readEpoch = c.readEpoch /\ t.writeEpoch = c.writeEpoch
        /\ t.bitmap = c.bitmap /\ t.tries = c.tries /\ t.sent = c.sent /\ t.timer = c.timer
        /\ t.wbio = c.wbio
    BY <1>0, <2>1, FieldsOf DEF AllBut
  <2>3. m.epoch = 1 /\ c.readEpoch = 0
    BY <1>0, <1>1, <1>5
  <2>4. m.type = "FIN"
    BY <1>1, <1>2, <1>5, <2>3, DownIs
  <2>5. Saw(c, t, m)
    BY <1>5, <2>1, <2>2, <2>3 DEF Saw
  <2> QED
    BY <1>2, <1>3, <1>5, <2>1, <2>2, <2>4, <2>5 DEF ClientDid
<1>6. CASE t = c /\ ~(m.epoch = c.readEpoch /\ Unseen(c.bitmap, m.rseq))
  BY <1>2, <1>3, <1>6 DEF ClientDid, Saw
<1> QED
  BY <1>0, <1>4, <1>5, <1>6 DEF GetRecord

(* The client takes a message that it kept for its turn.                   *)
LEMMA ClientUnbuffers ==
  ASSUME mode \in ModeSpace, Plain(mode), NEW c, NEW s, Paired(c, s), c.failed = "no",
         ~Writing(c), Sound(mode, "client", c, s), NEW up, NEW down,
         Steady(mode, c, s, up, down), NEW b \in TurnOf(c),
         NEW t, t = Consume([c EXCEPT !.buffered = c.buffered \ {b}], b)
  PROVE  \/ t.st = "OK"
         \/ /\ ClientDid(c, s, t, b) /\ t.failed = "no" /\ t.wbio = c.wbio
            /\ t.readEpoch = c.readEpoch /\ t.bitmap = c.bitmap /\ t.nextBitmap = c.nextBitmap
            /\ t.unprocessed = c.unprocessed
<1> DEFINE x == [c EXCEPT !.buffered = c.buffered \ {b}]
           Result == /\ ClientDid(c, s, t, b) /\ t.failed = "no" /\ t.wbio = c.wbio
                     /\ t.readEpoch = c.readEpoch /\ t.bitmap = c.bitmap
                     /\ t.nextBitmap = c.nextBitmap /\ t.unprocessed = c.unprocessed
<1>0. /\ c \in SSL /\ "client" \in Endpoints /\ Peer("client") = "server" /\ InInit(c)
      /\ b \in c.buffered /\ b.seq = c.readSeq
  BY DEF Paired, Endpoints, Peer, InInit, TurnOf
<1>1. /\ b \in Records /\ Arrives(mode, "server", s, b) /\ IsHandshake(b)
      /\ b.epoch = 1 => c.readEpoch = 1
  BY <1>0 DEF Sound, Core, Peers, SSL
<1>2. Sound(mode, "client", x, s) /\ AllBut(c, x, {"buffered"}) /\ x \in SSL
  BY <1>0, Dequeued DEF Sound, Core
<1>3. t = Consume(x, b)
  OBVIOUS
<1> HIDE DEF x
<1>4. /\ x.st = c.st /\ x.failed = "no" /\ x.sendCookie = c.sendCookie /\ x.wseq = c.wseq
      /\ x.readEpoch = c.readEpoch /\ x.writeEpoch = c.writeEpoch /\ x.readSeq = c.readSeq
      /\ x.bitmap = c.bitmap /\ x.nextBitmap = c.nextBitmap /\ x.unprocessed = c.unprocessed
      /\ x.tries = c.tries /\ x.sent = c.sent /\ x.timer = c.timer /\ x.wbio = c.wbio
  BY <1>0, <1>2, FieldsOf DEF AllBut
<1>5. Expected(mode, "client", x, b)
  <2>1. /\ InInit(x) /\ ~Writing(x) /\ IsNext(x, b) /\ Good(mode, "server", b)
    BY <1>0, <1>1, <1>4 DEF InInit, Writing, IsNext, Arrives
  <2> QED
    BY <1>0, <1>1, <1>2, <1>4, <2>1, NextIsExpected
<1>6. ClientTook(x, t, b)
  BY <1>1, <1>2, <1>3, <1>4, <1>5, ClientConsumes
<1>7. ASSUME AllBut(x, t, Stepped),
             <<x.st, b.type, t.st>> \in
               {<<"CR_SRVR_HELLO", "SH", "CR_CERT">>, <<"CR_CERT", "CERT", "CR_CERT_REQ">>,
                <<"CR_CERT_REQ", "SHD", "CW_CERT">>,
                <<"CR_SESSION_TICKET", "NST", "CR_FINISHED">>},
             IF x.st \in {"CR_CERT", "CR_CERT_REQ"} THEN Idle(t)
             ELSE t.sent = x.sent /\ t.timer = x.timer /\ t.tries = x.tries
      PROVE  Result
  <2>1. /\ t.failed = x.failed /\ t.sendCookie = x.sendCookie
        /\ t.wseq = x.wseq /\ t.readEpoch = x.readEpoch /\ t.writeEpoch = x.writeEpoch
        /\ t.bitmap = x.bitmap /\ t.nextBitmap = x.nextBitmap
        /\ t.unprocessed = x.unprocessed /\ t.wbio = x.wbio
    BY <1>2, <1>7, FieldsOf DEF AllBut, Stepped
  <2> QED
    BY <1>4, <1>7, <2>1 DEF ClientDid
<1>8. ASSUME AllBut(x, t, Stepped \cup {"sendCookie"}),
             x.st = "CR_SRVR_HELLO", b.type = "HVR", ~x.sendCookie, mode.cookie # "none",
             t.st = "CW_CLNT_HELLO", t.sendCookie, t.sent = <<>>, Idle(t)
      PROVE  Result
  <2>1. /\ t.failed = x.failed /\ t.wseq = x.wseq /\ t.readEpoch = x.readEpoch
        /\ t.bitmap = x.bitmap /\ t.nextBitmap = x.nextBitmap
        /\ t.unprocessed = x.unprocessed /\ t.wbio = x.wbio
    BY <1>2, <1>8, FieldsOf DEF AllBut, Stepped
  <2> QED
    BY <1>4, <1>8, <2>1 DEF ClientDid
<1> HIDE DEF Result
<1> QED
  BY <1>6, <1>7, <1>8 DEF ClientTook, Result

(* The client takes the Finished that it kept: that is the end.            *)
LEMMA ClientUnkeeps ==
  ASSUME mode \in ModeSpace, Plain(mode), NEW c, NEW s, Paired(c, s), c.failed = "no",
         ~Writing(c), Sound(mode, "client", c, s), c.readEpoch = 1,
         NEW r \in c.unprocessed, r.type = "FIN",
         NEW t, t = Process("client", [c EXCEPT !.unprocessed = c.unprocessed \ {r}], r)
  PROVE  t.st = "OK"
<1> DEFINE x == [c EXCEPT !.unprocessed = c.unprocessed \ {r}]
<1>0. /\ c \in SSL /\ "client" \in Endpoints /\ Peer("client") = "server" /\ InInit(c)
      /\ c.st = "CR_FINISHED" /\ mode.cert = FALSE /\ mode.hit = FALSE
      /\ mode.ticket \in BOOLEAN
  BY DEF Paired, Endpoints, Peer, InInit, Plain, ModeSpace
<1>1. r \in Records /\ Arrives(mode, "server", s, r) /\ IsHandshake(r)
  BY <1>0 DEF Sound, Core, Peers, SSL, IsHandshake
<1>2. Sound(mode, "client", x, s) /\ AllBut(c, x, {"unprocessed"}) /\ x \in SSL
  BY <1>0, Dequeued DEF Sound, Core
<1>3. t = Process("client", x, r)
  OBVIOUS
<1> HIDE DEF x
<1>4. x.st = c.st /\ x.failed = "no" /\ x.readEpoch = 1 /\ x.readSeq = c.readSeq
  BY <1>0, <1>2, FieldsOf DEF AllBut
<1>5. ClientWent(x, t, r)
  <2>1. Ready(mode, "client", x, s, r)
    BY <1>0, <1>1, <1>4 DEF Ready
  <2> QED
    BY <1>0, <1>1, <1>2, <1>3, <1>4, <2>1, ClientTakes DEF InInit, Writing
<1>6. IsNext(x, r)
  <2>1. r.seq = Number(mode, "server", "FIN")
    BY <1>1 DEF Arrives, Good
  <2>2. Numbers(mode, "client", c)
    BY DEF Sound, Placed
  <2>3. Base(mode) \in Nat /\ One(mode.cert) = 0 /\ One(mode.ticket) \in Nat
    BY <1>0 DEF Base, One
  <2> QED
    BY <1>0, <1>4, <2>1, <2>2, <2>3 DEF Number, Numbers, IsNext
<1> QED
  BY <1>1, <1>4, <1>5, <1>6 DEF ClientWent, ClientTook

------------------------------------------------------------------------------
(* What a record makes of the server.                                      *)

\* The server x takes the message m.
ServerTook(x, u, m) ==
  \/ /\ x.st = "SR_CLNT_HELLO" /\ AllBut(x, u, Stepped \cup {"nextSeq", "wseq"}) /\ Idle(u)
     /\ u.wseq[0] = IF mode.cookie = "listen" THEN m.rseq ELSE x.wseq[0]
     /\ \/ u.st = "SW_HELLO_VERIFY" /\ m.type = "CH" /\ mode.cookie = "listen"
        \/ u.st = "SW_SRVR_HELLO" /\ m.type = IF mode.cookie = "none" THEN "CH" ELSE "CHC"
  \/ /\ x.st = "SR_KEY_EXCH" /\ m.type = "CKE" /\ u.st = "SR_CERT_VRFY"
     /\ AllBut(x, u, Stepped) /\ u.sent = x.sent /\ u.timer = x.timer /\ u.tries = x.tries
  \/ /\ x.st = "SR_CERT_VRFY" /\ m.type = "FIN" /\ u.st = "SW_CHANGE"
     /\ AllBut(x, u, Stepped \cup {"nextSeq", "ccs"}) /\ Idle(u)

\* The record m reaches the server x.
ServerWent(x, u, m) ==
  \/ ServerTook(x, u, m)
  \/ /\ AllBut(x, u, {"buffered", "appQueue"})
     /\ IsHandshake(m) => ~IsNext(x, m)
     /\ ~IsHandshake(m) \/ m.seq <= x.readSeq => u = x
     /\ m.type = "CCS" => x.st # "SR_CERT_VRFY"
  \/ /\ x.st = "SR_CERT_VRFY" /\ m.type = "CCS" /\ x.readEpoch = 0 /\ u.readEpoch = 1
     /\ AllBut(x, u, {"ccs", "readEpoch", "peerFin", "bitmap", "nextBitmap"})
     /\ u.bitmap = x.nextBitmap /\ u.nextBitmap = NoRecords
  \/ x.st = "OK" /\ m.type = "FIN" /\ u = CheckedRetransmit(x)

(* dtls1_get_message, in the server.                                       *)
LEMMA ServerConsumes ==
  ASSUME mode \in ModeSpace, Plain(mode), mode.cookie # "accept", NEW x, NEW p,
         Sound(mode, "server", x, p), x.failed = "no", NEW m \in Records,
         Arrives(mode, "client", p, m), Expected(mode, "server", x, m),
         m.epoch = 1 => x.readEpoch = 1
  PROVE  ServerTook(x, Consume(x, m), m)
<1>0. /\ x \in SSL /\ "server" \in Endpoints /\ mode.hit = FALSE /\ mode.cert = FALSE
      /\ x.st \in ServerStates(mode) /\ Peer("server") = "client"
      /\ mode.cookie \in {"none", "listen"}
  BY DEF Sound, Core, StatesOf, Plain, Endpoints, Peer, ModeSpace
<1>1. \/ x.st = "SR_CLNT_HELLO" /\ m.type = "CH"
      \/ x.st = "SR_CLNT_HELLO" /\ m.type = "CHC" /\ mode.cookie # "none"
      \/ x.st = "SR_KEY_EXCH" /\ m.type = "CKE"
      \/ x.st = "SR_CERT_VRFY" /\ m.type = "FIN"
  BY <1>0 DEF Expected, ServerStates
<1>2. CASE x.st = "SR_CLNT_HELLO"
  <2> DEFINE t == Taken(x, m)
             q == [t.wseq EXCEPT ![0] = m.rseq]
             v == IF Listening(t) THEN [t EXCEPT !.wseq = q] ELSE t
             w == StopTimer(v)
             u == GetClientHello(t, m)
  <2>1. Consume(x, m) = u
    <3>1. ~\E mv \in Moves : mv[1] = x.st /\ mv[2] = m.type
      BY <1>2 DEF Moves
    <3>2. ~CcsOk(x)
      BY <1>2 DEF CcsOk
    <3> QED
      BY <1>1, <1>2, <3>1, <3>2 DEF Consume, Taken
  <2>2. t \in SSL /\ AllBut(x, t, {"transcript", "readSeq"})
    BY <1>0, TakenIs
  <2> HIDE DEF t
  <2>3. t.st = x.st /\ t.wseq = x.wseq
    BY <1>0, <2>2, FieldsOf DEF AllBut
  <2>4. Listening(t) <=> mode.cookie = "listen"
    BY <1>2, <2>3 DEF Listening
  <2>5. m.rseq \in Nat
    BY DEF Records
  <2>6. q \in [0 .. 1 -> Nat] /\ q[0] = m.rseq
    BY <2>2, <2>5 DEF SSL
  <2> HIDE DEF q
  <2>7. /\ v \in SSL /\ AllBut(t, v, {"wseq"})
        /\ v.wseq[0] = IF mode.cookie = "listen" THEN m.rseq ELSE x.wseq[0]
    <3>1. CASE mode.cookie = "listen"
      <4>1. v = [t EXCEPT !.wseq = q]
        BY <2>4, <3>1
      <4> HIDE DEF v
      <4> QED
        BY <2>2, <2>6, <3>1, <4>1 DEF SSL, AllBut
    <3>2. CASE mode.cookie # "listen"
      BY <2>2, <2>3, <2>4, <3>2 DEF AllBut
    <3> QED
      BY <3>1, <3>2
  <2>8. u = IF mode.cookie # "none" /\ m.type = "CH" THEN [w EXCEPT !.st = "SW_HELLO_VERIFY"]
            ELSE IF mode.cookie = "listen"
                 THEN [w EXCEPT !.st = "SW_SRVR_HELLO", !.readSeq = 2, !.nextSeq = 1]
                 ELSE [w EXCEPT !.st = "SW_SRVR_HELLO"]
    BY DEF GetClientHello, w, v, q
  <2> HIDE DEF v
  <2>9. /\ w \in SSL /\ AllBut(v, w, {"timer", "tries", "sent"}) /\ ~w.timer /\ w.tries = 0
    BY <2>7, StopTimerIs
  <2> HIDE DEF w, u
  <2>10. /\ AllBut(w, u, {"st", "readSeq", "nextSeq"})
         /\ \/ u.st = "SW_HELLO_VERIFY" /\ m.type = "CH" /\ mode.cookie = "listen"
            \/ u.st = "SW_SRVR_HELLO" /\ m.type = IF mode.cookie = "none" THEN "CH" ELSE "CHC"
    <3>1. CASE mode.cookie # "none" /\ m.type = "CH"
      BY <1>0, <2>8, <2>9, <3>1 DEF SSL, AllBut
    <3>2. CASE ~(mode.cookie # "none" /\ m.type = "CH") /\ mode.cookie = "listen"
      BY <1>1, <1>2, <2>8, <2>9, <3>2 DEF SSL, AllBut
    <3>3. CASE ~(mode.cookie # "none" /\ m.type = "CH") /\ mode.cookie # "listen"
      BY <1>0, <1>1, <1>2, <2>8, <2>9, <3>3 DEF SSL, AllBut
    <3> QED
      BY <3>1, <3>2, <3>3
  <2>11. AllBut(x, u, Stepped \cup {"nextSeq", "wseq"})
    BY <1>0, <2>2, <2>7, <2>9, <2>10, FieldsOf DEF AllBut, Stepped
  <2>12. ~u.timer /\ u.tries = 0 /\ u.wseq = v.wseq
    BY <2>7, <2>9, <2>10, FieldsOf DEF AllBut
  <2> QED
    BY <1>2, <2>1, <2>7, <2>10, <2>11, <2>12 DEF ServerTook, Idle
<1>3. CASE x.st = "SR_KEY_EXCH"
  <2> DEFINE stops == StopsTimer(x, m)
             u == Move(x, m, "SR_CERT_VRFY", stops)
  <2>1. <<x.st, m.type, "SR_CERT_VRFY">> \in Moves /\ "SR_CERT_VRFY" \in States
    BY <1>1, <1>3 DEF Moves, States
  <2>2. Consume(x, m) = u
    BY <2>1, MoveTaken
  <2>3. stops = FALSE
    BY <1>3 DEF StopsTimer
  <2> HIDE DEF stops
  <2>4. /\ AllBut(x, u, Stepped) /\ u.st = "SR_CERT_VRFY"
        /\ u.sent = x.sent /\ u.timer = x.timer /\ u.tries = x.tries
    BY <1>0, <2>1, <2>3, MoveIs DEF Stepped
  <2> HIDE DEF u
  <2> QED
    BY <1>1, <1>3, <2>2, <2>4 DEF ServerTook
<1>4. CASE x.st = "SR_CERT_VRFY"
  <2> DEFINE t == Taken(x, m)
             v == [t EXCEPT !.ccs = FALSE]
             w == StopTimer(v)
             u == ToState(w, "SW_CHANGE")
  <2>1. /\ m.type = "FIN" /\ IsHandshake(m) /\ m.digest = FinDigest(mode, "client")
        /\ x.readEpoch = 1
    BY <1>1, <1>4 DEF IsHandshake, Arrives, Good
  <2>2. Consume(x, m) = Finish(t, m)
    <3>1. ~\E mv \in Moves : mv[1] = x.st /\ mv[2] = m.type
      BY <1>4, <2>1 DEF Moves
    <3> QED
      BY <1>0, <1>4, <2>1, <3>1 DEF Consume, Taken, CcsOk
  <2>3. Sound(mode, "server", Consume(x, m), p)
    BY <1>0, <2>1, FinishedSound
  <2>4. t \in SSL /\ AllBut(x, t, {"transcript", "readSeq"})
    BY <1>0, TakenIs
  <2> HIDE DEF t
  <2>5. t.st = x.st
    BY <1>0, <2>4, FieldsOf DEF AllBut
  <2>6. CASE Finish(t, m) \in {Fail(t, "GOT_A_FIN_BEFORE_A_CCS"), Fail(t, "DIGEST_CHECK_FAILED")}
    <3>1. /\ Finish(t, m).st = t.st
          /\ Finish(t, m).failed \in {"GOT_A_FIN_BEFORE_A_CCS", "DIGEST_CHECK_FAILED"}
      BY <2>4, <2>6, FailIs
    <3>2. Survives(Finish(t, m))
      BY <2>2, <2>3, SoundSurvives
    <3> QED
      BY <1>4, <2>5, <3>1, <3>2 DEF Survives
  <2>7. CASE Finish(t, m) = u
    <3>1. v \in SSL /\ AllBut(t, v, {"ccs"})
      BY <2>4 DEF SSL, AllBut
    <3> HIDE DEF v
    <3>2. w \in SSL /\ AllBut(v, w, {"timer", "tries", "sent"}) /\ ~w.timer /\ w.tries = 0
      BY <3>1, StopTimerIs
    <3> HIDE DEF w
    <3>3. AllBut(w, u, {"st", "readSeq", "nextSeq"}) /\ u.st = "SW_CHANGE"
      <4>1. "SW_CHANGE" \in States
        BY DEF States
      <4> QED
        BY <3>2, <4>1, ToStateIs
    <3> HIDE DEF u
    <3>4. AllBut(x, u, Stepped \cup {"nextSeq", "ccs"}) /\ ~u.timer /\ u.tries = 0
      BY <1>0, <2>4, <3>1, <3>2, <3>3, FieldsOf DEF AllBut, Stepped
    <3> QED
      BY <1>4, <2>1, <2>2, <2>7, <3>3, <3>4 DEF ServerTook, Idle
  <2> QED
    BY <1>0, <1>4, <2>5, <2>6, <2>7 DEF Finish
<1> QED
  BY <1>1, <1>2, <1>3, <1>4

(* dtls1_read_bytes, in the server.                                        *)
LEMMA ServerTakes ==
  ASSUME mode \in ModeSpace, Plain(mode), mode.cookie # "accept", NEW x, NEW p,
         Sound(mode, "server", x, p),
         x.failed = "no", ~Writing(x), NEW m \in Records, m.type \notin {"APP", "ALERT"},
         Ready(mode, "server", x, p, m), x.st = "OK" /\ IsHandshake(m) => m.type = "FIN"
  PROVE  ServerWent(x, Process("server", x, m), m)
<1> DEFINE u == Process("server", x, m)
<1>0. /\ x \in SSL /\ "server" \in Endpoints /\ ~mode.hit /\ ~mode.cert
      /\ x.st \in ServerStates(mode) /\ Peer("server") = "client"
      /\ Epochs(mode, "server", x) /\ m.type \in Types
      /\ Arrives(mode, "client", p, m)
  BY DEF Sound, Core, StatesOf, Plain, Endpoints, Peer, Records, Ready
<1>2. Survives(u)
  <2>1. Sound(mode, "server", u, p)
    BY <1>0, ProcessSound
  <2> QED
    BY <2>1, SoundSurvives
<1>3. CASE m.type = "CCS"
  <2>1. x.readEpoch = 0 /\ ~x.ccs /\ x.st # "OK" /\ ~IsHandshake(m)
    BY <1>0, <1>3 DEF Ready, Epochs, ReadFin, IsHandshake
  <2>2. CASE Listening(x)
    <3>1. u = x /\ x.st # "SR_CERT_VRFY"
      BY <2>1, <2>2 DEF Process, Listening
    <3> QED
      BY <1>0, <2>1, <3>1, PutAside DEF ServerWent
  <2>3. CASE ~Listening(x)
    <3>1. u = ReadCcs(x)
      BY <1>3, <2>1, <2>3 DEF Process
    <3>2. CASE ~CipherChosen(x)
      <4>1. u = Fail(x, "CCS_RECEIVED_EARLY")
        BY <3>1, <3>2 DEF ReadCcs
      <4> QED
        BY <1>0, <1>2, <2>1, <4>1, FailIs DEF Survives
    <3>3. CASE CipherChosen(x) /\ ~CcsOk(x)
      <4>1. u = x /\ x.st # "SR_CERT_VRFY"
        BY <3>1, <3>3 DEF ReadCcs, CcsOk
      <4> QED
        BY <1>0, <2>1, <4>1, PutAside DEF ServerWent
    <3>4. CASE CipherChosen(x) /\ CcsOk(x)
      <4>1. x.st = "SR_CERT_VRFY"
        BY <1>0, <3>4 DEF CcsOk, ServerStates
      <4> QED
        BY <1>0, <1>3, <2>1, <3>1, <3>4, <4>1, CcsIs DEF ServerWent
    <3> QED
      BY <3>2, <3>3, <3>4
  <2> QED
    BY <2>2, <2>3
<1>4. CASE IsHandshake(m) /\ x.st = "OK"
  <2>1. u = CheckedRetransmit(x)
    BY <1>4 DEF Process, IsHandshake, InInit, UnexpectedHandshake
  <2> QED
    BY <1>4, <2>1 DEF ServerWent
<1>5. CASE IsHandshake(m) /\ x.st # "OK"
  <2>1. u = GetFragment(x, m)
    BY <1>5 DEF Process, IsHandshake, InInit
  <2>2. CASE ~IsNext(x, m)
    <3>1. u = OutOfSeq(x, m)
      BY <2>1, <2>2 DEF GetFragment, IsNext
    <3> QED
      BY <1>0, <1>5, <2>2, <3>1, PutAside DEF ServerWent, IsHandshake
  <2>3. CASE IsNext(x, m)
    <3>1. u = Consume(x, m)
      BY <2>1, <2>3 DEF GetFragment, IsNext
    <3>2. m.epoch = 1 => x.readEpoch = 1
      BY <1>5 DEF Ready
    <3>3. Expected(mode, "server", x, m)
      BY <1>0, <1>5, <2>3, NextIsExpected DEF Arrives, InInit
    <3> QED
      BY <1>0, <3>1, <3>2, <3>3, ServerConsumes DEF ServerWent
  <2> QED
    BY <2>2, <2>3
<1> QED
  BY <1>3, <1>4, <1>5 DEF IsHandshake

------------------------------------------------------------------------------
(* The server reads, once it has answered the ClientHello.                 *)

\* What became of the server s, which is t after the record m.
ServerDid(c, s, t, m) ==
  /\ t.wseq = s.wseq
  /\ \/ /\ t.st = s.st /\ t.readEpoch = s.readEpoch
        /\ t.tries = s.tries /\ t.sent = s.sent /\ t.timer = s.timer
        /\ ~(m.type = ServerDue(s)[1] /\ New(s, m))
     \/ /\ s.st = "SR_KEY_EXCH" /\ m.type = "CKE" /\ t.st = "SR_CERT_VRFY"
        /\ c.writeEpoch = 1 /\ t.readEpoch = 0
        /\ t.tries = s.tries /\ t.sent = s.sent
     \/ /\ s.st = "SR_CERT_VRFY" /\ t.st = s.st /\ s.readEpoch = 0 /\ t.readEpoch = 1
        /\ t.tries = s.tries /\ t.sent = s.sent
     \/ /\ s.st = "SR_CERT_VRFY" /\ m.type = "FIN" /\ t.st = "SW_CHANGE" /\ Idle(t)
        /\ m.rseq \in 0 .. c.tries /\ ~Unseen(t.bitmap, m.rseq)
        /\ \A u \in t.unprocessed : u.rseq # m.rseq

\* The server t has nothing to complain about.
Untroubled(t) ==
  /\ t.failed = "no" /\ t.buffered = {} /\ t.appQueue = {}
  /\ \A u \in t.unprocessed : u.type = "FIN"

(* Whatever it was, the handshake goes on.                                 *)
LEMMA ServerGoesOn ==
  ASSUME mode \in ModeSpace, Plain(mode), NEW c, NEW s, NEW t, Paired(c, s), Paired(c, t),
         NEW up, NEW down, Carried(c, s, up, down), NEW f, Tolerates(mode, c, s, up, down, f),
         NEW q2, NEW m, NEW f2, Reads(s, t, up, q2, m, f, f2), ~Writing(s), Helloed(s.st),
         ServerDid(c, s, t, m), Untroubled(t)
  PROVE  Tolerates(mode, c, t, q2, down, f2)
<1> DEFINE K(k) == /\ t.st = "SW_CHANGE" \/ Suffix(ServerDue(t), ServerDue(s), k)
                   /\ k = 0 => ~(m.type = ServerDue(s)[1] /\ New(s, m))
           Same == t.sent = s.sent /\ t.tries = s.tries
           Pays == Paid(c, t, ToSet(q2))
           Result == /\ \E k : K(k)
                     /\ Same \/ Idle(t)
                     /\ t.st \in {"SR_KEY_EXCH", "SR_CERT_VRFY"} =>
                          Same /\ s.st \in {"SR_KEY_EXCH", "SR_CERT_VRFY"}
                     /\ t.st = "OK" => s.st = "OK" /\ Same /\ t.timer = s.timer
                     /\ t.st = "SW_CHANGE" => Idle(t)
                     /\ t.st = "SR_CERT_VRFY" => c.writeEpoch = 1
                     /\ InInit(s) <=> InInit(t)
                     /\ Helloed(t.st) /\ Pays
<1>0. /\ up \in Seq(Records) /\ s \in SSL /\ t \in SSL /\ s.tries \in Nat /\ t.tries \in Nat
      /\ c.tries \in Nat /\ s.st \in {"SR_KEY_EXCH", "SR_CERT_VRFY", "OK"}
      /\ s.readEpoch \in 0 .. 1 /\ t.readEpoch \in 0 .. 1
  BY LinkIs DEF Paired, Carried, Writing, Helloed
<1>1. /\ Steady(mode, c, s, up, down) /\ Budget(c, s, up, down, f)
      /\ Paid(c, s, ToSet(up)) /\ Stages(mode, c, s, ToSet(up), ToSet(down))
  BY DEF Tolerates, Budget, Steady
<1>2. ASSUME t.st = s.st, t.readEpoch = s.readEpoch, t.tries = s.tries, t.sent = s.sent,
             t.timer = s.timer, ~(m.type = ServerDue(s)[1] /\ New(s, m))
      PROVE  Result
  <2>1. ServerDue(t) = ServerDue(s)
    BY <1>2 DEF ServerDue
  <2>2. Suffix(ServerDue(t), ServerDue(s), 0)
    <3> DEFINE d == ServerDue(s)
    <3>1. ServerDue(t) = d /\ Len(d) \in Nat
      BY <2>1, DueIs, LenProperties
    <3> HIDE DEF d
    <3>2. Suffix(d, d, 0)
      BY <3>1 DEF Suffix
    <3> QED
      BY <3>1, <3>2 DEF d
  <2>3. K(0)
    BY <1>2, <2>2
  <2>4. Pays
    <3>1. CASE s.st = "OK"
      <4>1. s.readEpoch = 1 /\ ReadFin(s.st)
        BY <3>1 DEF Paired, ReadFin
      <4> QED
        BY <1>0, <1>1, <1>2, <4>1, ReadsPaid
    <3>2. CASE s.st # "OK"
      BY <1>0, <1>2, <3>2 DEF Paid, ReadFin
    <3> QED
      BY <3>1, <3>2
  <2> HIDE DEF K, Pays
  <2> QED
    BY <1>0, <1>1, <1>2, <2>3, <2>4 DEF Stages, InInit
<1>3. ASSUME s.st = "SR_KEY_EXCH", t.st = "SR_CERT_VRFY", c.writeEpoch = 1, t.readEpoch = 0,
             Same
      PROVE  Result
  <2>1. K(1)
    <3>1. 1 # 0 /\ Suffix(ServerDue(t), ServerDue(s), 1)
      BY <1>3, Tails DEF ServerDue
    <3> QED
      BY <3>1
  <2>2. Pays
    BY <1>3 DEF Paid, ReadFin
  <2> HIDE DEF K, Pays
  <2> QED
    BY <1>3, <2>1, <2>2 DEF InInit, Helloed
<1>4. ASSUME s.st = "SR_CERT_VRFY", t.st = s.st, s.readEpoch = 0, t.readEpoch = 1, Same
      PROVE  Result
  <2>1. K(1)
    <3>1. 1 # 0 /\ Suffix(ServerDue(t), ServerDue(s), 1)
      BY <1>4, Tails DEF ServerDue
    <3> QED
      BY <3>1
  <2>2. Pays
    BY <1>4 DEF Paid, ReadFin
  <2> HIDE DEF K, Pays
  <2> QED
    BY <1>1, <1>4, <2>1, <2>2 DEF InInit, Helloed, Stages
<1>5. ASSUME s.st = "SR_CERT_VRFY", t.st = "SW_CHANGE", Idle(t),
             m.rseq \in 0 .. c.tries, ~Unseen(t.bitmap, m.rseq),
             \A u \in t.unprocessed : u.rseq # m.rseq
      PROVE  Result
  <2>1. K(1)
    BY <1>5
  <2>2. Pays
    <3> DEFINE G == Gone(c, t, ToSet(q2))
    <3>1. m.rseq \in G
      BY <1>5 DEF Gone
    <3>2. G \subseteq 0 .. c.tries /\ IsFiniteSet(0 .. c.tries)
      <4>1. IsFiniteSet(0 .. c.tries)
        BY <1>0, FS_Interval
      <4> QED
        BY <4>1 DEF Gone
    <3> HIDE DEF G
    <3>3. IsFiniteSet(G) /\ Cardinality(G) \in Nat /\ Cardinality(G) # 0
      BY <3>1, <3>2, FS_Subset, FS_CardinalityType, FS_EmptySet
    <3>4. t.tries = 0
      BY <1>5 DEF Idle
    <3> QED
      BY <3>3, <3>4 DEF Paid, G
  <2> HIDE DEF K, Pays
  <2> QED
    BY <1>5, <2>1, <2>2 DEF InInit, Helloed
<1> HIDE DEF Result
<1>6. Result
  BY <1>2, <1>3, <1>4, <1>5 DEF ServerDid
<1>7. /\ \E k : K(k)
      /\ t.st \in {"SR_KEY_EXCH", "SR_CERT_VRFY"} =>
           t.sent = s.sent /\ s.st \in {"SR_KEY_EXCH", "SR_CERT_VRFY"}
      /\ t.st = "OK" => s.st = "OK" /\ t.sent = s.sent /\ t.timer = s.timer
      /\ t.st = "SW_CHANGE" => Idle(t)
      /\ t.st = "SR_CERT_VRFY" => c.writeEpoch = 1
      /\ InInit(s) <=> InInit(t)
      /\ Helloed(t.st) /\ Pays /\ (Same \/ Idle(t))
  <2> HIDE DEF K, Pays
  <2> QED
    BY <1>6 DEF Result
<1>8. t.tries <= s.tries /\ t.wseq = s.wseq
  BY <1>0, <1>7 DEF ServerDid, Idle
<1> HIDE DEF K
<1>9. PICK k : K(k)
  BY <1>7
<1>10. t.st = "SW_CHANGE" \/ Suffix(ServerDue(t), ServerDue(s), k)
  BY <1>9 DEF K
<1>11. k = 0 => ~(m.type = ServerDue(s)[1] /\ New(s, m))
  BY <1>9 DEF K
<1>12. Steady(mode, c, t, q2, down)
  BY <1>1, <1>7, <1>8, ServerReads DEF Untroubled
<1>13. Budget(c, t, q2, down, f2)
  BY <1>1, <1>7, <1>8, <1>10, <1>11, ServerReadsPaid
<1> QED
  BY <1>12, <1>13 DEF Tolerates

(* What the server waits for next it takes when it comes.                  *)
LEMMA ServerDueIsNext ==
  ASSUME mode \in ModeSpace, Plain(mode), NEW c, NEW s, Paired(c, s), s.failed = "no",
         ~Writing(s), Helloed(s.st), Sound(mode, "server", s, c),
         NEW up, NEW down, Carried(c, s, up, down), NEW m \in ToSet(up),
         m.type = ServerDue(s)[1], New(s, m)
  PROVE  /\ m.epoch = s.readEpoch /\ Unseen(s.bitmap, m.rseq)
         /\ IsHandshake(m) /\ InInit(s) => IsNext(s, m)
         /\ m.type = "CCS" => s.st = "SR_CERT_VRFY"
<1>0. /\ s \in SSL /\ up \in Seq(Records) /\ s.readEpoch \in 0 .. 1 /\ s.bitmap \in Bitmaps
      /\ mode.cert = FALSE /\ mode.hit = FALSE
      /\ s.st \in {"SR_KEY_EXCH", "SR_CERT_VRFY", "OK"}
  BY LinkIs DEF Paired, Carried, Plain, Writing, Helloed
<1>1. m \in Records /\ m.rseq \in Nat /\ Arrives(mode, "client", c, m)
  BY <1>0, InQueue DEF Carried, Records
<1>2. \/ s.st = "SR_KEY_EXCH" /\ s.readEpoch = 0 /\ m.type = "CKE"
      \/ s.st = "SR_CERT_VRFY" /\ s.readEpoch = 0 /\ m.type = "CCS"
      \/ s.st = "SR_CERT_VRFY" /\ s.readEpoch = 1 /\ m.type = "FIN"
      \/ s.st = "OK" /\ s.readEpoch = 1 /\ m.type = "FIN"
  BY <1>0 DEF ServerDue, Paired
<1>3. m.epoch = s.readEpoch
  BY <1>1, <1>2, UpIs
<1>4. Unseen(s.bitmap, m.rseq)
  BY <1>0, <1>1, <1>3, NewerUnseen DEF New, MapOf
<1>5. s.st # "OK" /\ m.type # "CCS" => m.seq = s.readSeq
  <2>1. m.type # "CCS" => IsHandshake(m) /\ m.seq = Number(mode, "client", m.type)
    BY <1>1, <1>2 DEF Arrives, Good, IsHandshake
  <2>2. Numbers(mode, "server", s)
    BY DEF Sound, Placed
  <2>3. Base(mode) \in Nat /\ One(mode.cert) = 0
    BY <1>0 DEF Base, One
  <2>4. CASE s.st = "SR_KEY_EXCH" /\ m.type = "CKE"
    BY <2>1, <2>2, <2>3, <2>4 DEF Number, Numbers
  <2>5. CASE s.st = "SR_CERT_VRFY" /\ m.type = "FIN"
    <3>1. m.seq = Base(mode) + 2
      BY <1>0, <2>1, <2>3, <2>5 DEF Number
    <3>2. s.readSeq = Base(mode) + 2
      BY <2>2, <2>3, <2>5 DEF Numbers
    <3> QED
      BY <3>1, <3>2
  <2> QED
    BY <1>2, <2>4, <2>5
<1> QED
  BY <1>2, <1>3, <1>4, <1>5 DEF IsNext, IsHandshake, InInit

(* It has no use for what comes before its turn: there is none.            *)
LEMMA NothingEarly ==
  ASSUME mode \in ModeSpace, Plain(mode), NEW c, NEW s, s \in SSL,
         s.st \in {"SR_KEY_EXCH", "SR_CERT_VRFY"}, Sound(mode, "server", s, c),
         s.failed = "no", NEW m \in Records, Arrives(mode, "client", c, m), IsHandshake(m),
         m.epoch = 1 => s.st = "SR_CERT_VRFY"
  PROVE  m.seq <= s.readSeq
<1>1. mode.cert = FALSE /\ mode.hit = FALSE
  BY DEF Plain
<1>2. m.type \in {"CH", "CHC", "CKE", "FIN"} /\ (m.type = "FIN" => m.epoch = 1)
  BY UpIs DEF IsHandshake
<1>3. m.seq = Number(mode, "client", m.type)
  BY DEF Arrives, Good
<1>4. Numbers(mode, "server", s)
  BY DEF Sound, Placed
<1>5. Base(mode) \in 0 .. 1 /\ One(mode.cert) = 0 /\ (m.type = "CHC" => Base(mode) = 1)
  BY <1>1, UpIs DEF Base, One
<1> QED
  BY <1>1, <1>2, <1>3, <1>4, <1>5 DEF Number, Numbers

(* A record arrives at the server.                                         *)
LEMMA ServerReceives ==
  ASSUME mode \in ModeSpace, Plain(mode), mode.cookie # "accept", NEW c, NEW s, Paired(c, s),
         s.failed = "no", ~Writing(s), Helloed(s.st), Sound(mode, "server", s, c),
         Sound(mode, "client", c, s), NEW up, NEW down, Carried(c, s, up, down),
         Steady(mode, c, s, up, down), NEW m \in ToSet(up),
         NEW t, t = GetRecord("server", s, m)
  PROVE  \/ ServerDid(c, s, t, m) /\ Saw(s, t, m) /\ Untroubled(t) /\ t.wbio = s.wbio
         \/ /\ s.st = "OK" /\ m.type = "FIN" /\ m.epoch = 1 /\ Unseen(s.bitmap, m.rseq)
            /\ t = CheckedRetransmit([s EXCEPT !.bitmap = Mark(s.bitmap, m.rseq)])
<1> DEFINE Stuck == ~(m.type = ServerDue(s)[1] /\ New(s, m))
           Result == ServerDid(c, s, t, m) /\ Saw(s, t, m) /\ Untroubled(t) /\ t.wbio = s.wbio
<1>0. /\ s \in SSL /\ up \in Seq(Records) /\ s.readEpoch \in 0 .. 1 /\ s.bitmap \in Bitmaps
      /\ "server" \in Endpoints /\ Peer("server") = "client"
      /\ ~Listening(s) /\ s.st \in {"SR_KEY_EXCH", "SR_CERT_VRFY", "OK"}
      /\ s.readEpoch = 1 <=> s.ccs \/ s.st = "OK"
      /\ s.ccs => s.st = "SR_CERT_VRFY"
      /\ c.tries \in Nat
  BY LinkIs DEF Paired, Carried, Endpoints, Peer, Listening, Helloed, Writing
<1>1. m \in Records /\ m.rseq \in Nat /\ m.epoch \in 0 .. 1 /\ Arrives(mode, "client", c, m)
  BY <1>0, InQueue DEF Carried, Records
<1>2. m.type \notin {"APP", "ALERT"} /\ Untroubled(s)
  BY DEF Steady, Quiet, Untroubled
<1>3. \/ Stuck
      \/ /\ m.epoch = s.readEpoch /\ Unseen(s.bitmap, m.rseq)
         /\ IsHandshake(m) /\ InInit(s) => IsNext(s, m)
         /\ m.type = "CCS" => s.st = "SR_CERT_VRFY"
  BY ServerDueIsNext
<1>4. CASE m.epoch = s.readEpoch /\ Unseen(s.bitmap, m.rseq)
  <2> DEFINE x == [s EXCEPT !.bitmap = Mark(s.bitmap, m.rseq)]
  <2>1. /\ t = Process("server", x, m)
        /\ x \in SSL /\ AllBut(s, x, {"bitmap"}) /\ x.bitmap = Mark(s.bitmap, m.rseq)
        /\ Sound(mode, "server", x, c) /\ Ready(mode, "server", x, c, m) /\ ~Writing(x)
    BY <1>0, <1>1, <1>4, Admitted
  <2>a. x = [s EXCEPT !.bitmap = Mark(s.bitmap, m.rseq)]
    OBVIOUS
  <2> HIDE DEF x
  <2>2. /\ x.st = s.st /\ x.failed = "no" /\ x.ccs = s.ccs /\ x.wseq = s.wseq
        /\ x.readEpoch = s.readEpoch /\ x.writeEpoch = s.writeEpoch /\ x.readSeq = s.readSeq
        /\ x.nextBitmap = s.nextBitmap /\ x.unprocessed = s.unprocessed /\ x.tries = s.tries
        /\ x.sent = s.sent /\ x.timer = s.timer /\ x.wbio = s.wbio
        /\ x.buffered = s.buffered /\ x.appQueue = s.appQueue
    BY <1>0, <2>1, FieldsOf DEF AllBut
  <2>3. CASE s.st = "OK"
    <3>1. m.type = "FIN"
      BY <1>0, <1>1, <1>2, <1>4, <2>3, UpIs
    <3>2. t = CheckedRetransmit(x)
      <4>1. ~Listening(x) /\ x.st = "OK"
        BY <1>0, <2>2, <2>3 DEF Listening
      <4>2. x.ccs = FALSE
        BY <1>0, <2>1, <2>2, <2>3 DEF SSL
      <4> QED
        BY <2>1, <3>1, <4>1, <4>2 DEF Process, UnexpectedHandshake, IsHandshake, InInit
    <3> QED
      BY <1>0, <1>4, <2>a, <2>3, <3>1, <3>2
  <2>4. CASE s.st # "OK"
    <3>1. ServerWent(x, t, m)
      BY <1>0, <1>1, <1>2, <2>1, <2>2, <2>4, ServerTakes
    <3>2. IsHandshake(m) => m.seq <= x.readSeq
      <4>1. m.epoch = 1 => s.st = "SR_CERT_VRFY"
        BY <1>0, <1>4, <2>4
      <4> QED
        BY <1>0, <1>1, <2>2, <2>4, <4>1, NothingEarly
    <3>3. ASSUME t = x, IsHandshake(m) => ~IsNext(x, m),
                 m.type = "CCS" => x.st # "SR_CERT_VRFY"
          PROVE  Result
      <4>1. Stuck
        <5>1. IsNext(x, m) <=> IsNext(s, m)
          BY <1>0, <2>2 DEF IsNext, Listening
        <5>2. IsHandshake(m) \/ m.type = "CCS"
          BY <1>2 DEF IsHandshake
        <5> QED
          BY <1>3, <2>2, <2>4, <3>3, <5>1, <5>2 DEF InInit
      <4>2. Saw(s, t, m)
        BY <1>4, <2>1, <2>2, <3>3 DEF Saw
      <4> QED
        BY <1>2, <2>2, <3>3, <4>1, <4>2 DEF ServerDid, Untroubled
    <3>4. ASSUME x.st = "SR_CERT_VRFY", m.type = "CCS", x.readEpoch = 0, t.readEpoch = 1,
                 AllBut(x, t, {"ccs", "readEpoch", "peerFin", "bitmap", "nextBitmap"}),
                 t.bitmap = x.nextBitmap, t.nextBitmap = NoRecords
          PROVE  Result
      <4>1. /\ t.st = x.st /\ t.failed = x.failed /\ t.wseq = x.wseq /\ t.tries = x.tries
            /\ t.unprocessed = x.unprocessed /\ t.sent = x.sent /\ t.wbio = x.wbio
            /\ t.buffered = x.buffered /\ t.appQueue = x.appQueue
        BY <2>1, <3>4, FieldsOf DEF AllBut
      <4>2. Saw(s, t, m)
        BY <1>4, <2>2, <3>4, <4>1 DEF Saw
      <4> QED
        BY <1>2, <2>2, <3>4, <4>1, <4>2 DEF ServerDid, Untroubled
    <3>5. ASSUME x.st = "SR_KEY_EXCH", m.type = "CKE", t.st = "SR_CERT_VRFY",
                 AllBut(x, t, Stepped), t.sent = x.sent, t.timer = x.timer, t.tries = x.tries
          PROVE  Result
      <4>1. /\ t.failed = x.failed /\ t.wseq = x.wseq /\ t.readEpoch = x.readEpoch
            /\ t.bitmap = x.bitmap /\ t.nextBitmap = x.nextBitmap
            /\ t.unprocessed = x.unprocessed /\ t.wbio = x.wbio
            /\ t.buffered = x.buffered /\ t.appQueue = x.appQueue
        BY <2>1, <3>5, FieldsOf DEF AllBut, Stepped
      <4>2. Saw(s, t, m)
        BY <1>4, <2>1, <2>2, <4>1 DEF Saw
      <4>3. c.writeEpoch = 1
        BY <3>5 DEF Steady, Stages, Has
      <4>4. t.readEpoch = 0
        BY <1>0, <2>2, <3>5, <4>1
      <4> QED
        BY <1>2, <2>2, <3>5, <4>1, <4>2, <4>3, <4>4 DEF ServerDid, Untroubled
    <3>6. ASSUME x.st = "SR_CERT_VRFY", m.type = "FIN", t.st = "SW_CHANGE", Idle(t),
                 AllBut(x, t, Stepped \cup {"nextSeq", "ccs"})
          PROVE  Result
      <4>1. /\ t.failed = x.failed /\ t.wseq = x.wseq /\ t.readEpoch = x.readEpoch
            /\ t.bitmap = x.bitmap /\ t.nextBitmap = x.nextBitmap
            /\ t.unprocessed = x.unprocessed /\ t.wbio = x.wbio
            /\ t.buffered = x.buffered /\ t.appQueue = x.appQueue
        BY <2>1, <3>6, FieldsOf DEF AllBut, Stepped
      <4>2. Saw(s, t, m)
        BY <1>4, <2>1, <2>2, <4>1 DEF Saw
      <4>3. m.epoch = 1 /\ c.writeEpoch = 1
        BY <1>1, <3>6, UpIs
      <4>4. Link(c, s, up) /\ c.wseq[1] = c.tries + 1
        BY <4>3 DEF Steady, Stages
      <4>5. m.rseq \in 0 .. c.tries
        <5>1. \E i \in DOMAIN up : m = up[i]
          BY <1>0, InQueue
        <5>2. m.rseq < c.wseq[1]
          BY <4>3, <4>4, <5>1 DEF Link
        <5> QED
          BY <1>0, <1>1, <4>4, <5>2
      <4>6. ~Unseen(t.bitmap, m.rseq)
        BY <1>0, <1>1, <2>1, <4>1, Marked
      <4>7. \A u \in t.unprocessed : u.rseq # m.rseq
        <5>1. MapOf(s, 1) = s.bitmap
          BY <1>4, <4>3 DEF MapOf
        <5>2. \A u \in s.unprocessed : ~Unseen(s.bitmap, u.rseq)
          BY <4>4, <5>1 DEF Link
        <5> QED
          BY <1>4, <2>2, <4>1, <5>2
      <4> QED
        BY <1>2, <2>2, <3>6, <4>1, <4>2, <4>5, <4>6, <4>7 DEF ServerDid, Untroubled
    <3>7. x.st # "SR_CLNT_HELLO" /\ x.st # "OK"
      BY <1>0, <2>2, <2>4
    <3> HIDE DEF Result
    <3>8. Result
      BY <3>1, <3>2, <3>3, <3>4, <3>5, <3>6, <3>7 DEF ServerWent, ServerTook
    <3> QED
      BY <3>8 DEF Result
  <2> QED
    BY <2>3, <2>4
<1>5. CASE /\ m.epoch # s.readEpoch /\ m.epoch = s.readEpoch + 1 /\ m.type \notin {"CCS", "APP"}
           /\ InInit(s) /\ Unseen(s.nextBitmap, m.rseq)
  <2>1. /\ t \in SSL /\ AllBut(s, t, {"unprocessed", "nextBitmap"})
        /\ t.unprocessed = s.unprocessed \cup {m}
        /\ t.nextBitmap = Mark(s.nextBitmap, m.rseq)
    <3>1. /\ GetRecord("server", s, m) \in SSL
          /\ AllBut(s, GetRecord("server", s, m), {"unprocessed", "nextBitmap"})
          /\ GetRecord("server", s, m).unprocessed = s.unprocessed \cup {m}
          /\ GetRecord("server", s, m).nextBitmap = Mark(s.nextBitmap, m.rseq)
      <4>1. /\ m.epoch = s.readEpoch + 1 /\ m.type \notin {"CCS", "APP"} /\ InInit(s)
            /\ ~Listening(s) /\ Unseen(s.nextBitmap, m.rseq) /\ s \in SSL /\ m \in Records
        BY <1>0, <1>1, <1>5
      <4> HIDE DEF Stuck, Result
      <4> QED
        BY <4>1, KeptIs
    <3> QED
      BY <3>1
  <2>2. /\ t.st = s.st /\ t.failed = s.failed /\ t.wseq = s.wseq
        /\ t.readEpoch = s.readEpoch /\ t.bitmap = s.bitmap /\ t.tries = s.tries
        /\ t.sent = s.sent /\ t.timer = s.timer /\ t.wbio = s.wbio
        /\ t.buffered = s.buffered /\ t.appQueue = s.appQueue
    BY <1>0, <2>1, FieldsOf DEF AllBut
  <2>3. m.epoch = 1 /\ s.readEpoch = 0
    BY <1>0, <1>1, <1>5
  <2>4. m.type = "FIN"
    BY <1>1, <1>2, <1>5, <2>3, UpIs
  <2>5. Saw(s, t, m)
    BY <1>5, <2>1, <2>2, <2>3 DEF Saw
  <2>6. Stuck
    BY <1>3, <1>5
  <2>7. ServerDid(c, s, t, m)
    BY <2>2, <2>6 DEF ServerDid
  <2> QED
    BY <1>2, <2>1, <2>2, <2>4, <2>5, <2>7 DEF Untroubled
<1>6. CASE t = s /\ ~(m.epoch = s.readEpoch /\ Unseen(s.bitmap, m.rseq))
  BY <1>2, <1>3, <1>6 DEF ServerDid, Saw
<1> QED
  BY <1>0, <1>4, <1>5, <1>6 DEF GetRecord

(* A ClientHello arrives at the server.                                    *)
LEMMA ServerListens ==
  ASSUME mode \in ModeSpace, Plain(mode), mode.cookie # "accept", NEW c, NEW s, Paired(c, s),
         s.failed = "no", s.st = "SR_CLNT_HELLO", Sound(mode, "server", s, c),
         Sound(mode, "client", c, s), NEW up, NEW down, Carried(c, s, up, down),
         Steady(mode, c, s, up, down), NEW m \in ToSet(up),
         NEW t, t = GetRecord("server", s, m)
  PROVE  /\ Saw(s, t, m) /\ Untroubled(t) /\ Idle(t) /\ t.wbio = s.wbio
         /\ t.wseq[0] = IF mode.cookie = "listen" THEN m.rseq ELSE s.wseq[0]
         /\ \/ t.st = "SW_HELLO_VERIFY" /\ m.type = "CH" /\ mode.cookie = "listen"
            \/ t.st = "SW_SRVR_HELLO" /\ m.type = IF mode.cookie = "none" THEN "CH" ELSE "CHC"
<1> DEFINE x == [s EXCEPT !.bitmap = Mark(s.bitmap, m.rseq)]
<1>0. /\ s \in SSL /\ up \in Seq(Records) /\ s.readEpoch = 0 /\ s.bitmap \in Bitmaps
      /\ "server" \in Endpoints /\ Peer("server") = "client" /\ c.writeEpoch # 1
      /\ ~Writing(s) /\ mode.cookie \in {"none", "listen"}
  BY LinkIs DEF Paired, Carried, Endpoints, Peer, Helloed, Answered, Writing, ModeSpace
<1>1. m \in Records /\ m.rseq \in Nat /\ Arrives(mode, "client", c, m)
  BY <1>0, InQueue DEF Carried, Records
<1>2. Untroubled(s) /\ Stages(mode, c, s, ToSet(up), ToSet(down))
      /\ Opening(mode, c, s, ToSet(up), ToSet(down))
  BY DEF Steady, Quiet, Untroubled, Settled
<1>3. m.type \in {"CH", "CHC"} /\ m.epoch = 0 /\ (m.type = "CHC" => mode.cookie # "none")
  <2>1. m.type # "CKE" /\ m.type \notin {"APP", "ALERT"}
    BY <1>0, <1>2 DEF Stages, Has, Steady, Quiet
  <2> QED
    BY <1>0, <1>1, <2>1, UpIs
<1>4. HelloHeard(s, m) \/ Unseen(s.bitmap, m.rseq)
  <2>1. CASE mode.cookie = "listen"
    BY <1>3, <2>1 DEF HelloHeard, Listening
  <2>2. CASE mode.cookie = "none"
    <3>1. s.bitmap = NoRecords
      BY <1>2, <2>2 DEF Opening
    <3> QED
      BY <1>0, <1>1, <3>1, EmptyIsNew, NewerUnseen
  <2> QED
    BY <1>0, <2>1, <2>2
<1>5. /\ t = Process("server", x, m)
      /\ x \in SSL /\ AllBut(s, x, {"bitmap"}) /\ x.bitmap = Mark(s.bitmap, m.rseq)
      /\ Sound(mode, "server", x, c) /\ Ready(mode, "server", x, c, m) /\ ~Writing(x)
  BY <1>0, <1>1, <1>3, <1>4, Admitted
<1> HIDE DEF x
<1>6. /\ x.st = s.st /\ x.failed = "no" /\ x.wseq = s.wseq
      /\ x.readEpoch = s.readEpoch /\ x.readSeq = s.readSeq
      /\ x.nextBitmap = s.nextBitmap /\ x.unprocessed = s.unprocessed
      /\ x.wbio = s.wbio /\ x.buffered = s.buffered /\ x.appQueue = s.appQueue
  BY <1>0, <1>5, FieldsOf DEF AllBut
<1>7. ServerWent(x, t, m)
  BY <1>1, <1>3, <1>5, <1>6, ServerTakes
<1>8. IsHandshake(m) /\ IsNext(x, m)
  <2>1. m.seq = IF m.type = "CH" THEN 0 ELSE 1
    BY <1>1, <1>3 DEF Arrives, Good, IsHandshake, Number
  <2>2. s.readSeq = 0
    BY <1>0 DEF Sound, Placed, Numbers
  <2>3. m.type = "CHC" => Listening(x)
    BY <1>0, <1>3, <1>6 DEF Listening
  <2> QED
    BY <1>3, <1>6, <2>1, <2>2, <2>3 DEF IsHandshake, IsNext
<1>9. ServerTook(x, t, m)
  BY <1>6, <1>7, <1>8 DEF ServerWent, IsHandshake
<1>10. /\ AllBut(x, t, Stepped \cup {"nextSeq", "wseq"}) /\ Idle(t)
       /\ t.wseq[0] = IF mode.cookie = "listen" THEN m.rseq ELSE x.wseq[0]
       /\ \/ t.st = "SW_HELLO_VERIFY" /\ m.type = "CH" /\ mode.cookie = "listen"
          \/ t.st = "SW_SRVR_HELLO" /\ m.type = IF mode.cookie = "none" THEN "CH" ELSE "CHC"
  BY <1>6, <1>9 DEF ServerTook
<1>11. /\ t.failed = x.failed /\ t.readEpoch = x.readEpoch
       /\ t.bitmap = x.bitmap /\ t.nextBitmap = x.nextBitmap
       /\ t.unprocessed = x.unprocessed /\ t.wbio = x.wbio
       /\ t.buffered = x.buffered /\ t.appQueue = x.appQueue
  BY <1>5, <1>10, FieldsOf DEF AllBut, Stepped
<1>12. Saw(s, t, m)
  BY <1>0, <1>3, <1>5, <1>6, <1>11 DEF Saw
<1> QED
  BY <1>2, <1>6, <1>10, <1>11, <1>12 DEF Untroubled

------------------------------------------------------------------------------
(* An endpoint writes again what it keeps.                                 *)

(* The messages are those that were kept.                                  *)
LEMMA SealedSends ==
  ASSUME NEW ms \in Seq(Kept), NEW out, Sealed(out, ms), NEW ts \in Seq(Types), Sends(ms, ts)
  PROVE  Sends(out, ts)
<1>1. /\ Len(out) \in Nat /\ DOMAIN out = 1 .. Len(out) /\ Len(ms) \in Nat
      /\ DOMAIN ms = 1 .. Len(ms) /\ Len(ts) \in Nat /\ Len(ms) = Len(ts)
  BY LenProperties DEF Sealed, Sends
<1>2. Len(out) = Len(ms)
  <2> DEFINE a == Len(out)
             b == Len(ms)
  <2>1. a \in Nat /\ b \in Nat /\ 1 .. a = 1 .. b
    BY <1>1 DEF Sealed
  <2> HIDE DEF a, b
  <2>2. (1 <= a => a \in 1 .. a) /\ (1 <= b => b \in 1 .. b)
    BY <2>1
  <2>3. (a \in 1 .. b => a <= b) /\ (b \in 1 .. a => b <= a)
    BY <2>1
  <2>4. a = b
    BY <2>1, <2>2, <2>3
  <2> QED
    BY <2>4 DEF a, b
<1> QED
  BY <1>1, <1>2 DEF Sealed, Sends

\* u is what the endpoint s, which is e, becomes once it has written out.
Resent(e, s, u, out) ==
  /\ AllBut(s, u, {"wseq", "tries"}) /\ u \in SSL /\ u.tries = s.tries + 1
  /\ \A i \in DOMAIN out : Arrives(mode, e, u, out[i])
  /\ out \in Seq(Records) /\ Sealed(out, s.sent) /\ Numbered(s.wseq, u.wseq, out)

(* dtls1_retransmit_buffered_messages.                                     *)
LEMMA ResentIs ==
  ASSUME NEW e, NEW s, NEW p, Sound(mode, e, s, p), s.wbio = <<>>,
         s.tries + 1 <= TmoAlertCount, NEW t, t = CheckedRetransmit(s),
         NEW u, u = [t EXCEPT !.wbio = <<>>]
  PROVE  Resent(e, s, u, t.wbio)
<1> DEFINE late == [s EXCEPT !.tries = s.tries + 1]
           none == <<>>
<1>0. s \in SSL /\ s.tries \in Nat /\ s.sent \in Seq(Kept)
  BY DEF Sound, Core, SSL
<1>1. t = Retransmit(late)
  <2>1. TmoAlertCount \in Nat
    BY DtlsAssumption
  <2>2. ~(s.tries + 1 > TmoAlertCount)
    BY <1>0, <2>1
  <2> DEFINE over == [s EXCEPT !.tries = s.tries + 1, !.failed = "READ_TIMEOUT_EXPIRED"]
  <2>3. CheckedRetransmit(s) = IF s.tries + 1 > TmoAlertCount THEN over ELSE Retransmit(late)
    BY DEF CheckedRetransmit
  <2> HIDE DEF over, late
  <2> QED
    BY <2>2, <2>3
<1>2. late \in SSL /\ AllBut(s, late, {"tries"}) /\ late.tries = s.tries + 1
  <2> DEFINE k == s.tries + 1
  <2>1. k \in Nat /\ late = [s EXCEPT !.tries = k]
    BY <1>0
  <2> HIDE DEF k, late
  <2>2. late \in SSL /\ AllBut(s, late, {"tries"}) /\ late.tries = k
    BY <1>0, <2>1 DEF SSL, AllBut
  <2> QED
    BY <2>2 DEF k
<1> HIDE DEF late
<1>3. late.sent = s.sent /\ late.wseq = s.wseq /\ late.wbio = s.wbio
  BY <1>0, <1>2, FieldsOf DEF AllBut
<1>4. PICK out : /\ Sealed(out, s.sent) /\ t.wbio = late.wbio \o out
                 /\ Numbered(s.wseq, t.wseq, out)
  BY <1>0, <1>1, <1>2, <1>3, PutIs DEF Retransmit
<1>5. t \in SSL /\ AllBut(late, t, {"wbio", "wseq"})
  BY <1>0, <1>1, <1>2, <1>3, PutIs DEF Retransmit
<1>6. t.wbio = out
  <2>1. out \in Seq(Records)
    BY <1>4 DEF Sealed
  <2> QED
    BY <1>3, <1>4, <2>1, ConcatEmptySeq
<1>7. u = [t EXCEPT !.wbio = none] /\ none \in Seq(Records)
  BY NoneIn
<1> HIDE DEF none
<1>8. u \in SSL /\ AllBut(t, u, {"wbio"}) /\ u.wbio = none
  BY <1>5, <1>7 DEF SSL, AllBut
<1>9. u.wbio = s.wbio
  BY <1>8 DEF none
<1>10. AllBut(s, u, {"wseq", "tries"}) /\ u.tries = s.tries + 1 /\ u.wseq = t.wseq
       /\ u.st = t.st /\ u.writeEpoch = t.writeEpoch
  BY <1>0, <1>2, <1>5, <1>8, <1>9, FieldsOf DEF AllBut
<1>11. \A i \in DOMAIN t.wbio : Arrives(mode, e, u, t.wbio[i])
  <2>1. \A i \in DOMAIN t.wbio : Arrives(mode, e, t, t.wbio[i])
    BY CheckedRetransmitSound DEF Sound, Core, Writes
  <2> QED
    BY <1>10, <2>1 DEF Arrives, Reached
<1> QED
  BY <1>4, <1>6, <1>8, <1>10, <1>11 DEF Resent, Sealed

(* The server writes again.                                                *)
LEMMA ServerRewrites ==
  ASSUME mode \in ModeSpace, NEW c, NEW s, NEW u, Paired(c, s), NEW up, NEW down,
         Steady(mode, c, s, up, down), NEW out, Resent("server", s, u, out),
         s.st \in {"SR_KEY_EXCH", "SR_CERT_VRFY", "OK"}
  PROVE  ServerWrote(c, s, u, out) /\ u.st = s.st
<1>0. s \in SSL /\ s.sent \in Seq(Kept)
  BY DEF Paired, SSL
<1>1. /\ u.st = s.st /\ u.failed = s.failed /\ u.buffered = s.buffered
      /\ u.appQueue = s.appQueue /\ u.readEpoch = s.readEpoch /\ u.bitmap = s.bitmap
      /\ u.nextBitmap = s.nextBitmap /\ u.unprocessed = s.unprocessed /\ u.sent = s.sent
      /\ u.timer = s.timer
  BY <1>0, FieldsOf DEF Resent, AllBut
<1>2. Quiet(c, s, ToSet(up), ToSet(down)) /\ Clocks(c, s) /\ Flights(mode, c, s)
  BY DEF Steady
<1>3. ServerFlights(u, s.sent)
  BY <1>1, <1>2 DEF Flights, ServerFlights
<1>4. ServerFlights(u, out)
  <2>1. <<"SH", "CERT", "SHD">> \in Seq(Types) /\ LastTypes(mode) \in Seq(Types)
    <3>1. {"SH", "CERT", "SHD", "NST", "CCS", "FIN"} \subseteq Types
      BY DEF Types
    <3>2. /\ <<"SH", "CERT", "SHD">> \in Seq(Types) /\ <<"NST", "CCS", "FIN">> \in Seq(Types)
          /\ <<"CCS", "FIN">> \in Seq(Types)
      BY <3>1, TupleIn
    <3> QED
      BY <3>2 DEF LastTypes
  <2>2. u.st \in {"SR_KEY_EXCH", "SR_CERT_VRFY"} => Sends(out, <<"SH", "CERT", "SHD">>)
    BY <1>0, <1>3, <2>1, SealedSends DEF Resent, ServerFlights
  <2>3. u.st = "OK" => Sends(out, LastTypes(mode))
    BY <1>0, <1>3, <2>1, SealedSends DEF Resent, ServerFlights
  <2> QED
    BY <2>2, <2>3 DEF ServerFlights
<1>5. u.st = "OK" => ~u.timer
  BY <1>1, <1>2 DEF Clocks
<1> QED
  BY <1>1, <1>2, <1>3, <1>4, <1>5 DEF ServerWrote, Resent, Quiet, Sees

(* A server that answers a Finished has not run out of timeouts.           *)
LEMMA AnswerFits ==
  ASSUME NEW c, NEW s, Paired(c, s), NEW U, NEW f \in Nat, Within(c, s, f),
         s.tries + 1 < Cardinality(Gone(c, s, U)), 2 * f + 1 <= TmoAlertCount
  PROVE  s.tries + 1 <= TmoAlertCount
<1>1. c.tries \in Nat /\ s.tries \in Nat /\ c.tries <= 2 * f + 1
  BY LinkIs DEF Paired, Within
<1>2. Cardinality(Gone(c, s, U)) <= c.tries + 1 /\ Cardinality(Gone(c, s, U)) \in Nat
  <2>1. c.tries <= c.tries
    BY <1>1
  <2> QED
    BY <1>1, <2>1, GoneGrows
<1>3. TmoAlertCount \in Nat
  BY DtlsAssumption
<1> QED
  BY <1>1, <1>2, <1>3

(* One more Finished has reached a completed server.                       *)
LEMMA GoneMore ==
  ASSUME NEW c, NEW s, NEW x, Paired(c, s), NEW up \in Seq(Records), NEW q2, NEW m,
         NEW f, NEW f2, Reads(s, x, up, q2, m, f, f2), x.tries = s.tries, s.st = "OK",
         Paid(c, s, ToSet(up)), m.rseq \in 0 .. c.tries, m.rseq \notin Gone(c, s, ToSet(up)),
         ~Unseen(x.bitmap, m.rseq), \A u \in x.unprocessed : u.rseq # m.rseq
  PROVE  x.tries + 1 < Cardinality(Gone(c, x, ToSet(q2)))
<1> DEFINE U == ToSet(up)
           U2 == ToSet(q2)
           G == Gone(c, s, U)
           G2 == Gone(c, x, U2)
           G1 == G \cup {m.rseq}
<1>0. /\ s \in SSL /\ c \in SSL /\ c.tries \in Nat /\ s.tries \in Nat /\ s.bitmap \in Bitmaps
      /\ s.readEpoch = 1
  BY LinkIs DEF Paired
<1>1. U2 \subseteq U /\ (m \in U \/ q2 = up)
  BY ReadsLeaves
<1>2. \A n \in U : n \in Records /\ n.rseq \in Nat
  BY InQueue DEF Records
<1>3. /\ x.unprocessed \subseteq s.unprocessed
      /\ x.bitmap = s.bitmap \/ (m \in U /\ x.bitmap = Mark(s.bitmap, m.rseq))
  <2>1. ASSUME Saw(s, x, m), m \in U
        PROVE  /\ x.unprocessed \subseteq s.unprocessed
               /\ x.bitmap = s.bitmap \/ (m \in U /\ x.bitmap = Mark(s.bitmap, m.rseq))
    BY <1>0, <2>1 DEF Saw
  <2>2. CASE ~(Saw(s, x, m) /\ m \in U)
    BY <2>2, InQueue DEF Reads
  <2> QED
    BY <2>1, <2>2
<1>4. \A n \in U2 : Unseen(x.bitmap, n.rseq) => Unseen(s.bitmap, n.rseq)
  BY <1>0, <1>1, <1>2, <1>3, Marked
<1>5. /\ G \subseteq G2 /\ IsFiniteSet(G) /\ IsFiniteSet(G2)
      /\ Cardinality(G) \in Nat /\ Cardinality(G2) \in Nat
  <2>1. \A n \in x.unprocessed : n \in s.unprocessed \/ n.rseq \notin 0 .. c.tries
    BY <1>3
  <2>2. \A n \in U2 : n.type = "FIN" /\ Unseen(x.bitmap, n.rseq) =>
          (n \in U /\ Unseen(s.bitmap, n.rseq)) \/ n.rseq \notin 0 .. c.tries
    BY <1>1, <1>4
  <2>3. c.tries <= c.tries
    BY <1>0
  <2> HIDE DEF U, U2
  <2> QED
    BY <1>0, <2>1, <2>2, <2>3, GoneGrows
<1>6. m.rseq \in G2
  BY DEF Gone
<1>7. s.tries < Cardinality(G)
  BY DEF Paid, ReadFin
<1>8. m.rseq \notin G
  OBVIOUS
<1> HIDE DEF G, G2, U, U2
<1>9. Cardinality(G1) = Cardinality(G) + 1
  BY <1>5, <1>8, FS_AddElement
<1>10. G1 \subseteq G2
  BY <1>5, <1>6
<1> HIDE DEF G1
<1>11. Cardinality(G1) <= Cardinality(G2)
  BY <1>5, <1>10, FS_Subset
<1>12. x.tries + 1 < Cardinality(G2)
  BY <1>0, <1>5, <1>7, <1>9, <1>11
<1> QED
  BY <1>12 DEF G2, U2

(* A Finished reaches a completed server, x, which answers.                *)
LEMMA ServerAnswersIt ==
  ASSUME mode \in ModeSpace, Plain(mode), NEW c, NEW s, NEW x, NEW u, Paired(c, s),
         Paired(c, u), Sound(mode, "server", x, c), Sound(mode, "server", s, c),
         NEW up, NEW down, Carried(c, s, up, down), NEW f, Tolerates(mode, c, s, up, down, f),
         NEW q2, NEW m, NEW f2, Reads(s, x, up, q2, m, f, f2), 2 * f2 + 1 <= TmoAlertCount,
         s.st = "OK", AllBut(s, x, {"bitmap", "unprocessed"}), s.wbio = <<>>,
         m.rseq \in 0 .. c.tries, m.rseq \notin Gone(c, s, ToSet(up)),
         ~Unseen(x.bitmap, m.rseq), \A n \in x.unprocessed : n.rseq # m.rseq,
         \A n \in x.unprocessed : n.type = "FIN",
         NEW t, t = CheckedRetransmit(x), u = [t EXCEPT !.wbio = <<>>]
  PROVE  Tolerates(mode, c, u, q2, down \o t.wbio, f2)
<1>0. /\ s \in SSL /\ x \in SSL /\ up \in Seq(Records) /\ down \in Seq(Records)
      /\ f \in Nat /\ f2 \in Nat /\ f <= f2 /\ c.tries \in Nat /\ s.tries \in Nat
  BY ReadsLeaves, LinkIs DEF Paired, Carried, Sound, Core
<1>1. /\ x.st = s.st /\ x.failed = s.failed /\ x.buffered = s.buffered
      /\ x.appQueue = s.appQueue /\ x.readEpoch = s.readEpoch /\ x.writeEpoch = s.writeEpoch
      /\ x.nextBitmap = s.nextBitmap /\ x.sent = s.sent /\ x.wseq = s.wseq /\ x.ccs = s.ccs
      /\ x.timer = s.timer /\ x.tries = s.tries /\ x.wbio = s.wbio
  BY <1>0, FieldsOf DEF AllBut
<1>2. Paired(c, x)
  BY <1>0, <1>1 DEF Paired
<1>3. /\ Steady(mode, c, s, up, down) /\ Paid(c, s, ToSet(up)) /\ Within(c, s, f)
      /\ s.failed = "no" /\ s.buffered = {} /\ s.appQueue = {}
  BY DEF Tolerates, Steady, Budget, Quiet
<1>4. Steady(mode, c, x, q2, down)
  <2>1. Helloed(s.st) /\ Helloed(x.st)
    BY <1>1 DEF Helloed
  <2> QED
    BY <1>1, <1>2, <1>3, <2>1, ServerReads
<1>5. x.tries + 1 < Cardinality(Gone(c, x, ToSet(q2)))
  BY <1>0, <1>1, <1>3, GoneMore
<1>6. Within(c, x, f2)
  BY <1>0, <1>1, <1>3 DEF Within, InInit
<1>7. x.tries + 1 <= TmoAlertCount
  BY <1>0, <1>2, <1>5, <1>6, AnswerFits
<1>8. Resent("server", x, u, t.wbio)
  BY <1>1, <1>7, ResentIs
<1>9. ServerWrote(c, x, u, t.wbio) /\ u.st = "OK"
  <2>1. x.st = "OK"
    BY <1>1
  <2> QED
    BY <1>2, <1>4, <1>8, <2>1, ServerRewrites
<1>10. Carried(c, x, q2, down)
  <2>1. q2 \in Seq(Records) /\ ToSet(q2) \subseteq ToSet(up)
    BY <1>0, ReadsLeaves
  <2> QED
    BY <1>1, <2>1 DEF Carried, Arrives, Reached
<1>11. u.tries = x.tries + 1
  BY <1>8 DEF Resent
<1> QED
  BY <1>0, <1>1, <1>2, <1>4, <1>5, <1>6, <1>9, <1>10, <1>11, ServerAnswers

(* A Finished of which the completed server has not heard.                 *)
LEMMA FinIsNew ==
  ASSUME mode \in ModeSpace, Plain(mode), NEW c, NEW s, Paired(c, s), NEW up, NEW down,
         Carried(c, s, up, down), Steady(mode, c, s, up, down), s.st = "OK",
         NEW m \in ToSet(up), m.type = "FIN", m.epoch = 1, Unseen(s.bitmap, m.rseq),
         NEW x, x = [s EXCEPT !.bitmap = Mark(s.bitmap, m.rseq)]
  PROVE  /\ AllBut(s, x, {"bitmap", "unprocessed"}) /\ Saw(s, x, m)
         /\ m.rseq \in 0 .. c.tries /\ m.rseq \notin Gone(c, s, ToSet(up))
         /\ ~Unseen(x.bitmap, m.rseq)
         /\ \A n \in x.unprocessed : n.rseq # m.rseq /\ n.type = "FIN"
<1> DEFINE b == Mark(s.bitmap, m.rseq)
<1>0. /\ s \in SSL /\ up \in Seq(Records) /\ s.readEpoch = 1 /\ s.bitmap \in Bitmaps
      /\ c.tries \in Nat /\ c.writeEpoch = 1
  BY LinkIs DEF Paired, Carried
<1>1. m \in Records /\ m.rseq \in Nat /\ \E i \in DOMAIN up : m = up[i]
  BY <1>0, InQueue DEF Records
<1>2. b \in Bitmaps /\ x = [s EXCEPT !.bitmap = b]
  BY <1>0, <1>1, Marked
<1>3. ~Unseen(b, m.rseq)
  BY <1>0, <1>1, Marked
<1> HIDE DEF b
<1>4. x \in SSL /\ AllBut(s, x, {"bitmap"}) /\ x.bitmap = b
  <2>1. [s EXCEPT !.bitmap = b] \in SSL /\ [s EXCEPT !.bitmap = b].bitmap = b
        /\ AllBut(s, [s EXCEPT !.bitmap = b], {"bitmap"})
    BY <1>0, <1>2, Retyped
  <2> QED
    BY <1>2, <2>1
<1>5. /\ x.readEpoch = s.readEpoch /\ x.nextBitmap = s.nextBitmap
      /\ x.unprocessed = s.unprocessed
  BY <1>0, <1>4, FieldsOf DEF AllBut
<1>6. Saw(s, x, m)
  BY <1>0, <1>4, <1>5 DEF Saw, b
<1>7. Link(c, s, up) /\ c.wseq[1] = c.tries + 1
  BY <1>0 DEF Steady, Stages
<1>8. m.rseq \in 0 .. c.tries
  <2>1. m.rseq < c.wseq[1]
    BY <1>1, <1>7 DEF Link
  <2> QED
    BY <1>0, <1>1, <1>7, <2>1
<1>9. \A n \in s.unprocessed : n.rseq # m.rseq /\ n.type = "FIN"
  <2>1. MapOf(s, 1) = s.bitmap
    BY <1>0 DEF MapOf
  <2>2. \A n \in s.unprocessed : ~Unseen(s.bitmap, n.rseq)
    BY <1>7, <2>1 DEF Link
  <2> QED
    BY <2>2 DEF Steady, Quiet
<1>10. m.rseq \notin Gone(c, s, ToSet(up))
  BY DEF Gone
<1>11. AllBut(s, x, {"bitmap", "unprocessed"})
  BY <1>4 DEF AllBut
<1> QED
  BY <1>3, <1>4, <1>5, <1>6, <1>8, <1>9, <1>10, <1>11

\* The server s becomes t by taking r, which it kept: without it, it is x.
ServerUnkept(c, s, up, x, t, r) ==
  /\ r.type = "FIN" /\ r.rseq \in 0 .. c.tries /\ r.rseq \notin Gone(c, s, ToSet(up))
  /\ ~Unseen(x.bitmap, r.rseq)
  /\ \A n \in x.unprocessed : n.rseq # r.rseq /\ n.type = "FIN"
  /\ AllBut(s, x, {"unprocessed"}) /\ x.unprocessed \subseteq s.unprocessed
  /\ Sound(mode, "server", x, c)
  /\ s.st = "OK" => t = CheckedRetransmit(x)
  /\ s.st # "OK" =>
       /\ ServerDid(c, s, t, r) /\ Untroubled(t) /\ t.wbio = s.wbio
       /\ t.readEpoch = s.readEpoch /\ t.bitmap = s.bitmap
       /\ t.nextBitmap = s.nextBitmap /\ t.unprocessed \subseteq s.unprocessed

(* The server takes a record that it kept.                                 *)
LEMMA ServerUnkeeps ==
  ASSUME mode \in ModeSpace, Plain(mode), mode.cookie # "accept", NEW c, NEW s, Paired(c, s),
         s.failed = "no", ~Writing(s), s.readEpoch = 1, Sound(mode, "server", s, c),
         NEW up, NEW down, Carried(c, s, up, down), Steady(mode, c, s, up, down),
         NEW r \in s.unprocessed, NEW x, x = [s EXCEPT !.unprocessed = s.unprocessed \ {r}],
         NEW t, t = Process("server", x, r)
  PROVE  ServerUnkept(c, s, up, x, t, r)
<1>0. /\ s \in SSL /\ up \in Seq(Records) /\ s.bitmap \in Bitmaps /\ mode.cert = FALSE
      /\ "server" \in Endpoints /\ Peer("server") = "client" /\ mode.hit = FALSE
      /\ c.tries \in Nat /\ c.writeEpoch = 1 /\ s.st \in {"SR_CERT_VRFY", "OK"}
      /\ s.st = "OK" => ~s.ccs
  BY LinkIs DEF Paired, Carried, Endpoints, Peer, Writing, Plain
<1>1. /\ r \in Records /\ r.rseq \in Nat /\ Arrives(mode, "client", c, r) /\ r.type = "FIN"
      /\ IsHandshake(r)
  <2>1. r \in Records /\ Arrives(mode, "client", c, r)
    BY <1>0 DEF Sound, Core, Peers, SSL
  <2>2. r.type = "FIN"
    BY DEF Steady, Quiet
  <2> QED
    BY <2>1, <2>2 DEF IsHandshake, Records
<1>2. Sound(mode, "server", x, c) /\ AllBut(s, x, {"unprocessed"}) /\ x \in SSL
  BY <1>0, Dequeued DEF Sound, Core
<1>3. x.unprocessed = s.unprocessed \ {r}
  BY <1>0 DEF SSL
<1>4. /\ x.st = s.st /\ x.failed = "no" /\ x.ccs = s.ccs /\ x.wseq = s.wseq
      /\ x.readEpoch = 1 /\ x.bitmap = s.bitmap /\ x.nextBitmap = s.nextBitmap
      /\ x.readSeq = s.readSeq /\ x.wbio = s.wbio /\ x.buffered = s.buffered
      /\ x.appQueue = s.appQueue
  BY <1>0, <1>2, FieldsOf DEF AllBut
<1>5. Link(c, s, up) /\ c.wseq[1] = c.tries + 1 /\ Untroubled(s)
  BY <1>0 DEF Steady, Stages, Quiet, Untroubled
<1>6. r.rseq \in 0 .. c.tries
  <2>1. r.rseq < c.wseq[1]
    BY <1>5 DEF Link
  <2> QED
    BY <1>0, <1>1, <1>5, <2>1
<1>7. ~Unseen(x.bitmap, r.rseq)
  <2>1. MapOf(s, 1) = s.bitmap
    BY DEF MapOf
  <2> QED
    BY <1>4, <1>5, <2>1 DEF Link
<1>8. \A n \in x.unprocessed : n.rseq # r.rseq /\ n.type = "FIN"
  BY <1>3, <1>5 DEF Link, Untroubled
<1>9. r.rseq \notin Gone(c, s, ToSet(up))
  BY DEF Gone
<1>10. ASSUME s.st = "OK" PROVE t = CheckedRetransmit(x)
  <2>1. ~Listening(x) /\ x.st = "OK" /\ x.ccs = FALSE
    BY <1>0, <1>2, <1>4, <1>10 DEF Listening, SSL
  <2> QED
    BY <1>1, <2>1 DEF Process, UnexpectedHandshake, IsHandshake, InInit
<1>11. ASSUME s.st # "OK"
       PROVE  /\ ServerDid(c, s, t, r) /\ Untroubled(t) /\ t.wbio = s.wbio
              /\ t.readEpoch = s.readEpoch /\ t.bitmap = s.bitmap
              /\ t.nextBitmap = s.nextBitmap /\ t.unprocessed \subseteq s.unprocessed
  <2>1. ServerWent(x, t, r)
    <3>1. Ready(mode, "server", x, c, r)
      BY <1>0, <1>1, <1>4 DEF Ready
    <3>2. ~Writing(x) /\ x.st # "OK"
      BY <1>0, <1>4, <1>11 DEF Writing
    <3> QED
      BY <1>1, <1>2, <1>4, <3>1, <3>2, ServerTakes
  <2>2. IsNext(x, r)
    <3>1. r.seq = Number(mode, "client", "FIN")
      BY <1>1 DEF Arrives, Good
    <3>2. Base(mode) \in Nat /\ One(mode.cert) = 0
      BY <1>0 DEF Base, One
    <3>3. r.seq = Base(mode) + 2
      BY <1>0, <3>1, <3>2 DEF Number
    <3>4. Numbers(mode, "server", s)
      BY DEF Sound, Placed
    <3>5. s.readSeq = Base(mode) + 2
      BY <1>0, <1>11, <3>2, <3>4 DEF Numbers
    <3> QED
      BY <1>4, <3>3, <3>5 DEF IsNext
  <2>3. /\ t.st = "SW_CHANGE" /\ AllBut(x, t, Stepped \cup {"nextSeq", "ccs"}) /\ Idle(t)
    BY <1>0, <1>1, <1>4, <1>11, <2>1, <2>2 DEF ServerWent, ServerTook
  <2>4. /\ t.failed = x.failed /\ t.wseq = x.wseq /\ t.readEpoch = x.readEpoch
        /\ t.bitmap = x.bitmap /\ t.nextBitmap = x.nextBitmap
        /\ t.unprocessed = x.unprocessed /\ t.wbio = x.wbio
        /\ t.buffered = x.buffered /\ t.appQueue = x.appQueue
    BY <1>2, <2>3, FieldsOf DEF AllBut, Stepped
  <2>5. ServerDid(c, s, t, r)
    BY <1>0, <1>1, <1>4, <1>6, <1>7, <1>8, <1>11, <2>3, <2>4 DEF ServerDid
  <2> QED
    BY <1>3, <1>4, <1>5, <1>8, <2>4, <2>5 DEF Untroubled
<1> QED
  BY <1>1, <1>2, <1>3, <1>6, <1>7, <1>8, <1>9, <1>10, <1>11 DEF ServerUnkept

------------------------------------------------------------------------------
(* The steps.                                                              *)

\* What is left of an endpoint when the network has what it wrote.
Flushed(t) == [t EXCEPT !.wbio = <<>>]

(* Endpoint e becomes t.                                                   *)
LEMMA Became ==
  ASSUME IInv, NEW e \in Endpoints, NEW t \in SSL, NEW left, Become(e, t, left)
  PROVE  /\ conn'[e] = Flushed(t) /\ conn'[Peer(e)] = conn[Peer(e)]
         /\ net'[e] = left /\ net'[Peer(e)] = net[Peer(e)] \o t.wbio
         /\ mode' = mode /\ conn'[e].st = t.st
         /\ t.wbio = <<>> => conn'[e] = t /\ net'[Peer(e)] = net[Peer(e)]
<1> DEFINE none == <<>>
           u == [t EXCEPT !.wbio = none]
           more == net[Peer(e)] \o t.wbio
<1>1. /\ mode' = mode /\ conn' = [conn EXCEPT ![e] = u]
      /\ net' = [net EXCEPT ![e] = left, ![Peer(e)] = more]
  BY DEF Become
<1>2. /\ conn \in [Endpoints -> SSL] /\ net \in [Endpoints -> Seq(Records)]
      /\ Peer(e) \in Endpoints /\ Peer(e) # e
  BY PeerOfPeer DEF IInv
<1>3. t.wbio = none => more = net[Peer(e)]
  <2>1. net[Peer(e)] \in Seq(Records)
    BY <1>2
  <2> QED
    BY <2>1, ConcatEmptySeq
<1>4. u.st = t.st /\ (t.wbio = none => u = t)
  <2> HIDE DEF none
  <2> QED
    BY DEF SSL
<1> HIDE DEF none, u, more
<1>5. /\ conn'[e] = u /\ conn'[Peer(e)] = conn[Peer(e)] /\ net'[e] = left
      /\ net'[Peer(e)] = more
  BY <1>1, <1>2
<1> QED
  BY <1>1, <1>3, <1>4, <1>5 DEF u, none, more, Flushed

Cl == conn["client"]
Sv == conn["server"]
Up == net["server"]
Down == net["client"]
Tolerated == Tolerates(mode, Cl, Sv, Up, Down, faults)

\* A full handshake without a client certificate, whose cookie, if any, is demanded by
\* DTLSv1_listen.
Simple == mode \in ModeSpace /\ Plain(mode) /\ mode.cookie # "accept"

(* The two endpoints in a state that satisfies the invariant.              *)
LEMMA Ends ==
  ASSUME IInv
  PROVE  /\ Cl \in SSL /\ Sv \in SSL /\ Up \in Seq(Records) /\ Down \in Seq(Records)
         /\ Sound(mode, "client", Cl, Sv) /\ Sound(mode, "server", Sv, Cl)
         /\ Cl.wbio = <<>> /\ Sv.wbio = <<>> /\ Carried(Cl, Sv, Up, Down)
         /\ faults \in Nat /\ faults <= MaxFaults /\ MaxFaults \in Nat
<1>1. /\ "client" \in Endpoints /\ "server" \in Endpoints
      /\ Peer("client") = "server" /\ Peer("server") = "client"
  BY DEF Endpoints, Peer
<1>2. /\ Cl \in SSL /\ Sv \in SSL /\ Up \in Seq(Records) /\ Down \in Seq(Records)
      /\ Sound(mode, "client", Cl, Sv) /\ Sound(mode, "server", Sv, Cl)
      /\ Cl.wbio = <<>> /\ Sv.wbio = <<>>
      /\ \A i \in DOMAIN Down : Arrives(mode, "server", Sv, Down[i])
      /\ \A i \in DOMAIN Up : Arrives(mode, "client", Cl, Up[i])
  BY <1>1 DEF IInv, Cl, Sv, Up, Down
<1>3. Carried(Cl, Sv, Up, Down)
  <2>1. \A m \in ToSet(Up) : \E i \in DOMAIN Up : m = Up[i]
    BY <1>2, InQueue
  <2>2. \A m \in ToSet(Down) : \E i \in DOMAIN Down : m = Down[i]
    BY <1>2, InQueue
  <2> QED
    BY <1>2, <2>1, <2>2 DEF Carried
<1>4. faults \in 0 .. MaxFaults /\ MaxFaults \in Nat
  BY DtlsAssumption DEF IInv
<1> QED
  BY <1>2, <1>3, <1>4

(* The same after a step, when nobody has failed and the client goes on.   *)
LEMMA EndsNext ==
  ASSUME Simple, IInv', mode' = mode, Cl'.failed = "no", Sv'.failed = "no", InInit(Cl')
  PROVE  Paired(Cl', Sv')
<1>1. /\ "client" \in Endpoints /\ "server" \in Endpoints
      /\ Peer("client") = "server" /\ Peer("server") = "client"
  BY DEF Endpoints, Peer
<1>2. Sound(mode', "client", Cl', Sv') /\ Sound(mode', "server", Sv', Cl')
  BY <1>1 DEF IInv, Cl, Sv
<1>3. Sound(mode, "client", Cl', Sv') /\ Sound(mode, "server", Sv', Cl')
  BY <1>2
<1> QED
  BY <1>3, PairedIs DEF Simple

(* The two endpoints during a handshake.                                   *)
LEMMA EndsNow ==
  ASSUME Simple, IInv, InInit(Cl), Tolerated
  PROVE  Paired(Cl, Sv) /\ Cl.failed = "no" /\ Sv.failed = "no"
<1>1. Cl.failed = "no" /\ Sv.failed = "no"
  BY DEF Tolerated, Tolerates, Steady, Quiet
<1> QED
  BY <1>1, Ends, PairedIs DEF Simple

(* A datagram that is received.                                            *)
LEMMA ReceiveReads ==
  ASSUME NEW q \in Seq(Records), NEW i \in DOMAIN q, NEW copy \in BOOLEAN, NEW r, NEW t,
         Saw(r, t, q[i]), NEW f \in Nat, NEW f2,
         f2 = f + (IF i = 1 THEN 0 ELSE 1) + (IF copy THEN 1 ELSE 0)
  PROVE  Reads(r, t, q, IF copy THEN q ELSE RemoveAt(q, i), q[i], f, f2)
<1>1. f2 \in Nat /\ (i # 1 \/ copy => f + 1 <= f2) /\ (i = 1 /\ ~copy => f2 = f)
  OBVIOUS
<1> QED
  BY <1>1 DEF Reads

(* A datagram arrives at the client.                                       *)
LEMMA ClientReceiveStep ==
  ASSUME Simple, IInv, IInv', InInit(Cl), Tolerated, InInit(Cl'), Receive("client")
  PROVE  Tolerated'
<1>1. PICK i \in DOMAIN Down, copy \in BOOLEAN :
        /\ Blocked(Cl)
        /\ Become("client", GetRecord("client", Cl, Down[i]),
                  IF copy THEN Down ELSE RemoveAt(Down, i))
        /\ faults' = faults + ((IF i = 1 THEN 0 ELSE 1) + (IF copy THEN 1 ELSE 0))
  BY DEF Receive, Cl, Down
<1> DEFINE m == Down[i]
           t == GetRecord("client", Cl, m)
           q == IF copy THEN Down ELSE RemoveAt(Down, i)
<1>2. /\ Paired(Cl, Sv) /\ Cl.failed = "no" /\ Sv.failed = "no" /\ ~Writing(Cl)
      /\ "client" \in Endpoints /\ Peer("client") = "server" /\ Peer("server") = "client"
  BY <1>1, EndsNow DEF Blocked, Reading, Endpoints, Peer
<1>3. m \in ToSet(Down) /\ m \in Records
  BY Ends, InQueue
<1>4. t \in SSL
  <2>1. Arrives(mode, "server", Sv, m)
    BY <1>3, Ends DEF Carried
  <2>2. Sound(mode, "client", t, Sv)
    BY <1>2, <1>3, <2>1, Ends, GetRecordSound DEF Simple
  <2> QED
    BY <2>2 DEF Sound, Core
<1>5. t.st = "OK" \/ (/\ ClientDid(Cl, Sv, t, m) /\ Saw(Cl, t, m) /\ t.failed = "no"
                      /\ t.wbio = Cl.wbio /\ \A u \in t.unprocessed : u.type = "FIN")
  <2>1. Steady(mode, Cl, Sv, Up, Down)
    BY DEF Tolerated, Tolerates
  <2> HIDE DEF m, t
  <2>2. t = GetRecord("client", Cl, m)
    BY DEF t
  <2> QED
    BY <1>2, <1>3, <2>1, <2>2, Ends, ClientHears DEF Simple
<1>6. Become("client", t, q)
  BY <1>1
<1> HIDE DEF t
<1>7. /\ Cl'.st = t.st /\ Sv' = Sv /\ Down' = q /\ mode' = mode
      /\ t.wbio = <<>> => Cl' = t /\ Up' = Up
  BY <1>2, <1>4, <1>6, Became DEF Cl, Sv, Up, Down
<1>8. /\ ClientDid(Cl, Sv, t, m) /\ Saw(Cl, t, m) /\ t.failed = "no"
      /\ t.wbio = <<>> /\ \A u \in t.unprocessed : u.type = "FIN"
  BY <1>5, <1>7, Ends DEF InInit
<1>9. Cl' = t /\ Up' = Up
  BY <1>7, <1>8
<1>10. Paired(t, Sv)
  BY <1>2, <1>7, <1>8, <1>9, EndsNext
<1>11. Reads(Cl, t, Down, q, m, faults, faults')
  <2>1. faults' = faults + (IF i = 1 THEN 0 ELSE 1) + (IF copy THEN 1 ELSE 0)
    BY <1>1, Ends
  <2> QED
    BY <1>8, <2>1, Ends, ReceiveReads
<1>12. Tolerates(mode, t, Sv, Up, q, faults')
  <2> HIDE DEF m, q
  <2> QED
    BY <1>2, <1>8, <1>10, <1>11, Ends, ClientGoesOn DEF Simple, Tolerated
<1> QED
  BY <1>7, <1>9, <1>12 DEF Tolerated

(* The two endpoints after one of them has become t.                       *)
LEMMA ServerBecame ==
  ASSUME IInv, NEW t \in SSL, NEW left, Become("server", t, left)
  PROVE  /\ Sv' = Flushed(t) /\ Cl' = Cl /\ Up' = left /\ Down' = Down \o t.wbio
         /\ mode' = mode /\ Sv'.st = t.st
         /\ t.wbio = <<>> => Sv' = t /\ Down' = Down
<1>1. "server" \in Endpoints /\ Peer("server") = "client"
  BY DEF Endpoints, Peer
<1>2. /\ conn'["server"] = Flushed(t) /\ conn'["client"] = conn["client"]
      /\ net'["server"] = left /\ mode' = mode /\ conn'["server"].st = t.st
      /\ t.wbio = <<>> => conn'["server"] = t /\ net'["client"] = net["client"]
  BY <1>1, Became
<1>3. net'["client"] = net["client"] \o t.wbio
  <2>1. net'[Peer("server")] = net[Peer("server")] \o t.wbio
    BY <1>1, Became, Zenon
  <2> QED
    BY <1>1, <2>1, Zenon
<1> QED
  BY <1>2, <1>3 DEF Cl, Sv, Up, Down

(* The client has become t.                                                *)
LEMMA ClientBecame ==
  ASSUME IInv, NEW t \in SSL, NEW left, Become("client", t, left)
  PROVE  /\ Cl' = Flushed(t) /\ Sv' = Sv /\ Down' = left /\ Up' = Up \o t.wbio
         /\ mode' = mode /\ Cl'.st = t.st
         /\ t.wbio = <<>> => Cl' = t /\ Up' = Up
<1>1. "client" \in Endpoints /\ Peer("client") = "server"
  BY DEF Endpoints, Peer
<1>2. /\ conn'["client"] = Flushed(t) /\ conn'["server"] = conn["server"]
      /\ net'["client"] = left /\ mode' = mode /\ conn'["client"].st = t.st
      /\ t.wbio = <<>> => conn'["client"] = t /\ net'["server"] = net["server"]
  BY <1>1, Became
<1>3. net'["server"] = net["server"] \o t.wbio
  <2>1. net'[Peer("client")] = net[Peer("client")] \o t.wbio
    BY <1>1, Became, Zenon
  <2> QED
    BY <1>1, <2>1, Zenon
<1> QED
  BY <1>2, <1>3 DEF Cl, Sv, Up, Down

(* Fewer faults cause fewer timeouts.                                      *)
LEMMA Twice ==
  ASSUME NEW f \in Nat, NEW g \in Nat, NEW n \in Nat, f <= g, 2 * g + 1 <= n
  PROVE  2 * f + 1 <= n
OBVIOUS

(* The client takes a message that it kept for its turn.                   *)
LEMMA ClientBufferedStep ==
  ASSUME Simple, IInv, IInv', InInit(Cl), Tolerated, InInit(Cl'), TakeBuffered("client")
  PROVE  Tolerated'
<1> DEFINE b == CHOOSE b \in TurnOf(Cl) : TRUE
           x == [Cl EXCEPT !.buffered = Cl.buffered \ {b}]
           t == Consume(x, b)
<1>1. /\ HasBuffered(Cl) /\ Become("client", t, Down) /\ faults' = faults
  BY DEF TakeBuffered, Cl, Down
<1>2. /\ Paired(Cl, Sv) /\ Cl.failed = "no" /\ Sv.failed = "no" /\ ~Writing(Cl)
      /\ "client" \in Endpoints /\ Peer("client") = "server" /\ Peer("server") = "client"
  BY <1>1, EndsNow DEF HasBuffered, Endpoints, Peer
<1>3. b \in TurnOf(Cl)
  BY <1>1 DEF HasBuffered
<1>4. b \in Cl.buffered /\ b \in Records
  <2>1. Cl \in SSL
    BY Ends
  <2> HIDE DEF b
  <2> QED
    BY <1>3, <2>1 DEF TurnOf, SSL
<1>5. x = [Cl EXCEPT !.buffered = Cl.buffered \ {b}] /\ t = Consume(x, b)
  OBVIOUS
<1> HIDE DEF b, x, t
<1>6. t \in SSL
  <2>1. Sound(mode, "client", x, Sv) /\ AllBut(Cl, x, {"buffered"})
    BY <1>2, <1>5, Ends, Dequeued
  <2>2. x.failed = "no" /\ x.st = Cl.st /\ x.readSeq = Cl.readSeq /\ x.readEpoch = Cl.readEpoch
    BY <1>2, <2>1, Ends, FieldsOf DEF AllBut
  <2>3. /\ InInit(x) /\ ~Writing(x) /\ IsNext(x, b)
    BY <1>2, <1>3, <2>2 DEF InInit, Writing, TurnOf, IsNext
  <2>4. /\ Arrives(mode, "server", Sv, b) /\ IsHandshake(b) /\ (b.epoch = 1 => x.readEpoch = 1)
    BY <1>2, <1>4, <2>2, Ends DEF Sound, Core, Peers
  <2>5. Sound(mode, "client", t, Sv)
    BY <1>2, <1>4, <1>5, <2>1, <2>2, <2>3, <2>4, ConsumeSound DEF Simple
  <2> QED
    BY <2>5 DEF Sound, Core
<1>7. /\ Cl'.st = t.st /\ Sv' = Sv /\ Down' = Down /\ mode' = mode
      /\ t.wbio = <<>> => Cl' = t /\ Up' = Up
  BY <1>1, <1>2, <1>6, Became DEF Cl, Sv, Up, Down
<1>8. /\ ClientDid(Cl, Sv, t, b) /\ t.failed = "no" /\ t.wbio = <<>>
      /\ t.readEpoch = Cl.readEpoch /\ t.bitmap = Cl.bitmap /\ t.nextBitmap = Cl.nextBitmap
      /\ t.unprocessed = Cl.unprocessed
  <2>1. Steady(mode, Cl, Sv, Up, Down)
    BY DEF Tolerated, Tolerates
  <2>2. t = Consume([Cl EXCEPT !.buffered = Cl.buffered \ {b}], b)
    BY <1>5
  <2>3. /\ Paired(Cl, Sv) /\ Cl.failed = "no" /\ ~Writing(Cl) /\ Sound(mode, "client", Cl, Sv)
        /\ mode \in ModeSpace /\ Plain(mode) /\ Cl.wbio = <<>> /\ t.st # "OK"
    BY <1>2, <1>7, Ends DEF Simple, InInit
  <2> QED
    BY <1>3, <2>1, <2>2, <2>3, ClientUnbuffers
<1>9. Cl' = t /\ Up' = Up
  BY <1>7, <1>8
<1>10. Paired(t, Sv)
  BY <1>2, <1>7, <1>8, <1>9, EndsNext
<1>11. Reads(Cl, t, Down, Down, b, faults, faults')
  BY <1>1, <1>8, Ends DEF Reads
<1>12. \A u \in t.unprocessed : u.type = "FIN"
  BY <1>8 DEF Tolerated, Tolerates, Steady, Quiet
<1>13. Tolerates(mode, t, Sv, Up, Down, faults')
  BY <1>2, <1>8, <1>10, <1>11, <1>12, Ends, ClientGoesOn DEF Simple, Tolerated
<1> QED
  BY <1>7, <1>9, <1>13 DEF Tolerated

(* The client takes the Finished that it kept: that is the end.            *)
LEMMA ClientKeptStep ==
  ASSUME Simple, IInv, InInit(Cl), Tolerated, TakeUnprocessed("client")
  PROVE  ~InInit(Cl')
<1> DEFINE r == Lowest(Cl.unprocessed)
           x == [Cl EXCEPT !.unprocessed = Cl.unprocessed \ {r}]
           t == Process("client", x, r)
<1>1. /\ Cl.readEpoch = 1 /\ Cl.unprocessed # {} /\ ~Writing(Cl) /\ Become("client", t, Down)
  BY DEF TakeUnprocessed, Reading, HasUnprocessed, Cl, Down
<1>2. /\ Paired(Cl, Sv) /\ Cl.failed = "no"
      /\ "client" \in Endpoints /\ Peer("client") = "server"
  BY EndsNow DEF Endpoints, Peer
<1>3. r \in Cl.unprocessed /\ r \in Records
  BY <1>1, Ends, LowestIn DEF SSL
<1>4. r.type = "FIN"
  BY <1>3 DEF Tolerated, Tolerates, Steady, Quiet
<1>5. x = [Cl EXCEPT !.unprocessed = Cl.unprocessed \ {r}] /\ t = Process("client", x, r)
  OBVIOUS
<1> HIDE DEF r, x, t
<1>6. t.st = "OK"
  <2>1. /\ Paired(Cl, Sv) /\ Cl.failed = "no" /\ ~Writing(Cl) /\ Sound(mode, "client", Cl, Sv)
        /\ mode \in ModeSpace /\ Plain(mode) /\ Cl.readEpoch = 1
        /\ t = Process("client", [Cl EXCEPT !.unprocessed = Cl.unprocessed \ {r}], r)
    BY <1>1, <1>2, <1>5, Ends DEF Simple
  <2> QED
    BY <1>3, <1>4, <2>1, ClientUnkeeps
<1>7. t \in SSL
  <2>1. Sound(mode, "client", x, Sv) /\ AllBut(Cl, x, {"unprocessed"})
    BY <1>2, <1>5, Ends, Dequeued
  <2>2. x.failed = "no" /\ x.st = Cl.st /\ x.readEpoch = 1
    BY <1>1, <1>2, <2>1, Ends, FieldsOf DEF AllBut
  <2>3. Ready(mode, "client", x, Sv, r)
    BY <1>2, <1>3, <1>4, <2>2, Ends DEF Ready, Sound, Core, Peers
  <2>4. ~Writing(x)
    BY <1>1, <2>2 DEF Writing
  <2>5. Sound(mode, "client", t, Sv)
    BY <1>2, <1>3, <1>5, <2>1, <2>2, <2>3, <2>4, ProcessSound DEF Simple
  <2> QED
    BY <2>5 DEF Sound, Core
<1>8. Cl'.st = t.st
  BY <1>1, <1>2, <1>7, Became DEF Cl
<1> QED
  BY <1>6, <1>8 DEF InInit

(* The completed server repeats its last flight for a Finished of the client. *)
LEMMA ServerAnswerStep ==
  ASSUME Simple, IInv, IInv', 2 * MaxFaults + 1 <= TmoAlertCount,
         InInit(Cl), Tolerated, InInit(Cl'), Sv.st = "OK", NEW x, NEW q, NEW m,
         Reads(Sv, x, Up, q, m, faults, faults'), faults' <= MaxFaults,
         AllBut(Sv, x, {"bitmap", "unprocessed"}), Sound(mode, "server", x, Cl),
         m.rseq \in 0 .. Cl.tries, m.rseq \notin Gone(Cl, Sv, ToSet(Up)),
         ~Unseen(x.bitmap, m.rseq),
         \A n \in x.unprocessed : n.rseq # m.rseq /\ n.type = "FIN",
         Become("server", CheckedRetransmit(x), q)
  PROVE  Tolerated'
<1> DEFINE t == CheckedRetransmit(x)
           u == Flushed(t)
<1>1. /\ Paired(Cl, Sv) /\ Cl.failed = "no" /\ Sv.failed = "no"
      /\ "server" \in Endpoints /\ Peer("server") = "client"
  BY EndsNow DEF Endpoints, Peer
<1>2. t = CheckedRetransmit(x) /\ u = Flushed(t)
  OBVIOUS
<1> HIDE DEF t, u
<1>3. x \in SSL /\ t \in SSL
  <2>1. Sound(mode, "server", t, Cl)
    BY <1>2, CheckedRetransmitSound
  <2> QED
    BY <2>1 DEF Sound, Core
<1>4. Sv' = u /\ Cl' = Cl /\ Up' = q /\ Down' = Down \o t.wbio /\ mode' = mode
  <2>1. Become("server", t, q)
    BY <1>2
  <2> QED
    BY <1>2, <1>3, <2>1, ServerBecame
<1>5. faults \in Nat /\ faults' \in Nat /\ faults <= faults' /\ 2 * faults' + 1 <= TmoAlertCount
  <2>1. TmoAlertCount \in Nat /\ MaxFaults \in Nat
    BY DtlsAssumption
  <2>2. faults \in Nat /\ faults' \in Nat /\ faults <= faults'
    BY DEF Reads
  <2> QED
    BY <2>1, <2>2, Twice
<1>6. /\ x.failed = Sv.failed /\ x.tries = Sv.tries /\ x.wbio = Sv.wbio /\ x.st = Sv.st
      /\ x.readEpoch = Sv.readEpoch /\ x.writeEpoch = Sv.writeEpoch /\ x.ccs = Sv.ccs
      /\ x.timer = Sv.timer
  BY Ends, FieldsOf DEF AllBut
<1>7. x.tries + 1 <= TmoAlertCount
  <2>1. Sv.tries < Cardinality(Gone(Cl, Sv, ToSet(Up))) /\ Within(Cl, Sv, faults)
        /\ Paid(Cl, Sv, ToSet(Up))
    BY DEF Tolerated, Tolerates, Budget, Paid, ReadFin
  <2>2. x.tries + 1 < Cardinality(Gone(Cl, x, ToSet(q)))
    BY <1>1, <1>6, <2>1, Ends, GoneMore
  <2>3. Paired(Cl, x)
    BY <1>1, <1>3, <1>6 DEF Paired
  <2>4. Within(Cl, x, faults')
    <3>1. Cl.tries \in Nat /\ Cl.tries <= 2 * faults + 1
      BY <2>1, Ends, LinkIs DEF Within
    <3> QED
      BY <1>5, <1>6, <3>1 DEF Within, InInit
  <2> QED
    BY <1>5, <2>2, <2>3, <2>4, AnswerFits
<1>8. Paired(Cl, u)
  <2>1. x.failed = "no" /\ x.wbio = <<>>
    BY <1>1, <1>6, Ends
  <2>2. Resent("server", x, u, t.wbio)
    BY <1>2, <1>7, <2>1, ResentIs DEF Flushed
  <2>3. u.failed = "no"
    BY <1>3, <2>1, <2>2, FieldsOf DEF Resent, AllBut
  <2> QED
    BY <1>1, <1>4, <2>3, EndsNext
<1>9. Tolerates(mode, Cl, u, q, Down \o t.wbio, faults')
  BY <1>1, <1>2, <1>5, <1>8, Ends, ServerAnswersIt DEF Simple, Tolerated, Flushed
<1> QED
  BY <1>4, <1>9 DEF Tolerated

(* A datagram arrives at the server.                                       *)
LEMMA ServerReceiveStep ==
  ASSUME Simple, IInv, IInv', 2 * MaxFaults + 1 <= TmoAlertCount,
         InInit(Cl), Tolerated, InInit(Cl'), Receive("server")
  PROVE  Tolerated'
<1>1. PICK i \in DOMAIN Up, copy \in BOOLEAN :
        /\ Blocked(Sv)
        /\ Become("server", GetRecord("server", Sv, Up[i]),
                  IF copy THEN Up ELSE RemoveAt(Up, i))
        /\ faults' = faults + ((IF i = 1 THEN 0 ELSE 1) + (IF copy THEN 1 ELSE 0))
        /\ faults' <= MaxFaults
  BY DEF Receive, Sv, Up
<1> DEFINE m == Up[i]
           t == GetRecord("server", Sv, m)
           q == IF copy THEN Up ELSE RemoveAt(Up, i)
<1>2. /\ Paired(Cl, Sv) /\ Cl.failed = "no" /\ Sv.failed = "no" /\ ~Writing(Sv)
      /\ "server" \in Endpoints /\ Peer("client") = "server" /\ Peer("server") = "client"
  BY <1>1, EndsNow DEF Blocked, Reading, Endpoints, Peer
<1>3. m \in ToSet(Up) /\ m \in Records
  BY Ends, InQueue
<1>4. t \in SSL
  <2>1. Arrives(mode, "client", Cl, m)
    BY <1>3, Ends DEF Carried
  <2>2. Sound(mode, "server", t, Cl)
    BY <1>2, <1>3, <2>1, Ends, GetRecordSound DEF Simple
  <2> QED
    BY <2>2 DEF Sound, Core
<1>5. Become("server", t, q) /\ t = GetRecord("server", Sv, m)
  BY <1>1
<1> HIDE DEF t
<1>6. /\ Sv'.st = t.st /\ Cl' = Cl /\ Up' = q /\ mode' = mode
      /\ Sv' = Flushed(t) /\ Down' = Down \o t.wbio
      /\ t.wbio = <<>> => Sv' = t /\ Down' = Down
  <2> HIDE DEF m, q
  <2>1. /\ conn'["server"] = Flushed(t) /\ conn'["client"] = conn["client"]
        /\ net'["server"] = q /\ net'["client"] = net["client"] \o t.wbio
        /\ mode' = mode /\ conn'["server"].st = t.st
        /\ t.wbio = <<>> => conn'["server"] = t /\ net'["client"] = net["client"]
    <3>1. IInv /\ "server" \in Endpoints /\ t \in SSL /\ Become("server", t, q)
      BY <1>2, <1>4, <1>5
    <3>2. /\ conn'["server"] = Flushed(t)
          /\ conn'[Peer("server")] = conn[Peer("server")]
          /\ net'["server"] = q /\ net'[Peer("server")] = net[Peer("server")] \o t.wbio
          /\ mode' = mode /\ conn'["server"].st = t.st
          /\ t.wbio = <<>> => conn'["server"] = t /\ net'[Peer("server")] = net[Peer("server")]
      BY <3>1, Became
    <3> QED
      BY <1>2, <3>2, Zenon
  <2> QED
    BY <2>1, Zenon DEF Cl, Sv, Up, Down
<1>7. Steady(mode, Cl, Sv, Up, Down) /\ Within(Cl, Sv, faults)
  BY DEF Tolerated, Tolerates, Budget
<1>8. faults' = faults + (IF i = 1 THEN 0 ELSE 1) + (IF copy THEN 1 ELSE 0)
  BY <1>1, Ends
<1>9. ASSUME NEW y, Saw(Sv, y, m)
      PROVE  Reads(Sv, y, Up, q, m, faults, faults')
  BY <1>8, <1>9, Ends, ReceiveReads
<1> HIDE DEF m, q
<1>10. CASE Sv.st = "SR_CLNT_HELLO"
  <2>1. /\ Saw(Sv, t, m) /\ Untroubled(t) /\ Idle(t) /\ t.wbio = <<>>
        /\ t.wseq[0] = IF mode.cookie = "listen" THEN m.rseq ELSE Sv.wseq[0]
        /\ \/ t.st = "SW_HELLO_VERIFY" /\ m.type = "CH" /\ mode.cookie = "listen"
           \/ t.st = "SW_SRVR_HELLO" /\ m.type = IF mode.cookie = "none" THEN "CH" ELSE "CHC"
    BY <1>2, <1>3, <1>5, <1>7, <1>10, Ends, ServerListens DEF Simple
  <2>2. Sv' = t /\ Down' = Down
    BY <1>6, <2>1
  <2>3. Paired(Cl, t)
    BY <1>2, <1>6, <2>1, <2>2, EndsNext DEF Untroubled
  <2>4. Tolerates(mode, Cl, t, q, Down, faults')
    BY <1>2, <1>3, <1>9, <1>10, <2>1, <2>3, Ends, ServerHears DEF Simple, Tolerated, Untroubled
  <2> QED
    BY <1>6, <2>2, <2>4 DEF Tolerated
<1>11. CASE Sv.st # "SR_CLNT_HELLO"
  <2>1. Helloed(Sv.st)
    BY <1>2, <1>11 DEF Helloed, Writing
  <2>2. \/ ServerDid(Cl, Sv, t, m) /\ Saw(Sv, t, m) /\ Untroubled(t) /\ t.wbio = <<>>
        \/ /\ Sv.st = "OK" /\ m.type = "FIN" /\ m.epoch = 1 /\ Unseen(Sv.bitmap, m.rseq)
           /\ t = CheckedRetransmit([Sv EXCEPT !.bitmap = Mark(Sv.bitmap, m.rseq)])
    BY <1>2, <1>3, <1>5, <1>7, <2>1, Ends, ServerReceives DEF Simple
  <2>3. CASE ServerDid(Cl, Sv, t, m) /\ Saw(Sv, t, m) /\ Untroubled(t) /\ t.wbio = <<>>
    <3>1. Sv' = t /\ Down' = Down
      BY <1>6, <2>3
    <3>2. Paired(Cl, t)
      BY <1>2, <1>6, <2>3, <3>1, EndsNext DEF Untroubled
    <3>3. Tolerates(mode, Cl, t, q, Down, faults')
      BY <1>2, <1>9, <2>1, <2>3, <3>2, Ends, ServerGoesOn DEF Simple, Tolerated
    <3> QED
      BY <1>6, <3>1, <3>3 DEF Tolerated
  <2>4. CASE /\ Sv.st = "OK" /\ m.type = "FIN" /\ m.epoch = 1 /\ Unseen(Sv.bitmap, m.rseq)
             /\ t = CheckedRetransmit([Sv EXCEPT !.bitmap = Mark(Sv.bitmap, m.rseq)])
    <3> DEFINE x == [Sv EXCEPT !.bitmap = Mark(Sv.bitmap, m.rseq)]
    <3>1. /\ AllBut(Sv, x, {"bitmap", "unprocessed"}) /\ Saw(Sv, x, m)
          /\ m.rseq \in 0 .. Cl.tries /\ m.rseq \notin Gone(Cl, Sv, ToSet(Up))
          /\ ~Unseen(x.bitmap, m.rseq)
          /\ \A n \in x.unprocessed : n.rseq # m.rseq /\ n.type = "FIN"
      <4>1. x = [Sv EXCEPT !.bitmap = Mark(Sv.bitmap, m.rseq)]
        OBVIOUS
      <4> HIDE DEF x
      <4> QED
        BY <1>2, <1>3, <1>7, <2>4, <4>1, Ends, FinIsNew DEF Simple
    <3>2. Sound(mode, "server", x, Cl)
      <4>1. Sv.readEpoch = 1 /\ Arrives(mode, "client", Cl, m)
        BY <1>2, <1>3, <2>4, Ends DEF Paired, Carried
      <4> QED
        BY <1>2, <1>3, <2>4, <4>1, Ends, Admitted DEF Simple
    <3>3. t = CheckedRetransmit(x)
      BY <2>4
    <3> HIDE DEF x
    <3>4. Reads(Sv, x, Up, q, m, faults, faults')
      BY <1>9, <3>1
    <3>5. Become("server", CheckedRetransmit(x), q)
      BY <1>5, <3>3
    <3>6. faults' <= MaxFaults
      BY <1>1
    <3> QED
      BY <2>4, <3>1, <3>2, <3>4, <3>5, <3>6, ServerAnswerStep
  <2> QED
    BY <2>2, <2>3, <2>4
<1> QED
  BY <1>10, <1>11

(* The server takes the Finished that it kept for its turn.                *)
LEMMA ServerKeptStep ==
  ASSUME Simple, IInv, IInv', 2 * MaxFaults + 1 <= TmoAlertCount,
         InInit(Cl), Tolerated, InInit(Cl'), TakeUnprocessed("server")
  PROVE  Tolerated'
<1> DEFINE r == Lowest(Sv.unprocessed)
           x == [Sv EXCEPT !.unprocessed = Sv.unprocessed \ {r}]
           t == Process("server", x, r)
<1>1. /\ Sv.readEpoch = 1 /\ Sv.unprocessed # {} /\ ~Writing(Sv) /\ Become("server", t, Up)
      /\ faults' = faults
  BY DEF TakeUnprocessed, Reading, HasUnprocessed, Sv, Up
<1>2. /\ Paired(Cl, Sv) /\ Cl.failed = "no" /\ Sv.failed = "no"
      /\ "server" \in Endpoints /\ Peer("server") = "client"
  BY EndsNow DEF Endpoints, Peer
<1>3. r \in Sv.unprocessed /\ r \in Records
  BY <1>1, Ends, LowestIn DEF SSL
<1>4. x = [Sv EXCEPT !.unprocessed = Sv.unprocessed \ {r}] /\ t = Process("server", x, r)
  OBVIOUS
<1> HIDE DEF r, x, t
<1>5. Steady(mode, Cl, Sv, Up, Down)
  BY DEF Tolerated, Tolerates
<1>6. /\ r.type = "FIN" /\ r.rseq \in 0 .. Cl.tries /\ r.rseq \notin Gone(Cl, Sv, ToSet(Up))
      /\ ~Unseen(x.bitmap, r.rseq)
      /\ \A n \in x.unprocessed : n.rseq # r.rseq /\ n.type = "FIN"
      /\ AllBut(Sv, x, {"unprocessed"}) /\ x.unprocessed \subseteq Sv.unprocessed
      /\ Sound(mode, "server", x, Cl)
      /\ Sv.st = "OK" => t = CheckedRetransmit(x)
      /\ Sv.st # "OK" =>
           /\ ServerDid(Cl, Sv, t, r) /\ Untroubled(t) /\ t.wbio = Sv.wbio
           /\ t.readEpoch = Sv.readEpoch /\ t.bitmap = Sv.bitmap
           /\ t.nextBitmap = Sv.nextBitmap /\ t.unprocessed \subseteq Sv.unprocessed
  <2>1. ServerUnkept(Cl, Sv, Up, x, t, r)
    BY <1>1, <1>2, <1>3, <1>4, <1>5, Ends, ServerUnkeeps DEF Simple
  <2> QED
    BY <2>1 DEF ServerUnkept
<1>7. CASE Sv.st = "OK"
  <2>1. Become("server", CheckedRetransmit(x), Up)
    BY <1>1, <1>6, <1>7
  <2>2. AllBut(Sv, x, {"bitmap", "unprocessed"})
    BY <1>6 DEF AllBut
  <2>3. Reads(Sv, x, Up, Up, r, faults, faults')
    <3>1. /\ x.readEpoch = Sv.readEpoch /\ x.bitmap = Sv.bitmap
          /\ x.nextBitmap = Sv.nextBitmap
      BY <1>6, Ends, FieldsOf DEF AllBut
    <3> QED
      BY <1>1, <1>6, <3>1, Ends DEF Reads
  <2>4. faults' <= MaxFaults
    BY <1>1, Ends
  <2> QED
    BY <1>6, <1>7, <2>1, <2>2, <2>3, <2>4, ServerAnswerStep
<1>8. CASE Sv.st # "OK"
  <2>1. t \in SSL
    <3>1. x.failed = "no" /\ x.st = Sv.st /\ x.readEpoch = 1
      BY <1>1, <1>2, <1>6, Ends, FieldsOf DEF AllBut
    <3>2. Arrives(mode, "client", Cl, r)
      BY <1>2, <1>3, Ends DEF Sound, Core, Peers
    <3>3. Ready(mode, "server", x, Cl, r) /\ ~Writing(x)
      BY <1>1, <1>2, <1>6, <3>1, <3>2 DEF Ready, Writing
    <3>4. Peer("server") = "client" /\ Sound(mode, "server", t, Cl)
      BY <1>2, <1>3, <1>4, <1>6, <3>1, <3>3, ProcessSound DEF Simple
    <3> QED
      BY <3>4 DEF Sound, Core
  <2>2. t.wbio = <<>>
    BY <1>6, <1>8, Ends
  <2>3. Sv' = t /\ Cl' = Cl /\ Up' = Up /\ Down' = Down /\ mode' = mode
    <3>1. Become("server", t, Up)
      BY <1>1
    <3> QED
      BY <2>1, <2>2, <3>1, ServerBecame
  <2>4. Paired(Cl, t)
    BY <1>2, <1>6, <1>8, <2>3, EndsNext DEF Untroubled
  <2>5. Reads(Sv, t, Up, Up, r, faults, faults')
    BY <1>1, <1>6, <1>8, Ends DEF Reads
  <2>6. Helloed(Sv.st)
    BY <1>1, <1>2 DEF Helloed, Paired, Writing
  <2>7. Tolerates(mode, Cl, t, Up, Down, faults')
    BY <1>1, <1>2, <1>6, <1>8, <2>4, <2>5, <2>6, Ends, ServerGoesOn DEF Simple, Tolerated
  <2> QED
    BY <2>3, <2>7 DEF Tolerated
<1> QED
  BY <1>7, <1>8

(* The server keeps nothing else, and the client no application data.      *)
LEMMA NothingElseKept ==
  ASSUME Tolerated
  PROVE  ~TakeBuffered("server") /\ ~TakeApp("server")
<1>1. Sv.buffered = {} /\ Sv.appQueue = {}
  BY DEF Tolerated, Tolerates, Steady, Quiet
<1>2. ~HasBuffered(Sv) /\ ~HasAppQueue(Sv)
  BY <1>1 DEF HasBuffered, TurnOf, HasAppQueue
<1> QED
  BY <1>2 DEF TakeBuffered, TakeApp, Sv

------------------------------------------------------------------------------
(* A flight is written. *)

Ending(finish) == IF finish THEN <<"CCS", "FIN">> ELSE <<>>

(* The types of the messages of a flight.                                  *)
LEMMA KeptSends ==
  ASSUME NEW s, NEW hs \in Seq(Types), NEW finish \in BOOLEAN, NEW ms,
         KeptOf(s, hs, finish, ms)
  PROVE  hs \o Ending(finish) \in Seq(Types) /\ Sends(ms, hs \o Ending(finish))
<1> DEFINE last == Ending(finish)
           ts == hs \o last
<1>1. /\ last \in Seq(Types) /\ Len(last) = IF finish THEN 2 ELSE 0
      /\ finish => last[1] = "CCS" /\ last[2] = "FIN"
  <2>1. "CCS" \in Types /\ "FIN" \in Types
    BY DEF Types
  <2>2. CASE finish
    <3>1. last = <<"CCS", "FIN">>
      BY <2>2 DEF Ending
    <3>2. /\ <<"CCS", "FIN">> \in Seq(Types) /\ Len(<<"CCS", "FIN">>) = 2
          /\ <<"CCS", "FIN">>[1] = "CCS" /\ <<"CCS", "FIN">>[2] = "FIN"
      BY <2>1
    <3> QED
      BY <2>2, <3>1, <3>2
  <2>3. CASE ~finish
    BY <2>3, NoneIn DEF Ending
  <2> QED
    BY <2>2, <2>3
<1> HIDE DEF last
<1>2. /\ ts \in Seq(Types) /\ Len(ts) = Len(hs) + Len(last)
      /\ \A i \in 1 .. Len(hs) + Len(last) :
           ts[i] = IF i <= Len(hs) THEN hs[i] ELSE last[i - Len(hs)]
  BY <1>1, Joined
<1>3. /\ ms \in Seq(Kept) /\ DOMAIN ms = 1 .. Len(hs) + Len(last)
      /\ \A i \in 1 .. Len(hs) : ms[i].type = hs[i]
      /\ finish => ms[Len(hs) + 1].type = "CCS" /\ ms[Len(hs) + 2].type = "FIN"
  BY <1>1 DEF KeptOf
<1>4. Len(hs) \in Nat /\ Len(last) \in Nat
  BY <1>1
<1> HIDE DEF ts
<1>5. Len(ms) = Len(ts)
  BY <1>2, <1>3, <1>4
<1>6. ASSUME NEW i \in 1 .. Len(ts) PROVE ms[i].type = ts[i]
  <2>1. CASE i <= Len(hs)
    BY <1>2, <1>3, <1>4, <2>1
  <2>2. CASE finish /\ i = Len(hs) + 1
    BY <1>1, <1>2, <1>3, <1>4, <2>2
  <2>3. CASE finish /\ i = Len(hs) + 2
    BY <1>1, <1>2, <1>3, <1>4, <2>3
  <2> QED
    BY <1>1, <1>2, <1>4, <2>1, <2>2, <2>3
<1>7. ts \in Seq(Types) /\ Sends(ms, ts)
  BY <1>2, <1>5, <1>6 DEF Sends
<1> QED
  BY <1>7 DEF ts, last

Sailed(s, f, u, out) ==
  /\ u \in SSL /\ out \in Seq(Records) /\ Numbered(s.wseq, u.wseq, out)
  /\ Sends(out, f.msgs \o Ending(f.finish))
  /\ s.sent = <<>> => Sends(u.sent, f.msgs \o Ending(f.finish))
  /\ u.st = f.next /\ u.timer = (s.timer \/ f.timer)
  /\ u.writeEpoch = IF f.finish THEN 1 ELSE s.writeEpoch
  /\ Sees(s, u) /\ u.failed = s.failed /\ u.sendCookie = s.sendCookie /\ u.tries = s.tries
  /\ u.buffered = s.buffered /\ u.appQueue = s.appQueue

(* What a flight leaves.                                                   *)
LEMMA SailedIs ==
  ASSUME NEW s \in SSL, s.wbio = <<>>, NEW f, f.msgs \in Seq(Types), f.finish \in BOOLEAN,
         NEW t, Flown(s, f, t)
  PROVE  Sailed(s, f, Flushed(t), t.wbio)
<1> DEFINE u == Flushed(t)
           ts == f.msgs \o Ending(f.finish)
<1>1. PICK k, ms, out : /\ KeptOf(k, f.msgs, f.finish, ms) /\ t.sent = s.sent \o ms
                        /\ Sealed(out, ms) /\ t.wbio = s.wbio \o out
                        /\ Numbered(s.wseq, t.wseq, out)
  BY DEF Flown
<1>2. ts \in Seq(Types) /\ Sends(ms, ts)
  BY <1>1, KeptSends
<1>3. ms \in Seq(Kept)
  BY <1>1 DEF KeptOf
<1> HIDE DEF ts
<1>4. Sends(out, ts) /\ out \in Seq(Records)
  BY <1>1, <1>2, <1>3, SealedSends DEF Sealed
<1>5. t.wbio = out
  <2>1. \A q \in Seq(Records) : <<>> \o q = q
    OBVIOUS
  <2> QED
    BY <1>1, <1>4, <2>1
<1>6. s.sent = <<>> => t.sent = ms
  <2>1. \A q \in Seq(Kept) : <<>> \o q = q
    OBVIOUS
  <2> QED
    BY <1>1, <1>3, <2>1
<1>7. t \in SSL
  BY DEF Flown
<1>8. u \in SSL /\ AllBut(t, u, {"wbio"})
  <2>1. <<>> \in Seq(Records)
    BY NoneIn
  <2> DEFINE none == <<>>
  <2> HIDE DEF none
  <2>2. u = [t EXCEPT !.wbio = none]
    BY DEF u, none, Flushed
  <2>3. none \in Seq(Records)
    BY <2>1 DEF none
  <2> QED
    BY <1>7, <2>2, <2>3 DEF SSL, AllBut
<1> HIDE DEF u
<1>9. /\ u.sent = t.sent /\ u.wseq = t.wseq /\ u.st = t.st /\ u.timer = t.timer
      /\ u.writeEpoch = t.writeEpoch /\ Sees(t, u) /\ u.failed = t.failed
      /\ u.sendCookie = t.sendCookie /\ u.tries = t.tries /\ u.buffered = t.buffered
      /\ u.appQueue = t.appQueue
  BY <1>7, <1>8, FieldsOf DEF AllBut, Sees
<1>10. /\ t.failed = s.failed /\ t.sendCookie = s.sendCookie /\ t.tries = s.tries
       /\ t.buffered = s.buffered /\ t.appQueue = s.appQueue /\ Sees(s, t)
  BY FieldsOf DEF Flown, AllBut, Sees
<1>11. /\ t.st = f.next /\ t.timer = (s.timer \/ f.timer)
       /\ t.writeEpoch = IF f.finish THEN 1 ELSE s.writeEpoch
  BY DEF Flown
<1>12. Sees(s, u)
  BY <1>9, <1>10 DEF Sees
<1>13. Sailed(s, f, u, t.wbio)
  <2>1. Numbered(s.wseq, u.wseq, t.wbio)
    BY <1>1, <1>5, <1>9
  <2>2. /\ Sends(t.wbio, f.msgs \o Ending(f.finish))
        /\ s.sent = <<>> => Sends(u.sent, f.msgs \o Ending(f.finish))
    BY <1>2, <1>4, <1>5, <1>6, <1>9 DEF ts
  <2> QED
    BY <1>4, <1>5, <1>8, <1>9, <1>10, <1>11, <1>12, <2>1, <2>2 DEF Sailed
<1> QED
  BY <1>13 DEF u

\* The flight f consists of messages of the types ts.
Does(f, ts, finish, timer, next) ==
  /\ f.msgs \in Seq(Types) /\ f.msgs \o Ending(f.finish) = ts
  /\ f.finish = finish /\ f.timer = timer /\ f.next = next

(* Tuples put together.                                                    *)
LEMMA Three ==
  ASSUME NEW S, NEW a \in S, NEW b \in S, NEW c \in S
  PROVE  <<a>> \o <<b, c>> = <<a, b, c>>
<1> DEFINE one == <<a>>
           two == <<b, c>>
<1>1. one \in Seq(S) /\ <<a>> \o <<b>> = <<a, b>> /\ <<a, b>> \o <<c>> = <<a, b, c>>
  BY Tuples, TupleIn
<1>2. /\ one \o <<b>> = Append(one, b)
      /\ one \o two = Append(Append(one, b), c)
  <2> HIDE DEF one
  <2> QED
    BY <1>1, Appended DEF two
<1>3. <<a, b>> \in Seq(S) /\ <<a, b>> \o <<c>> = Append(<<a, b>>, c)
  <2>1. <<a, b>> \in Seq(S)
    BY TupleIn
  <2> DEFINE pair == <<a, b>>
  <2>2. pair \in Seq(S)
    BY <2>1
  <2> HIDE DEF pair
  <2>3. pair \o <<c>> = Append(pair, c)
    BY <2>2, Appended
  <2> QED
    BY <2>1, <2>3 DEF pair
<1> QED
  BY <1>1, <1>2, <1>3, Zenon DEF one, two

(* The flights of a full handshake without a client certificate.           *)
LEMMA Spelled ==
  /\ <<"CKE">> \o <<"CCS", "FIN">> = <<"CKE", "CCS", "FIN">>
  /\ <<"NST">> \o <<"CCS", "FIN">> = <<"NST", "CCS", "FIN">>
  /\ <<>> \o <<"CCS", "FIN">> = <<"CCS", "FIN">>
  /\ <<>> \o <<"CKE">> \o <<>> = <<"CKE">>
  /\ <<"SH", "CERT">> \o <<>> \o <<"SHD">> = <<"SH", "CERT", "SHD">>
  /\ <<"CH">> \o <<>> = <<"CH">> /\ <<"CHC">> \o <<>> = <<"CHC">> /\ <<"HVR">> \o <<>> = <<"HVR">>
  /\ <<"SH", "CERT", "SHD">> \o <<>> = <<"SH", "CERT", "SHD">>
  /\ <<"CKE">> \in Seq(Types) /\ <<"NST">> \in Seq(Types) /\ <<>> \in Seq(Types)
  /\ <<"CH">> \in Seq(Types) /\ <<"CHC">> \in Seq(Types) /\ <<"HVR">> \in Seq(Types)
  /\ <<"SH", "CERT", "SHD">> \in Seq(Types)
<1>1. <<"CKE">> \o <<"CCS", "FIN">> = <<"CKE", "CCS", "FIN">>
  <2>1. "CKE" \in Types /\ "CCS" \in Types /\ "FIN" \in Types
    BY DEF Types
  <2> QED
    BY <2>1, Three
<1>2. <<"NST">> \o <<"CCS", "FIN">> = <<"NST", "CCS", "FIN">>
  <2>1. "NST" \in Types /\ "CCS" \in Types /\ "FIN" \in Types
    BY DEF Types
  <2> QED
    BY <2>1, Three
<1>3. <<>> \o <<"CCS", "FIN">> = <<"CCS", "FIN">>
  OBVIOUS
<1>4. <<>> \o <<"CKE">> \o <<>> = <<"CKE">>
  <2>1. <<>> \o <<"CKE">> = <<"CKE">>
    OBVIOUS
  <2>2. <<"CKE">> \o <<>> = <<"CKE">>
    OBVIOUS
  <2> QED
    BY <2>1, <2>2
<1>5. <<"SH", "CERT">> \o <<>> \o <<"SHD">> = <<"SH", "CERT", "SHD">>
  <2>1. <<"SH", "CERT">> \o <<>> = <<"SH", "CERT">>
    OBVIOUS
  <2>2. <<"SH", "CERT">> \o <<"SHD">> = <<"SH", "CERT", "SHD">>
    <3>1. "SH" \in Types /\ "CERT" \in Types /\ "SHD" \in Types
      BY DEF Types
    <3> QED
      BY <3>1, Tuples
  <2> QED
    BY <2>1, <2>2
<1>6. <<"CH">> \o <<>> = <<"CH">>
  OBVIOUS
<1>7. <<"CHC">> \o <<>> = <<"CHC">>
  OBVIOUS
<1>8. <<"HVR">> \o <<>> = <<"HVR">>
  OBVIOUS
<1>9. <<"SH", "CERT", "SHD">> \o <<>> = <<"SH", "CERT", "SHD">>
  OBVIOUS
<1>10. /\ <<"CKE">> \in Seq(Types) /\ <<"NST">> \in Seq(Types) /\ <<>> \in Seq(Types)
       /\ <<"CH">> \in Seq(Types) /\ <<"CHC">> \in Seq(Types) /\ <<"HVR">> \in Seq(Types)
  BY DEF Types
<1>11. <<"SH", "CERT", "SHD">> \in Seq(Types)
  BY DEF Types
<1> QED
  BY <1>1, <1>2, <1>3, <1>4, <1>5, <1>6, <1>7, <1>8, <1>9, <1>10, <1>11, Zenon

(* The flights of a full handshake without a client certificate.           *)
LEMMA FlightDoes ==
  ASSUME mode \in ModeSpace, Plain(mode), NEW s
  PROVE  /\ s.st = "CW_CLNT_HELLO" =>
              Does(Flight(s), <<MyHello(s)>>, FALSE, TRUE, "CR_SRVR_HELLO")
         /\ s.st = "CW_CERT" =>
              Does(Flight(s), <<"CKE", "CCS", "FIN">>, TRUE, TRUE,
                   IF mode.ticket THEN "CR_SESSION_TICKET" ELSE "CR_FINISHED")
         /\ s.st = "SW_HELLO_VERIFY" =>
              Does(Flight(s), <<"HVR">>, FALSE, FALSE, "SR_CLNT_HELLO")
         /\ s.st = "SW_SRVR_HELLO" =>
              Does(Flight(s), <<"SH", "CERT", "SHD">>, FALSE, TRUE, "SR_KEY_EXCH")
         /\ s.st = "SW_CHANGE" => Does(Flight(s), LastTypes(mode), TRUE, FALSE, "OK")
<1> DEFINE f == Flight(s)
<1>0. ~mode.hit /\ ~mode.cert /\ When(mode.cert, "CERT") = <<>> /\ When(mode.cert, "CVFY") = <<>>
      /\ When(mode.cert, "CREQ") = <<>>
  BY DEF Plain, When
<1>1. ASSUME s.st = "CW_CLNT_HELLO"
      PROVE  Does(f, <<MyHello(s)>>, FALSE, TRUE, "CR_SRVR_HELLO")
  <2>1. f.msgs = <<MyHello(s)>> /\ f.finish = FALSE /\ f.timer = TRUE /\ f.next = "CR_SRVR_HELLO"
    BY <1>1 DEF Flight, Flt, MyHello
  <2>2. <<MyHello(s)>> = <<"CHC">> \/ <<MyHello(s)>> = <<"CH">>
    BY DEF MyHello
  <2> HIDE DEF f
  <2> QED
    BY <2>1, <2>2, Spelled DEF Does, Ending
<1>2. ASSUME s.st = "CW_CERT"
      PROVE  Does(f, <<"CKE", "CCS", "FIN">>, TRUE, TRUE,
                  IF mode.ticket THEN "CR_SESSION_TICKET" ELSE "CR_FINISHED")
  <2>1. f.msgs = <<>> \o <<"CKE">> \o <<>> /\ f.finish = TRUE /\ f.timer = TRUE
        /\ f.next = IF mode.ticket THEN "CR_SESSION_TICKET" ELSE "CR_FINISHED"
    BY <1>0, <1>2 DEF Flight, Flt
  <2> HIDE DEF f
  <2>2. f.msgs = <<"CKE">> /\ f.msgs \in Seq(Types) /\ Ending(f.finish) = <<"CCS", "FIN">>
    BY <2>1, Spelled DEF Ending
  <2> QED
    BY <2>1, <2>2, Spelled DEF Does
<1>3. ASSUME s.st = "SW_HELLO_VERIFY"
      PROVE  Does(f, <<"HVR">>, FALSE, FALSE, "SR_CLNT_HELLO")
  <2>1. f.msgs = <<"HVR">> /\ f.finish = FALSE /\ f.timer = FALSE /\ f.next = "SR_CLNT_HELLO"
    BY <1>3 DEF Flight, Flt
  <2> HIDE DEF f
  <2> QED
    BY <2>1, Spelled DEF Does, Ending
<1>4. ASSUME s.st = "SW_SRVR_HELLO"
      PROVE  Does(f, <<"SH", "CERT", "SHD">>, FALSE, TRUE, "SR_KEY_EXCH")
  <2>1. f.msgs = <<"SH", "CERT">> \o <<>> \o <<"SHD">> /\ f.finish = FALSE /\ f.timer = TRUE
        /\ f.next = "SR_KEY_EXCH"
    BY <1>0, <1>4 DEF Flight, Flt
  <2> HIDE DEF f
  <2>2. f.msgs = <<"SH", "CERT", "SHD">> /\ f.msgs \in Seq(Types) /\ Ending(f.finish) = <<>>
    BY <2>1, Spelled DEF Ending
  <2> QED
    BY <2>1, <2>2, Spelled DEF Does
<1>5. ASSUME s.st = "SW_CHANGE"
      PROVE  Does(f, LastTypes(mode), TRUE, FALSE, "OK")
  <2>1. f.msgs = When(mode.ticket, "NST") /\ f.finish = TRUE /\ f.timer = FALSE /\ f.next = "OK"
    BY <1>5 DEF Flight, Flt, Ticket
  <2> HIDE DEF f
  <2>2. f.msgs = (IF mode.ticket THEN <<"NST">> ELSE <<>>) /\ Ending(f.finish) = <<"CCS", "FIN">>
    BY <2>1 DEF Ending, When
  <2> QED
    BY <2>1, <2>2, Spelled DEF Does, LastTypes
<1> QED
  BY <1>1, <1>2, <1>3, <1>4, <1>5

\* From s, a flight of the messages ts has left u and, on its way, out.
Left(e, s, ts, finish, timer, next, u, out) ==
  /\ u \in SSL /\ out \in Seq(Records) /\ Numbered(s.wseq, u.wseq, out)
  /\ \A i \in DOMAIN out : Arrives(mode, e, u, out[i])
  /\ Sends(out, ts) /\ (s.sent = <<>> => Sends(u.sent, ts))
  /\ u.st = next /\ u.timer = (s.timer \/ timer)
  /\ u.writeEpoch = IF finish THEN 1 ELSE s.writeEpoch
  /\ Sees(s, u) /\ u.failed = "no" /\ u.sendCookie = s.sendCookie /\ u.tries = s.tries
  /\ u.buffered = s.buffered /\ u.appQueue = s.appQueue

(* What a flight of a full handshake leaves.                               *)
LEMMA FlightLeft ==
  ASSUME mode \in ModeSpace, NEW e \in Endpoints, NEW s, NEW p, Sound(mode, e, s, p),
         s.failed = "no", s.wbio = <<>>, Writing(s), NEW ts, NEW finish \in BOOLEAN,
         NEW timer \in BOOLEAN, NEW next \in States, finish => s.writeEpoch = 0,
         Does(Flight(s), ts, finish, timer, next), NEW t, t = WriteFlight(s)
  PROVE  t \in SSL /\ Left(e, s, ts, finish, timer, next, Flushed(t), t.wbio)
<1> DEFINE f == Flight(s)
           u == Flushed(t)
<1>1. /\ f.msgs \in Seq(Types) /\ f.msgs \o Ending(f.finish) = ts
      /\ f.finish = finish /\ f.timer = timer /\ f.next = next
  BY DEF Does
<1>2. s \in SSL
  BY DEF Sound, Core
<1>3. Flown(s, f, t)
  BY <1>1, <1>2, FlightIs
<1> HIDE DEF f
<1>4. Sailed(s, f, u, t.wbio)
  BY <1>1, <1>2, <1>3, SailedIs
<1>5. t \in SSL /\ t.wbio \in Seq(Records) /\ Writes(mode, e, t)
  <2>1. Sound(mode, e, t, p)
    BY FlightSound
  <2> QED
    BY <2>1 DEF Sound, Core, SSL
<1>6. u.st = t.st /\ u.writeEpoch = t.writeEpoch
  <2>1. u.st = f.next /\ u.writeEpoch = IF f.finish THEN 1 ELSE s.writeEpoch
    BY <1>4 DEF Sailed
  <2> QED
    BY <1>3, <2>1 DEF Flown
<1>7. \A i \in DOMAIN t.wbio : Arrives(mode, e, u, t.wbio[i])
  BY <1>5, <1>6 DEF Writes, Arrives, Reached
<1> HIDE DEF u
<1>8. Left(e, s, ts, finish, timer, next, u, t.wbio)
  BY <1>1, <1>4, <1>7 DEF Sailed, Left
<1> QED
  BY <1>5, <1>8 DEF u

(* The client writes a flight.                                             *)
LEMMA ClientFlightStep ==
  ASSUME Simple, IInv, IInv', InInit(Cl), Tolerated, InInit(Cl'), SendFlight("client")
  PROVE  Tolerated'
<1> DEFINE t == WriteFlight(Cl)
           u == Flushed(t)
           out == t.wbio
<1>1. Writing(Cl) /\ Become("client", t, Down) /\ faults' = faults
  BY DEF SendFlight, Cl, Down
<1>2. /\ Paired(Cl, Sv) /\ Cl.failed = "no" /\ Sv.failed = "no" /\ "client" \in Endpoints
      /\ Cl.st \in {"CW_CLNT_HELLO", "CW_CERT"} /\ Cl.writeEpoch = 0 /\ Cl \in SSL
  <2>1. Paired(Cl, Sv) /\ Cl.failed = "no" /\ Sv.failed = "no"
    BY EndsNow
  <2>2. Cl.st \in {"CW_CLNT_HELLO", "CW_CERT"} /\ Cl.writeEpoch # 1 /\ Cl \in SSL
    BY <1>1, <2>1 DEF Paired, Writing
  <2>3. Cl.writeEpoch \in 0 .. 1
    BY <2>2, LinkIs
  <2> QED
    BY <2>1, <2>2, <2>3 DEF Endpoints
<1>3. t = WriteFlight(Cl) /\ u = Flushed(t) /\ out = t.wbio
  OBVIOUS
<1> HIDE DEF t, u, out
<1>4. Cl.sent = <<>>
  <2>1. Cl.st = "CW_CLNT_HELLO" => Cl.sent = <<>>
    BY DEF Tolerated, Tolerates, Steady, Flights
  <2>2. Cl.st = "CW_CERT" => Cl.sent = <<>>
    BY Ends DEF Sound, Core, SentOk, Emptied
  <2> QED
    BY <1>2, <2>1, <2>2
<1>5. /\ t \in SSL /\ ClientWrote(Cl, Sv, u, out) /\ u.tries = Cl.tries
      /\ u.writeEpoch = IF Cl.st = "CW_CERT" THEN 1 ELSE 0
  <2>1. CASE Cl.st = "CW_CLNT_HELLO"
    <3>1. Does(Flight(Cl), <<MyHello(Cl)>>, FALSE, TRUE, "CR_SRVR_HELLO")
      BY <2>1, FlightDoes DEF Simple
    <3>2. t \in SSL /\ Left("client", Cl, <<MyHello(Cl)>>, FALSE, TRUE, "CR_SRVR_HELLO", u, out)
      <4>1. "CR_SRVR_HELLO" \in States
        BY DEF States
      <4> QED
        BY <1>1, <1>2, <1>3, <3>1, <4>1, Ends, FlightLeft DEF Simple
    <3>3. u.writeEpoch = 0 /\ u.sendCookie = Cl.sendCookie /\ u.st = "CR_SRVR_HELLO"
          /\ u.tries = Cl.tries
      BY <1>2, <3>2 DEF Left
    <3>4. MyHello(u) = MyHello(Cl)
      BY <3>3 DEF MyHello
    <3>5. ClientFlight3(u, out) /\ ClientFlight3(u, u.sent)
      BY <1>4, <3>2, <3>3, <3>4 DEF Left, ClientFlight3
    <3>6. ClientWrote(Cl, Sv, u, out)
      BY <3>2, <3>5 DEF Left, ClientWrote
    <3> QED
      BY <2>1, <3>2, <3>3, <3>6
  <2>2. CASE Cl.st = "CW_CERT"
    <3> DEFINE ts == <<"CKE", "CCS", "FIN">>
               next == IF mode.ticket THEN "CR_SESSION_TICKET" ELSE "CR_FINISHED"
    <3>1. Does(Flight(Cl), ts, TRUE, TRUE, next)
      BY <2>2, FlightDoes DEF Simple
    <3>2. next \in States
      BY DEF States
    <3>3. ts = <<"CKE", "CCS", "FIN">>
      OBVIOUS
    <3> HIDE DEF ts, next
    <3>4. t \in SSL /\ Left("client", Cl, ts, TRUE, TRUE, next, u, out)
      BY <1>1, <1>2, <1>3, <3>1, <3>2, Ends, FlightLeft DEF Simple
    <3>5. u.writeEpoch = 1 /\ u.tries = Cl.tries
      BY <3>4 DEF Left
    <3>6. ClientFlight3(u, out) /\ ClientFlight3(u, u.sent)
      BY <1>4, <3>4, <3>5 DEF Left, ClientFlight3, ts
    <3>7. ClientWrote(Cl, Sv, u, out)
      BY <3>4, <3>6 DEF Left, ClientWrote
    <3> QED
      BY <2>2, <3>4, <3>5, <3>7
  <2> QED
    BY <1>2, <2>1, <2>2
<1>6. Cl' = u /\ Sv' = Sv /\ Down' = Down /\ Up' = Up \o out /\ mode' = mode
  BY <1>1, <1>3, <1>5, ClientBecame
<1>7. Paired(u, Sv)
  <2>1. u.failed = "no"
    BY <1>5 DEF ClientWrote
  <2> QED
    BY <1>2, <1>6, <2>1, EndsNext
<1>8. Tolerates(mode, u, Sv, Up \o out, Down, faults)
  BY <1>2, <1>5, <1>7, Ends, ClientFlies DEF Simple, Tolerated
<1> QED
  BY <1>1, <1>6, <1>8 DEF Tolerated

(* The server writes a flight.                                             *)
LEMMA ServerFlightStep ==
  ASSUME Simple, IInv, IInv', InInit(Cl), Tolerated, InInit(Cl'), SendFlight("server")
  PROVE  Tolerated'
<1> DEFINE t == WriteFlight(Sv)
           u == Flushed(t)
           out == t.wbio
<1>1. Writing(Sv) /\ Become("server", t, Up) /\ faults' = faults
  BY DEF SendFlight, Sv, Up
<1>2. /\ Paired(Cl, Sv) /\ Cl.failed = "no" /\ Sv.failed = "no" /\ "server" \in Endpoints
      /\ Sv.st \in {"SW_HELLO_VERIFY", "SW_SRVR_HELLO", "SW_CHANGE"} /\ Sv.writeEpoch = 0
      /\ Sv \in SSL
  <2>1. Paired(Cl, Sv) /\ Cl.failed = "no" /\ Sv.failed = "no"
    BY EndsNow
  <2>2. /\ Sv.st \in {"SW_HELLO_VERIFY", "SW_SRVR_HELLO", "SW_CHANGE"} /\ Sv.writeEpoch # 1
        /\ Sv \in SSL
    BY <1>1, <2>1 DEF Paired, Writing
  <2>3. Sv.writeEpoch \in 0 .. 1
    BY <2>2, LinkIs
  <2> QED
    BY <2>1, <2>2, <2>3 DEF Endpoints
<1>3. t = WriteFlight(Sv) /\ u = Flushed(t) /\ out = t.wbio
  OBVIOUS
<1> HIDE DEF t, u, out
<1>4. Sv.st # "SW_HELLO_VERIFY" => Sv.sent = <<>>
  BY <1>2, Ends DEF Sound, Core, SentOk, Emptied
<1>5. ~Sv.timer /\ Sv.buffered = {} /\ Sv.appQueue = {}
  BY <1>2 DEF Tolerated, Tolerates, Steady, Clocks, Idle, Quiet
<1>6. ASSUME t \in SSL, u.failed = "no"
      PROVE  /\ Sv' = u /\ Cl' = Cl /\ Up' = Up /\ Down' = Down \o out /\ mode' = mode
             /\ Paired(Cl, u)
  <2>1. Sv' = u /\ Cl' = Cl /\ Up' = Up /\ Down' = Down \o out /\ mode' = mode
    BY <1>1, <1>3, <1>6, ServerBecame
  <2> QED
    BY <1>2, <1>6, <2>1, EndsNext
<1>7. CASE Sv.st = "SW_HELLO_VERIFY"
  <2>1. Does(Flight(Sv), <<"HVR">>, FALSE, FALSE, "SR_CLNT_HELLO") /\ "SR_CLNT_HELLO" \in States
    BY <1>7, FlightDoes DEF Simple, States
  <2> DEFINE ts == <<"HVR">>
  <2>2. ts = <<"HVR">> /\ Does(Flight(Sv), ts, FALSE, FALSE, "SR_CLNT_HELLO")
    BY <2>1
  <2> HIDE DEF ts
  <2>3. t \in SSL /\ Left("server", Sv, ts, FALSE, FALSE, "SR_CLNT_HELLO", u, out)
    BY <1>1, <1>2, <1>3, <2>1, <2>2, Ends, FlightLeft DEF Simple
  <2>4. /\ out \in Seq(Records) /\ Numbered(Sv.wseq, u.wseq, out) /\ Sends(out, ts)
        /\ u.st = "SR_CLNT_HELLO" /\ u.timer = (Sv.timer \/ FALSE) /\ Sees(Sv, u)
        /\ u.tries = Sv.tries /\ u.failed = "no" /\ u.buffered = Sv.buffered
        /\ u.appQueue = Sv.appQueue /\ \A i \in DOMAIN out : Arrives(mode, "server", u, out[i])
    BY <2>3 DEF Left
  <2>5. out[1].rseq = Sv.wseq[0]
    <3>1. DOMAIN out = {1} /\ out[1].type = "HVR" /\ out[1] \in Records
      <4>1. Len(ts) = 1 /\ ts[1] = "HVR"
        BY <2>2
      <4>2. Len(out) = 1 /\ out[1].type = "HVR" /\ DOMAIN out = 1 .. Len(out)
        BY <2>4, <4>1 DEF Sends
      <4>3. DOMAIN out = {1}
        BY <4>2
      <4>4. out[1] \in Records
        BY <2>4, <4>3, InQueue
      <4> QED
        BY <4>2, <4>3, <4>4
    <3>2. out[1].epoch = 0 /\ out[1].rseq \in Nat
      BY <2>4, <3>1 DEF Arrives, Good, Records
    <3>3. u.wseq[0] = Sv.wseq[0] + 1 /\ Sv.wseq[0] <= out[1].rseq /\ out[1].rseq < u.wseq[0]
          /\ Sv.wseq[0] \in Nat
      BY <2>4, <3>1, <3>2 DEF Numbered
    <3> QED
      BY <3>2, <3>3
  <2>6. u.timer = Sv.timer
    <3>1. Sv.timer = FALSE
      <4>1. Sv.timer \in BOOLEAN
        BY <1>2 DEF SSL
      <4> QED
        BY <1>5, <4>1
    <3>2. u.timer = FALSE
      BY <2>4, <3>1
    <3> QED
      BY <3>1, <3>2
  <2>7. Paired(Cl, u) /\ Sv' = u /\ Cl' = Cl /\ Up' = Up /\ Down' = Down \o out /\ mode' = mode
    BY <1>6, <2>3, <2>4
  <2>8. Tolerates(mode, Cl, u, Up, Down \o out, faults)
    BY <1>2, <1>7, <2>2, <2>4, <2>5, <2>6, <2>7, Ends, ServerVerifies DEF Simple, Tolerated
  <2> QED
    BY <1>1, <2>7, <2>8 DEF Tolerated
<1>8. CASE Sv.st = "SW_SRVR_HELLO"
  <2> DEFINE ts == <<"SH", "CERT", "SHD">>
  <2>1. Does(Flight(Sv), ts, FALSE, TRUE, "SR_KEY_EXCH") /\ "SR_KEY_EXCH" \in States
    BY <1>8, FlightDoes DEF Simple, States
  <2>2. ts = <<"SH", "CERT", "SHD">>
    OBVIOUS
  <2> HIDE DEF ts
  <2>3. t \in SSL /\ Left("server", Sv, ts, FALSE, TRUE, "SR_KEY_EXCH", u, out)
    BY <1>1, <1>2, <1>3, <2>1, Ends, FlightLeft DEF Simple
  <2>4. u.st = "SR_KEY_EXCH" /\ u.tries = Sv.tries /\ u.failed = "no"
    BY <2>3 DEF Left
  <2>5. ServerFlights(u, out) /\ ServerFlights(u, u.sent)
    BY <1>4, <1>8, <2>3, <2>4 DEF Left, ServerFlights, ts
  <2>6. ServerWrote(Cl, Sv, u, out)
    BY <1>5, <2>3, <2>4, <2>5 DEF Left, ServerWrote
  <2>7. Paired(Cl, u) /\ Sv' = u /\ Cl' = Cl /\ Up' = Up /\ Down' = Down \o out /\ mode' = mode
    BY <1>6, <2>3, <2>4
  <2>8. Tolerates(mode, Cl, u, Up, Down \o out, faults)
    BY <1>2, <1>8, <2>4, <2>6, <2>7, Ends, ServerFlies DEF Simple, Tolerated
  <2> QED
    BY <1>1, <2>7, <2>8 DEF Tolerated
<1>9. CASE Sv.st = "SW_CHANGE"
  <2>1. Does(Flight(Sv), LastTypes(mode), TRUE, FALSE, "OK") /\ "OK" \in States
    BY <1>9, FlightDoes DEF Simple, States
  <2>2. t \in SSL /\ Left("server", Sv, LastTypes(mode), TRUE, FALSE, "OK", u, out)
    BY <1>1, <1>2, <1>3, <2>1, Ends, FlightLeft DEF Simple
  <2>3. u.st = "OK" /\ u.tries = Sv.tries /\ u.failed = "no" /\ ~u.timer
    BY <1>5, <2>2 DEF Left
  <2>4. ServerFlights(u, out) /\ ServerFlights(u, u.sent)
    BY <1>4, <1>9, <2>2, <2>3 DEF Left, ServerFlights
  <2>5. ServerWrote(Cl, Sv, u, out)
    BY <1>5, <2>2, <2>3, <2>4 DEF Left, ServerWrote
  <2>6. Paired(Cl, u) /\ Sv' = u /\ Cl' = Cl /\ Up' = Up /\ Down' = Down \o out /\ mode' = mode
    BY <1>6, <2>2, <2>3
  <2>7. Tolerates(mode, Cl, u, Up, Down \o out, faults)
    BY <1>2, <1>9, <2>3, <2>5, <2>6, Ends, ServerEnds DEF Simple, Tolerated
  <2> QED
    BY <1>1, <2>6, <2>7 DEF Tolerated
<1> QED
  BY <1>2, <1>7, <1>8, <1>9

------------------------------------------------------------------------------
(* A timer runs out. *)

(* The client repeats its flight.                                          *)
LEMMA ClientRewrites ==
  ASSUME mode \in ModeSpace, NEW c, NEW s, NEW u, Paired(c, s), NEW up, NEW down,
         Steady(mode, c, s, up, down), NEW out, Resent("client", c, u, out), ~Writing(c), c.timer
  PROVE  ClientWrote(c, s, u, out) /\ u.st = c.st
<1>1. /\ c \in SSL /\ u.st = c.st /\ u.sent = c.sent /\ u.writeEpoch = c.writeEpoch
      /\ u.failed = c.failed /\ u.sendCookie = c.sendCookie /\ Sees(c, u)
  BY FieldsOf DEF Resent, AllBut, Paired, Sees
<1>2. /\ c.st \in {"CR_SRVR_HELLO", "CR_CERT", "CR_SESSION_TICKET", "CR_FINISHED"}
      /\ c.failed = "no"
  BY DEF Steady, Clocks, Idle, Quiet, Paired, Writing
<1>3. /\ c.writeEpoch = 1 => Sends(c.sent, <<"CKE", "CCS", "FIN">>)
      /\ c.writeEpoch = 0 => c.st \in {"CR_SRVR_HELLO", "CR_CERT"} /\ Sends(c.sent, <<MyHello(c)>>)
  BY <1>2 DEF Steady, Flights, Paired
<1>4. c.sent \in Seq(Kept) /\ Sealed(out, c.sent)
  BY <1>1, LinkIs DEF Resent
<1> DEFINE three == <<"CKE", "CCS", "FIN">>
           one == <<MyHello(c)>>
<1>5. three \in Seq(Types) /\ one \in Seq(Types)
  BY DEF Types, MyHello
<1>6. /\ Sends(c.sent, three) => Sends(out, three)
      /\ Sends(c.sent, one) => Sends(out, one)
  <2> HIDE DEF three, one
  <2> QED
    BY <1>4, <1>5, SealedSends
<1>7. MyHello(u) = MyHello(c)
  BY <1>1 DEF MyHello
<1>8. ClientFlight3(u, out) /\ ClientFlight3(u, u.sent)
  BY <1>1, <1>3, <1>6, <1>7 DEF ClientFlight3
<1> QED
  BY <1>1, <1>2, <1>8 DEF ClientWrote, Resent

(* The timer of the client runs out.                                       *)
LEMMA ClientTimeoutStep ==
  ASSUME Simple, IInv, IInv', 2 * MaxFaults + 1 <= TmoAlertCount,
         InInit(Cl), Tolerated, InInit(Cl'), Timeout("client")
  PROVE  Tolerated'
<1> DEFINE t == CheckedRetransmit(Cl)
           u == Flushed(t)
           out == t.wbio
<1>1. Reading(Cl) /\ Cl.timer /\ Become("client", t, Down)
  BY DEF Timeout, Cl, Down
<1>2. TimedOut(Cl, Sv, Up, Down, faults, faults')
  <2>1. "client" \in Endpoints /\ "server" \in Endpoints /\ Peer("client") = "server"
    BY DEF Endpoints, Peer
  <2> QED
    BY <2>1 DEF Timeout, TimedOut, Cl, Sv, Up, Down
<1>3. /\ Paired(Cl, Sv) /\ Cl.failed = "no" /\ Sv.failed = "no" /\ ~Writing(Cl)
      /\ "client" \in Endpoints
  BY <1>1, EndsNow DEF Reading, Endpoints
<1>4. t = CheckedRetransmit(Cl) /\ u = Flushed(t) /\ out = t.wbio
  OBVIOUS
<1> HIDE DEF t, u, out
<1>5. t \in SSL
  <2>1. Sound(mode, "client", t, Sv)
    BY <1>4, Ends, CheckedRetransmitSound
  <2> QED
    BY <2>1 DEF Sound, Core
<1>6. Cl' = u /\ Sv' = Sv /\ Down' = Down /\ Up' = Up \o out /\ mode' = mode
  BY <1>1, <1>4, <1>5, ClientBecame
<1>7. Cl.tries + 1 <= TmoAlertCount
  <2>1. Cl.tries + 1 <= 2 * faults' + 1 /\ faults' \in Nat
    BY <1>2, <1>3, Ends, ClientFits DEF Tolerated
  <2>2. faults' <= MaxFaults /\ MaxFaults \in Nat /\ TmoAlertCount \in Nat
    BY DtlsAssumption DEF IInv
  <2>3. 2 * faults' + 1 <= TmoAlertCount
    BY <2>1, <2>2, Twice
  <2>4. Cl.tries \in Nat
    BY Ends, LinkIs
  <2> QED
    BY <2>1, <2>2, <2>3, <2>4
<1>8. Resent("client", Cl, u, out)
  BY <1>4, <1>7, Ends, ResentIs DEF Flushed
<1>9. ClientWrote(Cl, Sv, u, out) /\ u.st = Cl.st /\ u.failed = "no"
  <2>1. Steady(mode, Cl, Sv, Up, Down)
    BY DEF Tolerated, Tolerates
  <2>2. ClientWrote(Cl, Sv, u, out) /\ u.st = Cl.st
    BY <1>1, <1>3, <1>8, <2>1, ClientRewrites DEF Simple
  <2> QED
    BY <2>2 DEF ClientWrote
<1>10. u.tries = Cl.tries + 1 /\ u.readEpoch = Cl.readEpoch /\ u.writeEpoch = Cl.writeEpoch
  BY <1>8, Ends, FieldsOf DEF Resent, AllBut
<1>11. Paired(u, Sv)
  BY <1>3, <1>6, <1>9, EndsNext
<1>12. Tolerates(mode, u, Sv, Up \o out, Down, faults')
  BY <1>2, <1>3, <1>9, <1>10, <1>11, Ends, ClientRetries DEF Simple, Tolerated
<1> QED
  BY <1>6, <1>12 DEF Tolerated

(* The server repeats its flight.                                          *)
LEMMA ServerTimeoutStep ==
  ASSUME Simple, IInv, IInv', 2 * MaxFaults + 1 <= TmoAlertCount,
         InInit(Cl), Tolerated, InInit(Cl'), Timeout("server")
  PROVE  Tolerated'
<1> DEFINE t == CheckedRetransmit(Sv)
           u == Flushed(t)
           out == t.wbio
<1>1. Reading(Sv) /\ Sv.timer /\ Become("server", t, Up)
  BY DEF Timeout, Sv, Up
<1>2. TimedOut(Sv, Cl, Up, Down, faults, faults')
  <2>1. "client" \in Endpoints /\ "server" \in Endpoints /\ Peer("server") = "client"
    BY DEF Endpoints, Peer
  <2> QED
    BY <2>1 DEF Timeout, TimedOut, Cl, Sv, Up, Down
<1>3. /\ Paired(Cl, Sv) /\ Cl.failed = "no" /\ Sv.failed = "no" /\ "server" \in Endpoints
      /\ Sv.st \in {"SR_KEY_EXCH", "SR_CERT_VRFY"} /\ Steady(mode, Cl, Sv, Up, Down)
  <2>1. Paired(Cl, Sv) /\ Cl.failed = "no" /\ Sv.failed = "no" /\ ~Writing(Sv)
    BY <1>1, EndsNow DEF Reading
  <2>2. Steady(mode, Cl, Sv, Up, Down)
    BY DEF Tolerated, Tolerates
  <2>3. Sv.st \in {"SR_KEY_EXCH", "SR_CERT_VRFY"}
    BY <1>1, <2>1, <2>2 DEF Steady, Clocks, Idle, Paired, Writing
  <2> QED
    BY <2>1, <2>2, <2>3 DEF Endpoints
<1>4. t = CheckedRetransmit(Sv) /\ u = Flushed(t) /\ out = t.wbio
  OBVIOUS
<1> HIDE DEF t, u, out
<1>5. t \in SSL
  <2>1. Sound(mode, "server", t, Cl)
    BY <1>4, Ends, CheckedRetransmitSound
  <2> QED
    BY <2>1 DEF Sound, Core
<1>6. Sv' = u /\ Cl' = Cl /\ Up' = Up /\ Down' = Down \o out /\ mode' = mode
  BY <1>1, <1>4, <1>5, ServerBecame
<1>7. Sv.tries + 1 <= TmoAlertCount
  <2>1. Sv.tries + 1 <= 2 * faults' + 1 /\ faults' \in Nat
    BY <1>2, <1>3, Ends, ServerFits DEF Tolerated
  <2>2. faults' <= MaxFaults /\ MaxFaults \in Nat /\ TmoAlertCount \in Nat
    BY DtlsAssumption DEF IInv
  <2>3. 2 * faults' + 1 <= TmoAlertCount
    BY <2>1, <2>2, Twice
  <2>4. Sv.tries \in Nat
    BY Ends, LinkIs
  <2> QED
    BY <2>1, <2>2, <2>3, <2>4
<1>8. Resent("server", Sv, u, out)
  BY <1>4, <1>7, Ends, ResentIs DEF Flushed
<1>9. ServerWrote(Cl, Sv, u, out) /\ u.st = Sv.st /\ u.failed = "no"
  <2>1. ServerWrote(Cl, Sv, u, out) /\ u.st = Sv.st
    BY <1>3, <1>8, ServerRewrites DEF Simple
  <2> QED
    BY <2>1 DEF ServerWrote
<1>10. u.tries = Sv.tries + 1
  BY <1>8 DEF Resent
<1>11. Paired(Cl, u)
  BY <1>3, <1>6, <1>9, EndsNext
<1>12. Tolerates(mode, Cl, u, Up, Down \o out, faults')
  BY <1>2, <1>3, <1>9, <1>10, <1>11, Ends, ServerRetries DEF Simple, Tolerated
<1> QED
  BY <1>6, <1>12 DEF Tolerated

------------------------------------------------------------------------------
(* The server's application sends a datagram. *)

(* It comes behind what the client waits for.                              *)
LEMMA ServerAppStep ==
  ASSUME Simple, IInv, IInv', InInit(Cl), Tolerated, InInit(Cl'), WriteApp("server")
  PROVE  Tolerated'
<1> DEFINE d == [type |-> "APP", seq |-> 0, epoch |-> Sv.writeEpoch, digest |-> <<>>]
           ms == <<d>>
           t == Put(Sv, ms)
           yes == TRUE
           v == [t EXCEPT !.wrote = yes]
           u == Flushed(v)
<1>1. Sv.st = "OK" /\ Become("server", v, Up) /\ faults' = faults
  BY DEF WriteApp, InInit, Sv, Up
<1>2. /\ Paired(Cl, Sv) /\ Cl.failed = "no" /\ Sv.failed = "no" /\ Sv \in SSL
      /\ Sv.writeEpoch \in 0 .. 1
  <2>1. Paired(Cl, Sv) /\ Cl.failed = "no" /\ Sv.failed = "no" /\ Sv \in SSL
    BY EndsNow, Ends
  <2> QED
    BY <2>1, LinkIs
<1>3. d \in Kept /\ d.type = "APP"
  BY <1>2, NoneIn DEF Kept, Types
<1> HIDE DEF d
<1>4. ms \in Seq(Kept) /\ DOMAIN ms = {1} /\ ms[1] = d
  BY <1>3
<1> HIDE DEF ms
<1>5. t \in SSL /\ AllBut(Sv, t, {"wbio", "wseq"})
  BY <1>2, <1>4, PutIs
<1>6. PICK out : Sealed(out, ms) /\ t.wbio = Sv.wbio \o out /\ Numbered(Sv.wseq, t.wseq, out)
  BY <1>2, <1>4, PutIs
<1> HIDE DEF t
<1>7. /\ out \in Seq(Records) /\ t.wbio = out
      /\ \A i \in DOMAIN out : out[i].type # "ALERT"
  <2>1. out \in Seq(Records)
    BY <1>6 DEF Sealed
  <2>2. \A q \in Seq(Records) : <<>> \o q = q
    OBVIOUS
  <2>3. t.wbio = out
    BY <1>6, <2>1, <2>2, Ends
  <2>4. \A i \in DOMAIN out : out[i].type = "APP"
    BY <1>3, <1>4, <1>6 DEF Sealed
  <2> QED
    BY <2>1, <2>3, <2>4
<1>8. yes \in BOOLEAN
  OBVIOUS
<1> HIDE DEF yes
<1>9. v \in SSL /\ AllBut(t, v, {"wrote"})
  BY <1>5, <1>8 DEF SSL, AllBut
<1>10. Become("server", v, Up) /\ u = Flushed(v)
  BY <1>1
<1> HIDE DEF v
<1>11. v.wbio = out
  BY <1>5, <1>7, <1>9, FieldsOf DEF AllBut
<1>12. Sv' = u /\ Cl' = Cl /\ Up' = Up /\ Down' = Down \o out /\ mode' = mode
  BY <1>9, <1>10, <1>11, ServerBecame
<1>13. AllBut(v, u, {"wbio"})
  <2> DEFINE none == <<>>
  <2>1. u = [v EXCEPT !.wbio = none]
    BY <1>10 DEF Flushed
  <2> HIDE DEF none
  <2> QED
    BY <1>9, <2>1 DEF SSL, AllBut
<1> HIDE DEF u
<1>14. AllBut(Sv, u, {"wbio", "wseq", "wrote"})
  BY <1>2, <1>5, <1>9, <1>13, FieldsOf DEF AllBut
<1>15. /\ u.st = "OK" /\ Sees(Sv, u) /\ u.sent = Sv.sent /\ u.timer = Sv.timer
       /\ u.tries = Sv.tries /\ u.failed = "no" /\ u.buffered = Sv.buffered
       /\ u.appQueue = Sv.appQueue
  BY <1>1, <1>2, <1>14, FieldsOf DEF AllBut, Sees
<1>16. Numbered(Sv.wseq, u.wseq, out)
  <2>1. u.wseq = t.wseq
    BY <1>5, <1>9, <1>13, FieldsOf DEF AllBut
  <2> QED
    BY <1>6, <2>1
<1>17. Paired(Cl, u)
  BY <1>2, <1>12, <1>15, EndsNext
<1>18. Tolerates(mode, Cl, u, Up, Down \o out, faults)
  BY <1>1, <1>2, <1>7, <1>15, <1>16, <1>17, Ends, ServerTells DEF Simple, Tolerated
<1> QED
  BY <1>1, <1>12, <1>18 DEF Tolerated

------------------------------------------------------------------------------
(* A datagram is lost. *)

(* What does not depend on the faults holds of fewer records too.          *)
LEMMA SteadyLess ==
  ASSUME NEW md, NEW c, NEW s, NEW up, NEW down, Steady(md, c, s, up, down),
         NEW up2, NEW down2, ToSet(up2) \subseteq ToSet(up), ToSet(down2) \subseteq ToSet(down),
         Link(c, s, up) => Link(c, s, up2), Link(s, c, down) => Link(s, c, down2)
  PROVE  Steady(md, c, s, up2, down2)
<1> DEFINE U == ToSet(up)
           D == ToSet(down)
           U2 == ToSet(up2)
           D2 == ToSet(down2)
<1>1. /\ Quiet(c, s, U, D) /\ Clocks(c, s) /\ Flights(md, c, s) /\ Stages(md, c, s, U, D)
      /\ Link(c, s, up2) /\ U2 \subseteq U /\ D2 \subseteq D
      /\ IF Settled(s) THEN Link(s, c, down2) ELSE Opening(md, c, s, U, D)
  BY DEF Steady
<1> HIDE DEF U, D, U2, D2
<1>2. Quiet(c, s, U2, D2)
  BY <1>1 DEF Quiet
<1>3. Stages(md, c, s, U2, D2)
  BY <1>1 DEF Stages, Has
<1>4. Opening(md, c, s, U, D) => Opening(md, c, s, U2, D2)
  <2> SUFFICES ASSUME Opening(md, c, s, U, D) PROVE Opening(md, c, s, U2, D2)
    OBVIOUS
  <2>1. PICK h \in 0 .. c.wseq[0] :
          /\ Under(c.bitmap, h)
          /\ \A m \in U : IF m.type = "CHC" THEN h <= m.rseq ELSE m.rseq < h
          /\ \A m \in D : m.rseq < h
          /\ s.st = "SW_HELLO_VERIFY" => s.wseq[0] < h
    BY DEF Opening
  <2>2. /\ \A m \in U2 : IF m.type = "CHC" THEN h <= m.rseq ELSE m.rseq < h
        /\ \A m \in D2 : m.rseq < h
    BY <1>1, <2>1
  <2> QED
    BY <2>1, <2>2 DEF Opening
<1> QED
  BY <1>1, <1>2, <1>3, <1>4 DEF Steady, U2, D2

(* A fault pays for what is lost.                                          *)
LEMMA LessIsTolerated ==
  ASSUME NEW c, NEW s, Paired(c, s), NEW up \in Seq(Records), NEW down \in Seq(Records),
         NEW f \in Nat, Tolerates(mode, c, s, up, down, f),
         NEW up2, NEW down2, ToSet(up2) \subseteq ToSet(up), ToSet(down2) \subseteq ToSet(down),
         Link(c, s, up) => Link(c, s, up2), Link(s, c, down) => Link(s, c, down2),
         NEW f2, f2 = f + 1
  PROVE  Tolerates(mode, c, s, up2, down2, f2)
<1>1. Steady(mode, c, s, up2, down2)
  BY SteadyLess DEF Tolerates
<1>2. Hoped(c, s, up2, down2, f2) /\ Within(c, s, f2)
  <2>1. f2 \in Nat /\ f + 1 <= f2 /\ Within(c, s, f)
    BY DEF Tolerates, Budget
  <2> QED
    BY <2>1, Faulty
<1>3. Paid(c, s, ToSet(up2))
  <2> SUFFICES ASSUME ReadFin(s.st) PROVE s.tries < Cardinality(Gone(c, s, ToSet(up2)))
    BY DEF Paid
  <2>1. s.tries < Cardinality(Gone(c, s, ToSet(up)))
    BY DEF Tolerates, Budget, Paid
  <2>2. c.tries \in Nat /\ s.tries \in Nat
    BY LinkIs DEF Paired
  <2>3. /\ Cardinality(Gone(c, s, ToSet(up))) <= Cardinality(Gone(c, s, ToSet(up2)))
        /\ Cardinality(Gone(c, s, ToSet(up))) \in Nat
        /\ Cardinality(Gone(c, s, ToSet(up2))) \in Nat
    <3> DEFINE U == ToSet(up)
               U2 == ToSet(up2)
    <3>1. U2 \subseteq U
      OBVIOUS
    <3> HIDE DEF U, U2
    <3>2. /\ Cardinality(Gone(c, s, U)) <= Cardinality(Gone(c, s, U2))
          /\ Cardinality(Gone(c, s, U)) \in Nat /\ Cardinality(Gone(c, s, U2)) \in Nat
      BY <2>2, <3>1, GoneGrows
    <3> QED
      BY <3>2 DEF U, U2
  <2> HIDE DEF Gone
  <2> QED
    BY <2>1, <2>2, <2>3
<1> QED
  BY <1>1, <1>2, <1>3 DEF Tolerates, Budget

(* A datagram on its way to either is lost.                                *)
LEMMA LostStep ==
  ASSUME Simple, IInv, InInit(Cl), Tolerated, NEW e \in Endpoints, Lose(e)
  PROVE  Tolerated'
<1>1. PICK i \in DOMAIN net[e] : net' = [net EXCEPT ![e] = RemoveAt(net[e], i)]
  BY DEF Lose
<1>2. mode' = mode /\ conn' = conn /\ faults' = faults + 1 /\ Paired(Cl, Sv)
  BY EndsNow DEF Lose
<1>3. Cl' = Cl /\ Sv' = Sv
  BY <1>2 DEF Cl, Sv
<1>4. CASE e = "client"
  <2>1. i \in DOMAIN Down
    BY <1>1, <1>4 DEF Down
  <2> DEFINE q == RemoveAt(Down, i)
  <2>2. Down' = q /\ Up' = Up
    <3>1. net \in [Endpoints -> Seq(Records)] /\ "client" \in Endpoints /\ "server" \in Endpoints
      BY DEF IInv, Endpoints
    <3>2. net' = [net EXCEPT !["client"] = q]
      BY <1>1, <1>4 DEF Down
    <3> HIDE DEF q
    <3>3. net'["client"] = q /\ net'["server"] = net["server"]
      BY <3>1, <3>2
    <3> QED
      BY <3>3 DEF Up, Down
  <2>3. ToSet(q) \subseteq ToSet(Down) /\ (Link(Sv, Cl, Down) => Link(Sv, Cl, q))
    BY <2>1, Ends, InRemoved, LinkDrop
  <2> HIDE DEF q
  <2>4. Tolerates(mode, Cl, Sv, Up, q, faults')
    BY <1>2, <2>3, Ends, LessIsTolerated DEF Tolerated
  <2> QED
    BY <1>2, <1>3, <2>2, <2>4 DEF Tolerated
<1>5. CASE e = "server"
  <2>1. i \in DOMAIN Up
    BY <1>1, <1>5 DEF Up
  <2> DEFINE q == RemoveAt(Up, i)
  <2>2. Up' = q /\ Down' = Down
    <3>1. net \in [Endpoints -> Seq(Records)] /\ "client" \in Endpoints /\ "server" \in Endpoints
      BY DEF IInv, Endpoints
    <3>2. net' = [net EXCEPT !["server"] = q]
      BY <1>1, <1>5 DEF Up
    <3> HIDE DEF q
    <3>3. net'["server"] = q /\ net'["client"] = net["client"]
      BY <3>1, <3>2
    <3> QED
      BY <3>3 DEF Up, Down
  <2>3. ToSet(q) \subseteq ToSet(Up) /\ (Link(Cl, Sv, Up) => Link(Cl, Sv, q))
    BY <2>1, Ends, InRemoved, LinkDrop
  <2> HIDE DEF q
  <2>4. Tolerates(mode, Cl, Sv, q, Down, faults')
    BY <1>2, <2>3, Ends, LessIsTolerated DEF Tolerated
  <2> QED
    BY <1>2, <1>3, <2>2, <2>4 DEF Tolerated
<1> QED
  BY <1>4, <1>5 DEF Endpoints

------------------------------------------------------------------------------
(* A client that has completed stays complete.                              *)

(* Writing a record does not change the state of the handshake.             *)
LEMMA PutStays ==
  ASSUME NEW s \in SSL, NEW ms
  PROVE  Put(s, ms).st = s.st /\ DOMAIN Put(s, ms) = DOMAIN s
<1> DEFINE a == (Put(s, ms)).wbio
           b == (Put(s, ms)).wseq
<1>1. "st" \in DOMAIN s /\ "wbio" \in DOMAIN s /\ "wseq" \in DOMAIN s
  BY DEF SSL
<1> QED
  BY <1>1 DEF Put

(* Nor does an alert.                                                       *)
LEMMA FailStays ==
  ASSUME NEW s \in SSL, NEW why
  PROVE  Fail(s, why).st = s.st
<1> DEFINE ms == <<[type |-> "ALERT", seq |-> 0, epoch |-> s.writeEpoch, digest |-> <<>>]>>
<1>1. Fail(s, why) = [Put(s, ms) EXCEPT !.failed = why]
  BY DEF Fail
<1> HIDE DEF ms
<1>2. Put(s, ms).st = s.st /\ DOMAIN Put(s, ms) = DOMAIN s /\ "st" \in DOMAIN s
  BY PutStays DEF SSL
<1> QED
  BY <1>1, <1>2

(* Nor does a retransmission.                                               *)
LEMMA RetransmitStays ==
  ASSUME NEW s \in SSL
  PROVE  CheckedRetransmit(s).st = s.st
<1>1. s.tries + 1 \in Nat
  BY DEF SSL
<1> DEFINE n == s.tries + 1
           x == [s EXCEPT !.tries = n]
<1> HIDE DEF n
<1>2. x \in SSL /\ x.st = s.st
  BY <1>1 DEF SSL, n
<1>3. Put(x, x.sent).st = s.st
  BY <1>2, PutStays
<1>4. [s EXCEPT !.tries = n, !.failed = "READ_TIMEOUT_EXPIRED"].st = s.st
  BY DEF SSL
<1>5. CheckedRetransmit(s) = IF s.tries + 1 > TmoAlertCount
        THEN [s EXCEPT !.tries = n, !.failed = "READ_TIMEOUT_EXPIRED"] ELSE Put(x, x.sent)
  BY DEF CheckedRetransmit, Retransmit, n
<1> HIDE DEF x
<1> QED
  BY <1>3, <1>4, <1>5

(* Whatever record a completed endpoint processes, it stays complete.       *)
LEMMA ProcessStays ==
  ASSUME NEW e, NEW s \in SSL, s.st = "OK", NEW m
  PROVE  Process(e, s, m).st = "OK"
<1>1. ~Listening(s) /\ ~InInit(s)
  BY DEF Listening, InInit
<1>2. [s EXCEPT !.appQueue = @ \cup {m}].st = "OK" /\ [s EXCEPT !.failed = "PEER_ALERT"].st = "OK"
      /\ [s EXCEPT !.read = Append(@, m.rseq)].st = "OK"
  BY DEF SSL
<1>3. ReadCcs(s).st = "OK"
  BY FailStays DEF ReadCcs, CcsOk
<1>4. UnexpectedHandshake(e, s, m).st = "OK"
  BY FailStays, RetransmitStays DEF UnexpectedHandshake
<1> QED
  BY <1>1, <1>2, <1>3, <1>4 DEF Process, IsHandshake

(* Becoming t, an endpoint is in the state of t.                            *)
LEMMA BecameIn ==
  ASSUME IInv, IInv', NEW e \in Endpoints, NEW t, NEW left, Become(e, t, left)
  PROVE  conn'[e].st = t.st
<1>1. conn' = [conn EXCEPT ![e] = [t EXCEPT !.wbio = <<>>]] /\ e \in DOMAIN conn
  BY DEF Become, IInv
<1>2. conn'[e] = [t EXCEPT !.wbio = <<>>] /\ conn'[e] \in SSL
  BY <1>1 DEF IInv
<1>3. "st" \in DOMAIN conn'[e]
  BY <1>2 DEF SSL
<1> QED
  BY <1>2, <1>3

(* No step of its own takes a client back into the handshake.              *)
LEMMA ClientStays ==
  ASSUME IInv, IInv', ~InInit(Cl), Step("client")
  PROVE  ~InInit(Cl')
<1>1. Cl \in SSL /\ Cl.st = "OK" /\ "client" \in Endpoints /\ Cl = conn["client"]
  BY Ends DEF InInit, Endpoints, Cl
<1>2. ASSUME NEW t, NEW left, Become("client", t, left), t.st = "OK" PROVE ~InInit(Cl')
  BY <1>1, <1>2, BecameIn DEF InInit, Cl
<1>3. CASE SendFlight("client")
  BY <1>1, <1>3 DEF SendFlight, Writing
<1>4. CASE TakeBuffered("client")
  BY <1>1, <1>4 DEF TakeBuffered, HasBuffered, InInit
<1>5. CASE TakeUnprocessed("client")
  <2> DEFINE r == Lowest(Cl.unprocessed)
             s == [Cl EXCEPT !.unprocessed = @ \ {r}]
  <2>1. Become("client", Process("client", s, r), net["client"])
    BY <1>1, <1>5 DEF TakeUnprocessed
  <2> HIDE DEF r
  <2>2. s \in SSL /\ s.st = "OK"
    BY <1>1 DEF SSL
  <2> HIDE DEF s
  <2> QED
    BY <1>2, <2>1, <2>2, ProcessStays
<1>6. CASE TakeApp("client")
  <2> DEFINE r == Lowest(Cl.appQueue)
             s == [Cl EXCEPT !.appQueue = @ \ {r}]
  <2>1. Become("client", Process("client", s, r), net["client"])
    BY <1>1, <1>6 DEF TakeApp
  <2> HIDE DEF r
  <2>2. s \in SSL /\ s.st = "OK"
    BY <1>1 DEF SSL
  <2> HIDE DEF s
  <2> QED
    BY <1>2, <2>1, <2>2, ProcessStays
<1>7. CASE Receive("client")
  <2>1. PICK i \in DOMAIN Down : \E left : Become("client", GetRecord("client", Cl, Down[i]), left)
    BY <1>1, <1>7 DEF Receive, Down
  <2> DEFINE m == Down[i]
             b == Mark(Cl.bitmap, m.rseq)
             s == [Cl EXCEPT !.bitmap = b]
  <2>2. b \in Bitmaps
    <3>1. m \in Records
      BY <2>1, Ends
    <3>2. Cl.bitmap \in Bitmaps /\ m.rseq \in Nat
      BY <1>1, <3>1 DEF SSL, Records
    <3> QED
      BY <3>2, Marked
  <2> HIDE DEF b
  <2>3. s \in SSL /\ s.st = "OK"
    BY <1>1, <2>2 DEF SSL
  <2>4. \/ GetRecord("client", Cl, m) = Cl
        \/ GetRecord("client", Cl, m) = Process("client", s, m)
    BY <1>1 DEF GetRecord, InInit, b
  <2> HIDE DEF s
  <2>5. GetRecord("client", Cl, m).st = "OK"
    BY <1>1, <2>3, <2>4, ProcessStays
  <2> QED
    BY <1>2, <2>1, <2>5
<1>8. CASE Timeout("client")
  <2>1. Become("client", CheckedRetransmit(Cl), net["client"])
    BY <1>1, <1>8 DEF Timeout
  <2> QED
    BY <1>1, <1>2, <2>1, RetransmitStays
<1>9. CASE WriteApp("client")
  <2> DEFINE d == <<[type |-> "APP", seq |-> 0, epoch |-> Cl.writeEpoch, digest |-> <<>>]>>
             t == Put(Cl, d)
             yes == TRUE
  <2>1. Become("client", [t EXCEPT !.wrote = yes], net["client"])
    BY <1>1, <1>9 DEF WriteApp
  <2> HIDE DEF d, yes
  <2>2. t.st = "OK" /\ "st" \in DOMAIN t
    BY <1>1, PutStays DEF SSL
  <2> HIDE DEF t
  <2>3. [t EXCEPT !.wrote = yes].st = "OK"
    BY <2>2
  <2> QED
    BY <1>2, <2>1, <2>3
<1>10. CASE Lose("client")
  BY <1>1, <1>10 DEF Lose, Cl, InInit
<1> QED
  BY <1>3, <1>4, <1>5, <1>6, <1>7, <1>8, <1>9, <1>10 DEF Step

(* What the server does leaves the client alone.                            *)
LEMMA ClientLeft ==
  ASSUME IInv, Step("server")
  PROVE  Cl' = Cl
<1>1. conn \in [Endpoints -> SSL] /\ "client" \in Endpoints /\ "client" # "server"
  BY DEF IInv, Endpoints
<1>2. ASSUME NEW t, NEW left, Become("server", t, left) PROVE Cl' = Cl
  <2> DEFINE none == <<>>
             u == [t EXCEPT !.wbio = none]
  <2>1. conn' = [conn EXCEPT !["server"] = u]
    BY <1>2 DEF Become
  <2> HIDE DEF u
  <2> QED
    BY <1>1, <2>1 DEF Cl
<1>3. (\E t, left : Become("server", t, left)) \/ conn' = conn
  BY DEF Step, SendFlight, TakeBuffered, TakeUnprocessed, TakeApp, Receive, Timeout, WriteApp, Lose
<1> QED
  BY <1>2, <1>3 DEF Cl

------------------------------------------------------------------------------
(* The invariant.                                                           *)

TInv == IInv /\ (InInit(Cl) => Tolerated)

(* Before anything has been said nothing has been lost.                     *)
LEMMA StartTolerated ==
  ASSUME Init
  PROVE  Tolerated
<1>1. /\ Cl = Fresh("CW_CLNT_HELLO") /\ Sv = Fresh("SR_CLNT_HELLO")
      /\ Up = <<>> /\ Down = <<>> /\ faults = 0
  BY DEF Init, Cl, Sv, Up, Down, Endpoints
<1> DEFINE q == <<>>
<1>2. ToSet(q) = {} /\ DOMAIN q = {} /\ Up = q /\ Down = q
  BY <1>1 DEF ToSet
<1> HIDE DEF q
<1>3. /\ Cl.st = "CW_CLNT_HELLO" /\ Cl.failed = "no" /\ Cl.unprocessed = {} /\ Cl.tries = 0
      /\ ~Cl.timer /\ Cl.sent = <<>> /\ Cl.writeEpoch = 0 /\ Cl.wseq[0] = 0 /\ Cl.wseq[1] = 0
      /\ ~Cl.sendCookie /\ Cl.bitmap = NoRecords /\ Cl.nextBitmap = NoRecords
  BY <1>1 DEF Fresh
<1>4. /\ Sv.st = "SR_CLNT_HELLO" /\ Sv.failed = "no" /\ Sv.unprocessed = {} /\ Sv.tries = 0
      /\ ~Sv.timer /\ Sv.appQueue = {} /\ Sv.buffered = {} /\ Sv.writeEpoch = 0
      /\ Sv.readEpoch = 0 /\ Sv.bitmap = NoRecords /\ Sv.nextBitmap = NoRecords
  BY <1>1 DEF Fresh
<1>5. Quiet(Cl, Sv, {}, {}) /\ Clocks(Cl, Sv) /\ Flights(mode, Cl, Sv)
      /\ Stages(mode, Cl, Sv, {}, {})
  BY <1>3, <1>4 DEF Quiet, Clocks, Idle, Flights, Stages, Settled, Has, Helloed
<1>6. Link(Cl, Sv, q)
  BY <1>2, <1>4 DEF Link, Under
<1>7. ~Settled(Sv) /\ Opening(mode, Cl, Sv, {}, {})
  <2>1. 0 \in 0 .. Cl.wseq[0]
    BY <1>3
  <2> QED
    BY <1>3, <1>4, <2>1 DEF Settled, Opening, Under
<1>8. Steady(mode, Cl, Sv, q, q)
  BY <1>2, <1>5, <1>6, <1>7 DEF Steady
<1>9. Budget(Cl, Sv, q, q, 0)
  <2>1. Hoped(Cl, Sv, q, q, 0)
    BY <1>3, <1>4 DEF Hoped, Helloed
  <2>2. Within(Cl, Sv, 0)
    BY <1>3, <1>4 DEF Within
  <2>3. Paid(Cl, Sv, ToSet(q))
    BY <1>4 DEF Paid, ReadFin
  <2> QED
    BY <2>1, <2>2, <2>3 DEF Budget
<1> QED
  BY <1>1, <1>2, <1>8, <1>9 DEF Tolerated, Tolerates

(* A step of the client during its handshake.                               *)
LEMMA ClientStepTolerated ==
  ASSUME Simple, IInv, IInv', 2 * MaxFaults + 1 <= TmoAlertCount,
         InInit(Cl), Tolerated, InInit(Cl'), Step("client")
  PROVE  Tolerated'
<1>1. ~TakeApp("client") /\ ~WriteApp("client")
  BY DEF TakeApp, WriteApp, HasAppQueue, Cl
<1>2. ~TakeUnprocessed("client")
  BY ClientKeptStep
<1>3. Lose("client") => Tolerated'
  BY LostStep DEF Endpoints
<1> QED
  BY <1>1, <1>2, <1>3, ClientFlightStep, ClientBufferedStep, ClientReceiveStep,
     ClientTimeoutStep DEF Step

(* A step of the server during the handshake of the client.                 *)
LEMMA ServerStepTolerated ==
  ASSUME Simple, IInv, IInv', 2 * MaxFaults + 1 <= TmoAlertCount,
         InInit(Cl), Tolerated, InInit(Cl'), Step("server")
  PROVE  Tolerated'
<1>1. ~TakeBuffered("server") /\ ~TakeApp("server")
  BY NothingElseKept
<1>2. Lose("server") => Tolerated'
  BY LostStep DEF Endpoints
<1> QED
  BY <1>1, <1>2, ServerFlightStep, ServerKeptStep, ServerReceiveStep,
     ServerTimeoutStep, ServerAppStep DEF Step

(* Every step preserves the invariant.                                      *)
LEMMA TInvKept ==
  ASSUME \A md \in Modes : Plain(md) /\ md.cookie # "accept",
         2 * MaxFaults + 1 <= TmoAlertCount, TInv, [Next]_vars
  PROVE  TInv'
<1>1. IInv /\ IInv'
  BY NextSound DEF TInv
<1>2. Simple
  BY <1>1, DtlsAssumption DEF IInv, Simple
<1> SUFFICES ASSUME InInit(Cl') PROVE Tolerated'
  BY <1>1 DEF TInv
<1>3. CASE UNCHANGED vars
  <2>1. Cl' = Cl /\ Sv' = Sv /\ Up' = Up /\ Down' = Down /\ mode' = mode /\ faults' = faults
    BY <1>3 DEF vars, Cl, Sv, Up, Down
  <2>2. Tolerated
    BY <2>1 DEF TInv
  <2> QED
    BY <2>1, <2>2 DEF Tolerated
<1>4. CASE Over
  <2>1. Cl' = Cl /\ Sv' = Sv /\ Up' = Up /\ Down' = Down /\ mode' = mode /\ faults' = faults
    BY <1>4 DEF Over, vars, Cl, Sv, Up, Down
  <2>2. Tolerated
    BY <2>1 DEF TInv
  <2> QED
    BY <2>1, <2>2 DEF Tolerated
<1>5. CASE Step("client")
  <2>1. InInit(Cl)
    BY <1>1, <1>5, ClientStays
  <2> QED
    BY <1>1, <1>2, <1>5, <2>1, ClientStepTolerated DEF TInv
<1>6. CASE Step("server")
  <2>1. InInit(Cl)
    BY <1>1, <1>6, ClientLeft
  <2> QED
    BY <1>1, <1>2, <1>6, <2>1, ServerStepTolerated DEF TInv
<1> QED
  BY <1>3, <1>4, <1>5, <1>6 DEF Next, Endpoints

(* The invariant says that nobody fails before it has completed.            *)
LEMMA TInvTolerates ==
  ASSUME \A md \in Modes : Plain(md) /\ md.cookie # "accept", TInv
  PROVE  LossIsTolerated
<1>1. CASE InInit(Cl)
  <2>1. Cl.failed = "no" /\ Sv.failed = "no"
    BY <1>1 DEF TInv, Tolerated, Tolerates, Steady, Quiet
  <2> QED
    BY <2>1 DEF LossIsTolerated, Endpoints, Cl, Sv
<1>2. CASE ~InInit(Cl)
  <2>1. /\ IInv /\ mode \in ModeSpace /\ Plain(mode)
    BY DtlsAssumption DEF TInv, IInv
  <2>2. /\ Epochs(mode, "client", Cl) /\ Peers(mode, "client", Cl, Sv)
        /\ Epochs(mode, "server", Sv)
    BY <2>1, Ends DEF Sound, Core
  <2>3. Cl.readEpoch = 1
    BY <1>2, <2>2 DEF Epochs, ReadFin, InInit
  <2>4. Sv.writeEpoch = 1
    BY <2>2, <2>3 DEF Peers
  <2>5. ~InInit(Sv)
    BY <2>1, <2>2, <2>4 DEF Epochs, WroteFin, InInit, Plain
  <2> QED
    BY <1>2, <2>5 DEF LossIsTolerated, Endpoints, Cl, Sv
<1> QED
  BY <1>1, <1>2

(* Losing, duplicating and reordering datagrams, and timers that run out    *)
(* early, never break a full handshake when an endpoint that may time out   *)
(* TmoAlertCount times meets fewer than half as many faults: neither fails  *)
(* before it has completed (dtls1_check_timeout_num,                        *)
(* dtls1_get_message_fragment, dtls1_get_record,                            *)
(* ssl3_read_change_cipher_spec).                                           *)
THEOREM FewFaultsAreTolerated ==
  ASSUME \A md \in Modes : Plain(md) /\ md.cookie # "accept",
         2 * MaxFaults + 1 <= TmoAlertCount
  PROVE  Spec => []LossIsTolerated
<1>1. Init => TInv
  BY InitSound, StartTolerated DEF TInv
<1>2. TInv /\ [Next]_vars => TInv'
  BY TInvKept
<1>3. TInv => LossIsTolerated
  BY TInvTolerates
<1> QED
  BY <1>1, <1>2, <1>3, PTL DEF Spec
=============================================================================
