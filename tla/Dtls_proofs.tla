---------------------------- MODULE Dtls_proofs ----------------------------
(***************************************************************************)
(* The DTLS handshake, for every kind of handshake, every replay window    *)
(* and any number of datagrams lost, duplicated and overtaken: its types,  *)
(* that both ends compute the same transcript, that a message is sent      *)
(* under the epoch it was first sent in, that somebody always has          *)
(* something to do, that application data is read once, and, for a full    *)
(* handshake without a client certificate, that no message is fatal before *)
(* the handshake is complete.                                              *)
(*                                                                         *)
(* Why: a handshake of one kind is one conversation.  Every message has    *)
(* one number, a Finished one digest (Good), and each state one next       *)
(* number, one transcript and one epoch in each direction (Numbers,        *)
(* Transcript, Epochs).  So the message with the number a reader waits for *)
(* is the message it waits for, whatever else is on its way; what came too *)
(* early waits in a buffer and still is what its writer wrote (Peers).     *)
(* The two ends depend on each other through few facts, which no later     *)
(* step undoes (Reached, Onward): who has sent a ServerHello, and who has  *)
(* sent a Finished.                                                        *)
(*                                                                         *)
(* A handler maps an SSL object to an SSL object, so most lemmas are about *)
(* one endpoint s, its peer p, and the object the handler makes of s.      *)
(***************************************************************************)
EXTENDS Dtls, SequenceTheorems, FiniteSetTheorems, WellFoundedInduction, TLAPS

(* The types of the fields.                                                *)
Kept == [type : Types, seq : Nat, epoch : 0 .. 1, digest : Seq(Types)]
Bitmaps == [max : Nat, map : SUBSET Nat]
Reasons == {"no", "PEER_ALERT", "READ_TIMEOUT_EXPIRED", "CCS_RECEIVED_EARLY",
            "GOT_A_FIN_BEFORE_A_CCS", "DIGEST_CHECK_FAILED", "MISSING_VERIFY_MESSAGE",
            "UNEXPECTED_MESSAGE", "UNEXPECTED_RECORD"}
SSL ==
  [st : States, failed : Reasons, sendCookie : BOOLEAN, readSeq : Nat, nextSeq : Nat,
   buffered : SUBSET Records, sent : Seq(Kept), readEpoch : 0 .. 1, writeEpoch : 0 .. 1,
   wseq : [0 .. 1 -> Nat], bitmap : Bitmaps, nextBitmap : Bitmaps,
   unprocessed : SUBSET Records, ccs : BOOLEAN, peerFin : Seq(Types),
   transcript : Seq(Types), timer : BOOLEAN, tries : Nat, appQueue : SUBSET Records,
   wrote : BOOLEAN, read : Seq(Nat), wbio : Seq(Records)]

------------------------------------------------------------------------------
(* What the endpoints say to each other, in a handshake of kind md.         *)

One(b) == IF b THEN 1 ELSE 0
Grown(s, b, x) == IF b THEN Append(s, x) ELSE s

\* The transcript, one message after the other.
Hello(md)       == <<IF md.cookie = "none" THEN "CH" ELSE "CHC">>
ServerHello(md) == Append(Hello(md), "SH")
Certificate(md) == Append(ServerHello(md), "CERT")
Request(md)     == Grown(Certificate(md), md.cert, "CREQ")
HelloDone(md)   == Append(Request(md), "SHD")
ClientCert(md)  == Grown(HelloDone(md), md.cert, "CERT")
KeyExchange(md) == Append(ClientCert(md), "CKE")
Verified(md)    == Grown(KeyExchange(md), md.cert, "CVFY")
ClientFin(md)   == Append(Verified(md), "FIN")
NewTicket(md)   == Grown(ClientFin(md), md.ticket, "NST")
ServerFin(md)   == Append(NewTicket(md), "FIN")

HitTicket(md)    == Grown(ServerHello(md), md.ticket, "NST")
HitServerFin(md) == Append(HitTicket(md), "FIN")
HitClientFin(md) == Append(HitServerFin(md), "FIN")

Everything(md) == IF md.hit THEN HitClientFin(md) ELSE ServerFin(md)

\* What the Finished of e is computed over.
FinDigest(md, e) ==
  IF e = "client" THEN IF md.hit THEN HitServerFin(md) ELSE Verified(md)
                  ELSE IF md.hit THEN HitTicket(md) ELSE NewTicket(md)

\* The handshake messages e writes, and the number each has.
Says(md, e, x) ==
  IF e = "client"
  THEN \/ x \in {"CH", "FIN"}
       \/ x = "CHC" /\ md.cookie # "none"
       \/ x = "CKE" /\ ~md.hit
       \/ x \in {"CERT", "CVFY"} /\ ~md.hit /\ md.cert
  ELSE \/ x \in {"SH", "FIN"}
       \/ x = "HVR" /\ md.cookie # "none"
       \/ x \in {"CERT", "SHD"} /\ ~md.hit
       \/ x = "CREQ" /\ ~md.hit /\ md.cert
       \/ x = "NST" /\ md.ticket

Base(md) == One(md.cookie # "none")

Number(md, e, x) ==
  LET c == One(md.cert)
  IN IF e = "client"
     THEN IF x = "CH" THEN 0
          ELSE IF x = "CHC" THEN 1
          ELSE IF x = "CERT" THEN Base(md) + 1
          ELSE IF x = "CKE" THEN Base(md) + 1 + c
          ELSE IF x = "CVFY" THEN Base(md) + 2 + c
          ELSE IF md.hit THEN Base(md) + 1 ELSE Base(md) + 2 + c + c
     ELSE IF x = "HVR" THEN 0
          ELSE IF x = "SH" THEN Base(md)
          ELSE IF x = "CERT" THEN Base(md) + 1
          ELSE IF x = "CREQ" THEN Base(md) + 2
          ELSE IF x = "SHD" THEN Base(md) + 2 + c
          ELSE IF x = "NST" THEN IF md.hit THEN Base(md) + 1 ELSE Base(md) + 3 + c
          ELSE IF md.hit THEN Base(md) + 1 + One(md.ticket)
                         ELSE Base(md) + 3 + c + One(md.ticket)

\* What is true of every message m that e has written.
Good(md, e, m) ==
  /\ m.type \in {"FIN", "APP"} => m.epoch = 1
  /\ m.type \notin {"FIN", "APP", "ALERT"} => m.epoch = 0
  /\ m.type = "FIN" => m.digest = FinDigest(md, e)
  /\ IsHandshake(m) => Says(md, e, m.type) /\ m.seq = Number(md, e, m.type)

------------------------------------------------------------------------------
(* One endpoint.                                                           *)

\* A server that has sent its ServerHello, a client that has read it.
Helloed(st) == st \notin {"SR_CLNT_HELLO", "SW_HELLO_VERIFY", "SW_SRVR_HELLO"}
Answered(st) == st \notin {"CW_CLNT_HELLO", "CR_SRVR_HELLO"}

\* The states a handshake of kind md goes through.
ClientStates(md) ==
  {"CW_CLNT_HELLO", "CR_SRVR_HELLO", "CR_FINISHED", "OK"} \cup
  IF md.hit THEN {"CW_CHANGE"}
  ELSE {"CR_CERT", "CR_CERT_REQ", "CW_CERT"}
         \cup (IF md.cert THEN {"CR_SRVR_DONE"} ELSE {})
         \cup (IF md.ticket THEN {"CR_SESSION_TICKET"} ELSE {})
ServerStates(md) ==
  {"SR_CLNT_HELLO", "SW_SRVR_HELLO", "OK"}
  \cup (IF md.cookie = "none" THEN {} ELSE {"SW_HELLO_VERIFY"})
  \cup (IF md.hit \/ md.cert THEN {"SR_FINISHED"} ELSE {})
  \cup (IF ~md.hit /\ md.cert THEN {"SR_CERT"} ELSE {})
  \cup (IF ~md.hit THEN {"SR_KEY_EXCH", "SR_CERT_VRFY", "SW_CHANGE"} ELSE {})
StatesOf(md, e) == IF e = "client" THEN ClientStates(md) ELSE ServerStates(md)

\* Has written, has read its peer's, Finished.
WroteFin(md, e, st) ==
  \/ st = "OK"
  \/ e = "client" /\ ~md.hit /\ st \in {"CR_SESSION_TICKET", "CR_FINISHED"}
  \/ e = "server" /\ md.hit /\ st = "SR_FINISHED"
ReadFin(st) == st \in {"OK", "CW_CHANGE", "SW_CHANGE"}

\* The epochs follow the Finished messages; a CCS is taken before its Finished.
Epochs(md, e, s) ==
  /\ s.writeEpoch = 1 <=> WroteFin(md, e, s.st)
  /\ s.readEpoch = 1 <=> (s.ccs \/ ReadFin(s.st))
  /\ s.ccs => CcsOk(s)

\* The sequence numbers in each state.
Numbers(md, e, s) ==
  LET k == Base(md)  c == One(md.cert)  t == One(md.ticket)  h == One(s.sendCookie)
      At(st, r) == s.st = st => s.readSeq = r
      Due(sts, n) == s.st \in sts => s.nextSeq = n
  IN IF e = "client"
     THEN /\ At("CW_CLNT_HELLO", h) /\ At("CR_SRVR_HELLO", h)
          /\ At("CR_CERT", k + 1) /\ At("CR_CERT_REQ", k + 2) /\ At("CR_SRVR_DONE", k + 3)
          /\ At("CW_CERT", k + 3 + c)
          /\ At("CR_SESSION_TICKET", k + 3 + c)
          /\ At("CR_FINISHED", IF md.hit THEN k + 1 ELSE k + 3 + c + t)
          /\ Due({"CW_CLNT_HELLO"}, h) /\ Due({"CR_SRVR_HELLO"}, h + 1)
          /\ Due({"CR_CERT", "CR_CERT_REQ", "CR_SRVR_DONE", "CW_CERT", "CW_CHANGE"}, k + 1)
          /\ md.hit => Due({"CR_FINISHED"}, k + 1)
          /\ s.sendCookie => md.cookie # "none"
     ELSE /\ s.st = "SR_CLNT_HELLO" =>
               /\ s.readSeq = s.nextSeq
               /\ s.nextSeq = 0 \/ (s.nextSeq = 1 /\ md.cookie = "accept")
          /\ At("SW_HELLO_VERIFY", One(md.cookie = "accept"))
          /\ At("SW_SRVR_HELLO", k + 1) /\ At("SR_CERT", k + 1) /\ At("SR_KEY_EXCH", k + 1 + c)
          /\ At("SR_CERT_VRFY", k + 2 + c)
          /\ At("SR_FINISHED", IF md.hit THEN k + 1 ELSE k + 2 + c + c)
          /\ Due({"SW_HELLO_VERIFY"}, 0) /\ Due({"SW_SRVR_HELLO"}, k)
          /\ ~md.hit => Due({"SR_CERT", "SR_KEY_EXCH", "SR_CERT_VRFY", "SR_FINISHED",
                              "SW_CHANGE"}, k + 3 + c)

\* The transcript in each state.
Transcript(md, e, s) ==
  LET Said(st, tr) == s.st = st => s.transcript = tr
  IN IF e = "client"
     THEN /\ Said("CR_SRVR_HELLO", <<IF s.sendCookie THEN "CHC" ELSE "CH">>)
          /\ Said("CR_CERT", ServerHello(md)) /\ Said("CR_CERT_REQ", Certificate(md))
          /\ Said("CR_SRVR_DONE", Request(md)) /\ Said("CW_CERT", HelloDone(md))
          /\ Said("CR_SESSION_TICKET", ClientFin(md))
          /\ Said("CR_FINISHED", IF md.hit THEN ServerHello(md) ELSE NewTicket(md))
          /\ Said("CW_CHANGE", HitServerFin(md))
          /\ Said("OK", Everything(md))
     ELSE /\ Said("SR_CLNT_HELLO", <<>>) /\ Said("SW_SRVR_HELLO", Hello(md))
          /\ Said("SR_CERT", HelloDone(md)) /\ Said("SR_KEY_EXCH", ClientCert(md))
          /\ Said("SR_CERT_VRFY", KeyExchange(md))
          /\ Said("SR_FINISHED", IF md.hit THEN HitServerFin(md) ELSE Verified(md))
          /\ Said("SW_CHANGE", ClientFin(md))
          /\ Said("OK", Everything(md))

\* The states in which the timer runs.
Timers(s) ==
  s.st \in {"CR_SRVR_HELLO", "CR_CERT", "CR_SESSION_TICKET", "CR_FINISHED", "SR_CERT",
            "SR_KEY_EXCH", "SR_CERT_VRFY", "SR_FINISHED"} => s.timer

\* What e keeps once it has written its Finished, and the states that begin with
\* nothing kept.
LastFlight(md, e) ==
  {"CCS", "FIN"} \cup (IF e = "client" THEN {"CERT", "CKE", "CVFY"}
                      ELSE IF md.hit THEN {"SH", "NST"} ELSE {"NST"})
Emptied == {"CW_CERT", "CW_CHANGE", "SW_SRVR_HELLO", "SW_CHANGE"}

\* What is kept for retransmission.
SentOk(md, e, s) ==
  /\ \A i \in DOMAIN s.sent :
       /\ Good(md, e, s.sent[i]) /\ s.sent[i].type \notin {"APP", "ALERT"}
       /\ s.sent[i].type \in {"CCS", "FIN"} => s.writeEpoch = 1
       /\ s.sent[i].type = "SH" => Helloed(s.st)
       /\ s.writeEpoch = 1 => s.sent[i].type \in LastFlight(md, e)
  /\ s.st \in Emptied => s.sent = <<>>

\* The datagrams of application data are read once.
ReadOnce(s) ==
  /\ \A i, j \in DOMAIN s.read : s.read[i] = s.read[j] => i = j
  /\ \A i \in DOMAIN s.read : ~Unseen(s.bitmap, s.read[i])
  /\ \A r \in s.appQueue :
       /\ r.type \in {"APP", "ALERT"}
       /\ r.type = "APP" => /\ ~Unseen(s.bitmap, r.rseq)
                            /\ \A i \in DOMAIN s.read : s.read[i] # r.rseq
                            /\ \A q \in s.appQueue : q.type = "APP" /\ q.rseq = r.rseq => q = r
  /\ s.readEpoch = 0 => s.read = <<>> /\ s.appQueue = {}

\* A full handshake without a client certificate gives up before its end only when
\* the peer does or after too many timeouts.
Plain(md) == ~md.hit /\ ~md.cert
Blameless(md, s) ==
  Plain(md) /\ s.failed \notin {"no", "PEER_ALERT", "READ_TIMEOUT_EXPIRED"} => s.st = "OK"

\* What is no longer true of an endpoint that has given up.
Placed(md, e, s) ==
  /\ s.failed = "no" => /\ Numbers(md, e, s) /\ Timers(s)
                        /\ s.ccs => s.peerFin = s.transcript
  /\ s.failed = "no" \/ s.st = "OK" => Transcript(md, e, s)

\* What a message on its way, or kept by its reader, says of its writer e, which is p.
Reached(e, p, m) ==
  /\ m.type \in {"CCS", "FIN"} => p.writeEpoch = 1
  /\ e = "server" /\ m.type = "SH" => Helloed(p.st)
Arrives(md, e, p, m) == Good(md, e, m) /\ Reached(e, p, m)

\* The peer of s, which is e, is p.
Peers(md, e, s, p) ==
  /\ \A m \in s.buffered :
       Arrives(md, Peer(e), p, m) /\ IsHandshake(m) /\ (m.epoch = 1 => s.readEpoch = 1)
  /\ \A m \in s.unprocessed :
       Arrives(md, Peer(e), p, m) /\ m.epoch = 1 /\ m.type \notin {"CCS", "APP"}
  /\ s.readEpoch = 1 => p.writeEpoch = 1
  /\ e = "client" /\ Answered(s.st) => Helloed(p.st)

\* What has been written and not yet handed to the network.
Writes(md, e, s) ==
  \A i \in DOMAIN s.wbio : Arrives(md, e, s, s.wbio[i])

Core(md, e, s, p) ==
  /\ s \in SSL /\ s.st \in StatesOf(md, e)
  /\ Epochs(md, e, s) /\ SentOk(md, e, s) /\ ReadOnce(s) /\ Blameless(md, s)
  /\ Peers(md, e, s, p)
  /\ Writes(md, e, s)

Sound(md, e, s, p) == Core(md, e, s, p) /\ Placed(md, e, s)

\* From s to t.
Onward(s, t) == (s.writeEpoch = 1 => t.writeEpoch = 1) /\ (Helloed(s.st) => Helloed(t.st))

IInv ==
  /\ mode \in Modes /\ conn \in [Endpoints -> SSL] /\ net \in [Endpoints -> Seq(Records)]
  /\ faults \in 0 .. MaxFaults
  /\ \A e \in Endpoints :
       /\ Sound(mode, e, conn[e], conn[Peer(e)]) /\ conn[e].wbio = <<>>
       /\ \A i \in DOMAIN net[e] : Arrives(mode, Peer(e), conn[Peer(e)], net[e][i])

------------------------------------------------------------------------------
(* Sequences.                                                              *)

(* The empty sequence is a sequence of anything.                           *)
LEMMA NoneIn == \A S : <<>> \in Seq(S) /\ Len(<<>>) = 0
BY EmptySeq

(* The records in which the messages ms are written.                       *)
Sealed(out, ms) ==
  /\ out \in Seq(Records) /\ DOMAIN out = DOMAIN ms
  /\ \A i \in DOMAIN ms : /\ out[i].type = ms[i].type /\ out[i].seq = ms[i].seq
                          /\ out[i].epoch = ms[i].epoch /\ out[i].digest = ms[i].digest

(* The fields that a handler leaves alone.                                 *)
AllBut(s, t, F) == \A f \in DOMAIN s \ F : t[f] = s[f]

(* The record numbers of out are those from w up to v, in each epoch.      *)
Numbered(w, v, out) ==
  /\ \A ep \in 0 .. 1 : w[ep] \in Nat /\ v[ep] \in Nat /\ w[ep] <= v[ep]
  /\ \A i \in DOMAIN out :
       w[out[i].epoch] <= out[i].rseq /\ out[i].rseq < v[out[i].epoch]
  /\ \A i, j \in DOMAIN out :
       i < j /\ out[i].epoch = out[j].epoch => out[i].rseq < out[j].rseq
  /\ \A ep \in 0 .. 1 : (\A i \in DOMAIN out : out[i].epoch # ep) => v[ep] = w[ep]
  /\ \A k \in DOMAIN out :
       (\A i \in DOMAIN out : out[i].epoch = out[k].epoch => i = k)
         => v[out[k].epoch] = w[out[k].epoch] + 1

(* What Put adds: records with the types, numbers and epochs of the messages, *)
(* each under the next record number of its epoch.                         *)
LEMMA PutIs ==
  ASSUME NEW s \in SSL, NEW ms \in Seq(Kept)
  PROVE  /\ Put(s, ms) \in SSL
         /\ AllBut(s, Put(s, ms), {"wbio", "wseq"})
         /\ \E out : /\ Sealed(out, ms) /\ Put(s, ms).wbio = s.wbio \o out
                     /\ Numbered(s.wseq, Put(s, ms).wseq, out)
<1> DEFINE before(i) == {j \in 1 .. i - 1 : ms[j].epoch = ms[i].epoch}
           rec(i) == [type |-> ms[i].type, seq |-> ms[i].seq, epoch |-> ms[i].epoch,
                      digest |-> ms[i].digest,
                      rseq |-> s.wseq[ms[i].epoch] + Cardinality(before(i))]
           out == [i \in DOMAIN ms |-> rec(i)]
           many(ep) == Cardinality({i \in DOMAIN ms : ms[i].epoch = ep})
           wseq == [ep \in DOMAIN s.wseq |-> s.wseq[ep] + many(ep)]
<1>1. ms \in [1 .. Len(ms) -> Kept] /\ Len(ms) \in Nat
  BY LenProperties
<1>2. \A i \in 1 .. Len(ms) : Cardinality(before(i)) \in Nat
  <2> TAKE i \in 1 .. Len(ms)
  <2>0. i - 1 \in Int
    BY <1>1
  <2>1. IsFiniteSet(1 .. i - 1) /\ before(i) \subseteq 1 .. i - 1
    BY <2>0, FS_Interval
  <2> QED
    BY <2>1, FS_Subset, FS_CardinalityType
<1>3. \A ep : many(ep) \in Nat
  <2> TAKE ep
  <2>1. IsFiniteSet(1 .. Len(ms)) /\ {i \in DOMAIN ms : ms[i].epoch = ep} \subseteq 1 .. Len(ms)
    BY <1>1, FS_Interval
  <2> QED
    BY <2>1, FS_Subset, FS_CardinalityType
<1>4. \A i \in 1 .. Len(ms) : rec(i) \in Records
  <2> TAKE i \in 1 .. Len(ms)
  <2>1. ms[i] \in Kept
    BY <1>1
  <2>2. s.wseq[ms[i].epoch] \in Nat
    BY <2>1 DEF SSL, Kept
  <2>3. s.wseq[ms[i].epoch] + Cardinality(before(i)) \in Nat
    BY <2>2, <1>2
  <2> HIDE DEF before
  <2> QED
    BY <2>1, <2>3 DEF Kept, Records
<1>5. out \in Seq(Records) /\ DOMAIN out = DOMAIN ms
  <2> HIDE DEF rec
  <2>1. out \in [1 .. Len(ms) -> Records]
    BY <1>1, <1>4
  <2> QED
    BY <1>1, <2>1, SeqDef
<1>6. wseq \in [0 .. 1 -> Nat]
  <2> HIDE DEF many
  <2>1. s.wseq \in [0 .. 1 -> Nat]
    BY DEF SSL
  <2> QED
    BY <2>1, <1>3
<1>7. s.wbio \o out \in Seq(Records)
  BY <1>5, ConcatProperties DEF SSL
<1>8. Put(s, ms) = [s EXCEPT !.wbio = s.wbio \o out, !.wseq = wseq]
  BY DEF Put, SSL
<1>12. Numbered(s.wseq, wseq, out)
  <2> DEFINE those(ep) == {i \in DOMAIN ms : ms[i].epoch = ep}
  <2>1. \A i \in DOMAIN ms : /\ out[i].epoch = ms[i].epoch /\ ms[i].epoch \in 0 .. 1
                             /\ out[i].rseq = s.wseq[ms[i].epoch] + Cardinality(before(i))
    BY <1>1 DEF Kept
  <2>2. \A ep \in 0 .. 1 : wseq[ep] = s.wseq[ep] + many(ep) /\ s.wseq[ep] \in Nat
    BY DEF SSL
  <2>3. \A ep : IsFiniteSet(those(ep)) /\ many(ep) = Cardinality(those(ep))
    <3> TAKE ep
    <3>1. IsFiniteSet(1 .. Len(ms)) /\ those(ep) \subseteq 1 .. Len(ms)
      BY <1>1, FS_Interval
    <3> QED
      BY <3>1, FS_Subset
  <2>4. \A i \in DOMAIN ms :
          /\ IsFiniteSet(before(i)) /\ i \notin before(i)
          /\ Cardinality(before(i) \cup {i}) = Cardinality(before(i)) + 1
    <3> TAKE i \in DOMAIN ms
    <3>0. i \in Nat /\ i - 1 \in Int /\ i \notin 1 .. i - 1
      BY <1>1
    <3>1. IsFiniteSet(1 .. i - 1) /\ before(i) \subseteq 1 .. i - 1
      BY <3>0, FS_Interval
    <3>2. IsFiniteSet(before(i)) /\ i \notin before(i)
      BY <3>0, <3>1, FS_Subset
    <3> HIDE DEF before
    <3> QED
      BY <3>2, FS_AddElement
  <2>5. \A i \in DOMAIN ms : Cardinality(before(i)) + 1 <= many(ms[i].epoch)
    <3> TAKE i \in DOMAIN ms
    <3>1. before(i) \cup {i} \subseteq those(ms[i].epoch)
      BY <1>1
    <3>2. IsFiniteSet(those(ms[i].epoch)) /\ many(ms[i].epoch) = Cardinality(those(ms[i].epoch))
      BY <2>3
    <3> HIDE DEF before, those, many
    <3>3. Cardinality(before(i) \cup {i}) <= Cardinality(those(ms[i].epoch))
      BY <3>1, <3>2, FS_Subset
    <3> QED
      BY <2>4, <3>2, <3>3
  <2>6. \A i, j \in DOMAIN ms : i < j /\ ms[i].epoch = ms[j].epoch =>
          Cardinality(before(i)) + 1 <= Cardinality(before(j))
    <3> TAKE i, j \in DOMAIN ms
    <3> HAVE i < j /\ ms[i].epoch = ms[j].epoch
    <3>1. before(i) \cup {i} \subseteq before(j)
      BY <1>1
    <3> HIDE DEF before, those, many
    <3>2. Cardinality(before(i) \cup {i}) <= Cardinality(before(j))
      BY <2>4, <3>1, FS_Subset
    <3> QED
      BY <2>4, <3>2
  <2>7. \A ep \in 0 .. 1 : (\A i \in DOMAIN out : out[i].epoch # ep) => many(ep) = 0
    <3> SUFFICES ASSUME NEW ep \in 0 .. 1, \A i \in DOMAIN out : out[i].epoch # ep
                 PROVE  many(ep) = 0
      OBVIOUS
    <3>1. those(ep) = {}
      BY <2>1
    <3> HIDE DEF those, many
    <3> QED
      BY <2>3, <3>1, FS_EmptySet
  <2>8. \A k \in DOMAIN out :
          (\A i \in DOMAIN out : out[i].epoch = out[k].epoch => i = k) => many(out[k].epoch) = 1
    <3> SUFFICES ASSUME NEW k \in DOMAIN out,
                        \A i \in DOMAIN out : out[i].epoch = out[k].epoch => i = k
                 PROVE  many(out[k].epoch) = 1
      OBVIOUS
    <3>1. those(out[k].epoch) = {k}
      BY <2>1
    <3> HIDE DEF those, many
    <3> QED
      BY <2>3, <3>1, FS_Singleton
  <2>9. \A i \in DOMAIN ms : Cardinality(before(i)) \in Nat
    BY <1>1, <1>2
  <2>10. DOMAIN out = DOMAIN ms
    OBVIOUS
  <2>11. \A i \in DOMAIN out :
           s.wseq[out[i].epoch] <= out[i].rseq /\ out[i].rseq < wseq[out[i].epoch]
    <3> HIDE DEF before, many, out, wseq, rec, those
    <3> TAKE i \in DOMAIN out
    <3> DEFINE w == s.wseq[ms[i].epoch]
               n == Cardinality(before(i))
    <3>1. out[i].rseq = w + n /\ wseq[out[i].epoch] = w + many(ms[i].epoch)
      BY <2>1, <2>2, <2>10
    <3>2. w \in Nat /\ n \in Nat /\ n + 1 <= many(ms[i].epoch) /\ many(ms[i].epoch) \in Nat
      BY <1>3, <2>1, <2>2, <2>5, <2>9, <2>10
    <3>3. out[i].epoch = ms[i].epoch
      BY <2>1, <2>10
    <3> HIDE DEF n
    <3>4. w <= out[i].rseq /\ out[i].rseq < wseq[out[i].epoch]
      <4> HIDE DEF w
      <4> QED
        BY <3>1, <3>2
    <3> QED
      BY <3>3, <3>4
  <2>12. \A i, j \in DOMAIN out :
           i < j /\ out[i].epoch = out[j].epoch => out[i].rseq < out[j].rseq
    <3> HIDE DEF before, many, out, wseq
    <3> QED
      BY <2>1, <2>2, <2>6, <2>9, <2>10
  <2>13. \A ep \in 0 .. 1 : s.wseq[ep] \in Nat /\ wseq[ep] \in Nat /\ s.wseq[ep] <= wseq[ep]
    <3> HIDE DEF many, wseq
    <3> QED
      BY <1>3, <2>2
  <2>14. /\ \A ep \in 0 .. 1 :
              (\A i \in DOMAIN out : out[i].epoch # ep) => wseq[ep] = s.wseq[ep]
         /\ \A k \in DOMAIN out :
              (\A i \in DOMAIN out : out[i].epoch = out[k].epoch => i = k)
                => wseq[out[k].epoch] = s.wseq[out[k].epoch] + 1
    <3> HIDE DEF many, wseq, out, before
    <3> QED
      BY <1>3, <2>1, <2>2, <2>7, <2>8, <2>10
  <2> HIDE DEF out, wseq
  <2> QED
    BY <2>11, <2>12, <2>13, <2>14 DEF Numbered
<1> HIDE DEF out, wseq
<1>9. /\ Put(s, ms) \in SSL /\ AllBut(s, Put(s, ms), {"wbio", "wseq"})
      /\ Put(s, ms).wbio = s.wbio \o out /\ Put(s, ms).wseq = wseq
  BY <1>6, <1>7, <1>8 DEF SSL, AllBut
<1>10. \A i \in DOMAIN ms : /\ out[i].type = ms[i].type /\ out[i].seq = ms[i].seq
                            /\ out[i].epoch = ms[i].epoch /\ out[i].digest = ms[i].digest
  BY DEF out
<1>11. Sealed(out, ms)
  BY <1>5, <1>10 DEF Sealed
<1> QED
  BY <1>9, <1>11, <1>12

(* The fields of an SSL object.                                            *)
LEMMA FieldsOf ==
  ASSUME NEW s \in SSL
  PROVE  DOMAIN s = {"st", "failed", "sendCookie", "readSeq", "nextSeq", "buffered", "sent",
                     "readEpoch", "writeEpoch", "wseq", "bitmap", "nextBitmap", "unprocessed",
                     "ccs", "peerFin", "transcript", "timer", "tries", "appQueue", "wrote",
                     "read", "wbio"}
BY DEF SSL

(* The fields that Core depends on, those that Placed depends on.          *)
CoreSame(s, t) ==
  /\ t.st = s.st /\ t.buffered = s.buffered /\ t.sent = s.sent
  /\ t.readEpoch = s.readEpoch /\ t.writeEpoch = s.writeEpoch
  /\ t.bitmap = s.bitmap /\ t.unprocessed = s.unprocessed /\ t.ccs = s.ccs
  /\ t.appQueue = s.appQueue /\ t.read = s.read
PlaceSame(s, t) ==
  /\ t.st = s.st /\ t.sendCookie = s.sendCookie /\ t.failed = s.failed
  /\ t.readSeq = s.readSeq /\ t.nextSeq = s.nextSeq /\ t.timer = s.timer
  /\ t.ccs = s.ccs /\ t.peerFin = s.peerFin /\ t.transcript = s.transcript

(* Core depends on no other field.                                         *)
LEMMA CoreFrame ==
  ASSUME NEW md, NEW e, NEW s, NEW t \in SSL, NEW p, Core(md, e, s, p), CoreSame(s, t),
         Blameless(md, t), Writes(md, e, t)
  PROVE  Core(md, e, t, p) /\ Onward(s, t)
<1>1. Epochs(md, e, t)
  BY DEF Core, CoreSame, Epochs, CcsOk
<1>2. SentOk(md, e, t)
  BY DEF Core, CoreSame, SentOk
<1>3. ReadOnce(t)
  BY DEF Core, CoreSame, ReadOnce
<1>4. Peers(md, e, t, p)
  BY DEF Core, CoreSame, Peers
<1> QED
  BY <1>1, <1>2, <1>3, <1>4 DEF Core, CoreSame, Onward

(* Placed depends on no other field.                                       *)
LEMMA PlaceFrame ==
  ASSUME NEW md, NEW e, NEW s, NEW t, Placed(md, e, s), PlaceSame(s, t)
  PROVE  Placed(md, e, t)
<1>1. Numbers(md, e, s) => Numbers(md, e, t)
  BY DEF PlaceSame, Numbers
<1>2. Transcript(md, e, s) => Transcript(md, e, t)
  BY DEF PlaceSame, Transcript
<1>3. Timers(s) => Timers(t)
  BY DEF PlaceSame, Timers
<1> QED
  BY <1>1, <1>2, <1>3 DEF Placed, PlaceSame

(* A sequence of messages is as good as the messages in it.                *)
LEMMA WritesMore ==
  ASSUME NEW md, NEW e, NEW s \in SSL, NEW t \in SSL, Writes(md, e, s),
         t.writeEpoch = s.writeEpoch, t.st = s.st,
         NEW out \in Seq(Records), t.wbio = s.wbio \o out,
         \A i \in DOMAIN out : Arrives(md, e, s, out[i])
  PROVE  Writes(md, e, t)
<1>1. \A m : Arrives(md, e, s, m) => Arrives(md, e, t, m)
  BY DEF Arrives, Reached
<1>2. s.wbio \in Seq(Records)
  BY DEF SSL
<1>3. /\ DOMAIN t.wbio = 1 .. Len(s.wbio) + Len(out)
      /\ \A i \in DOMAIN t.wbio : t.wbio[i] = IF i <= Len(s.wbio) THEN s.wbio[i]
                                                                 ELSE out[i - Len(s.wbio)]
      /\ Len(s.wbio) \in Nat /\ Len(out) \in Nat
      /\ DOMAIN s.wbio = 1 .. Len(s.wbio) /\ DOMAIN out = 1 .. Len(out)
  BY <1>2, ConcatProperties, LenProperties
<1> QED
  BY <1>1, <1>3 DEF Writes

(* What arrives does not depend on the record number.                      *)
LEMMA GoodSame ==
  ASSUME NEW md, NEW e, NEW s, NEW m, NEW n, Arrives(md, e, s, m), n.type = m.type,
         n.seq = m.seq, n.epoch = m.epoch, n.digest = m.digest
  PROVE  Arrives(md, e, s, n)
BY DEF Arrives, Good, Reached, IsHandshake

(* Writing messages that the writer may write (do_dtls1_write).            *)
LEMMA PutSound ==
  ASSUME NEW md, NEW e, NEW s, NEW p, Core(md, e, s, p), NEW ms \in Seq(Kept),
         \A i \in DOMAIN ms : Arrives(md, e, s, ms[i])
  PROVE  /\ Core(md, e, Put(s, ms), p)
         /\ AllBut(s, Put(s, ms), {"wbio", "wseq"})
         /\ Placed(md, e, s) => Placed(md, e, Put(s, ms))
         /\ Onward(s, Put(s, ms))
<1> DEFINE t == Put(s, ms)
<1>0. s \in SSL
  BY DEF Core
<1>1. PICK out : Sealed(out, ms) /\ t.wbio = s.wbio \o out
  BY <1>0, PutIs
<1>2. t \in SSL /\ AllBut(s, t, {"wbio", "wseq"})
  BY <1>0, PutIs
<1> HIDE DEF t
<1>3. CoreSame(s, t) /\ PlaceSame(s, t)
  BY <1>0, <1>2, FieldsOf DEF CoreSame, PlaceSame, AllBut
<1>4. \A i \in DOMAIN out : Arrives(md, e, s, out[i])
  BY <1>1, GoodSame DEF Sealed
<1>5. Writes(md, e, t)
  <2> out \in Seq(Records)
    BY <1>1 DEF Sealed
  <2> QED BY <1>0, <1>1, <1>2, <1>3, <1>4, WritesMore DEF Core, CoreSame
<1>6. Blameless(md, t)
  BY <1>3 DEF Core, Blameless, CoreSame, PlaceSame
<1> QED
  BY <1>2, <1>3, <1>5, <1>6, CoreFrame, PlaceFrame DEF t

(* A fatal alert.                                                          *)
LEMMA FailSound ==
  ASSUME NEW md, NEW e, NEW s, NEW p, Core(md, e, s, p), NEW why \in Reasons \ {"no"},
         s.st = "OK" => Transcript(md, e, s),
         Plain(md) /\ why \notin {"PEER_ALERT", "READ_TIMEOUT_EXPIRED"} => s.st = "OK"
  PROVE  Sound(md, e, Fail(s, why), p) /\ Onward(s, Fail(s, why))
<1> DEFINE alert == <<[type |-> "ALERT", seq |-> 0, epoch |-> s.writeEpoch, digest |-> <<>>]>>
           t == Put(s, alert)
           u == Fail(s, why)
<1>0. s \in SSL /\ s.writeEpoch \in 0 .. 1
  BY DEF Core, SSL
<1>1. alert \in Seq(Kept) /\ DOMAIN alert = {1} /\ alert[1].type = "ALERT"
  <2>1. [type |-> "ALERT", seq |-> 0, epoch |-> s.writeEpoch, digest |-> <<>>] \in Kept
    BY <1>0, NoneIn DEF Kept, Types
  <2> QED
    BY <2>1
<1>2. \A i \in DOMAIN alert : Arrives(md, e, s, alert[i])
  BY <1>1 DEF Arrives, Good, Reached, IsHandshake
<1>3. Core(md, e, t, p) /\ AllBut(s, t, {"wbio", "wseq"}) /\ t \in SSL
  BY <1>1, <1>2, PutSound DEF Core
<1>4. u = [t EXCEPT !.failed = why]
  BY DEF Fail
<1> HIDE DEF t, u
<1>5. u \in SSL /\ AllBut(t, u, {"failed"}) /\ u.failed = why
  BY <1>3, <1>4 DEF SSL, AllBut
<1>6. CoreSame(t, u) /\ u.st = s.st /\ u.transcript = s.transcript /\ u.wbio = t.wbio
      /\ u.writeEpoch = s.writeEpoch
  BY <1>0, <1>3, <1>5, FieldsOf DEF CoreSame, AllBut
<1>7. Writes(md, e, u)
  BY <1>3, <1>6 DEF Core, Writes, Arrives, Reached, CoreSame
<1>8. Blameless(md, u)
  BY <1>5, <1>6 DEF Blameless
<1>9. Core(md, e, u, p)
  BY <1>3, <1>5, <1>6, <1>7, <1>8, CoreFrame
<1>10. Placed(md, e, u)
  BY <1>5, <1>6 DEF Placed, Transcript
<1> QED
  BY <1>0, <1>6, <1>9, <1>10 DEF Sound, Onward, u

(* Retransmission.                                                         *)
LEMMA RetransmitSound ==
  ASSUME NEW md, NEW e, NEW s, NEW p, Core(md, e, s, p)
  PROVE  /\ Core(md, e, Retransmit(s), p) /\ Onward(s, Retransmit(s))
         /\ Placed(md, e, s) => Placed(md, e, Retransmit(s))
<1>1. s.sent \in Seq(Kept)
  BY DEF Core, SSL
<1>2. \A i \in DOMAIN s.sent : Arrives(md, e, s, s.sent[i])
  BY DEF Core, SentOk, Arrives, Reached
<1> QED
  BY <1>1, <1>2, PutSound DEF Retransmit

(* The same behind the count of timeouts (dtls1_check_timeout_num).        *)
LEMMA CheckedRetransmitSound ==
  ASSUME NEW md, NEW e, NEW s, NEW p, Sound(md, e, s, p)
  PROVE  Sound(md, e, CheckedRetransmit(s), p) /\ Onward(s, CheckedRetransmit(s))
<1> DEFINE late == [s EXCEPT !.tries = s.tries + 1]
           over == [s EXCEPT !.tries = s.tries + 1, !.failed = "READ_TIMEOUT_EXPIRED"]
<1>0. s \in SSL
  BY DEF Sound, Core
<1>1. CheckedRetransmit(s) = IF s.tries + 1 > TmoAlertCount THEN over ELSE Retransmit(late)
  BY DEF CheckedRetransmit
<1>2. /\ late \in SSL /\ AllBut(s, late, {"tries"})
      /\ over \in SSL /\ AllBut(s, over, {"tries", "failed"})
      /\ over.failed = "READ_TIMEOUT_EXPIRED"
  <2>1. s.tries + 1 \in Nat /\ "READ_TIMEOUT_EXPIRED" \in Reasons
    BY <1>0 DEF SSL, Reasons
  <2> QED
    BY <1>0, <2>1 DEF SSL, AllBut
<1> HIDE DEF late, over
<1>3. /\ CoreSame(s, late) /\ PlaceSame(s, late) /\ late.wbio = s.wbio
      /\ CoreSame(s, over) /\ over.transcript = s.transcript /\ over.wbio = s.wbio
  BY <1>0, <1>2, FieldsOf DEF AllBut, CoreSame, PlaceSame
<1>4. /\ Writes(md, e, late) /\ Blameless(md, late)
      /\ Writes(md, e, over) /\ Blameless(md, over)
  BY <1>2, <1>3 DEF Sound, Core, Writes, Arrives, Reached, Blameless, CoreSame, PlaceSame
<1>5. /\ Core(md, e, late, p) /\ Onward(s, late) /\ Core(md, e, over, p) /\ Onward(s, over)
  BY <1>2, <1>3, <1>4, CoreFrame DEF Sound
<1>6. Placed(md, e, late)
  BY <1>3, PlaceFrame DEF Sound
<1>7. Placed(md, e, over)
  BY <1>2, <1>3 DEF Sound, Placed, Transcript, CoreSame
<1>8. Core(md, e, Retransmit(late), p) /\ Placed(md, e, Retransmit(late))
      /\ Onward(late, Retransmit(late))
  BY <1>5, <1>6, RetransmitSound
<1>9. Onward(s, Retransmit(late))
  BY <1>5, <1>8 DEF Onward
<1> QED
  BY <1>1, <1>5, <1>7, <1>8, <1>9 DEF Sound

------------------------------------------------------------------------------
(* Writing a flight.                                                       *)

(* Concatenation with a short tuple.                                       *)
LEMMA Appended ==
  ASSUME NEW S, NEW s \in Seq(S), NEW a \in S, NEW b \in S, NEW c \in S, NEW d \in S
  PROVE  /\ s \o <<>> = s /\ s \o <<a>> = Append(s, a)
         /\ s \o <<a, b>> = Append(Append(s, a), b)
         /\ s \o <<a, b, c>> = Append(Append(Append(s, a), b), c)
         /\ s \o <<a, b, c, d>> = Append(Append(Append(Append(s, a), b), c), d)
OBVIOUS

(* Concatenations of short tuples.                                         *)
LEMMA Tuples ==
  ASSUME NEW S, NEW a \in S, NEW b \in S, NEW c \in S, NEW d \in S
  PROVE  /\ <<>> \o <<a>> = <<a>> /\ <<a>> \o <<>> = <<a>> /\ <<a>> \o <<b>> = <<a, b>>
         /\ <<a, b>> \o <<c>> = <<a, b, c>> /\ <<a, b, c>> \o <<d>> = <<a, b, c, d>>
         /\ <<a, b>> \o <<>> = <<a, b>>
<1>1. /\ <<a>> \in Seq(S) /\ <<a, b>> \in Seq(S) /\ <<a, b, c>> \in Seq(S)
      /\ <<a, b, c, d>> \in Seq(S) /\ <<>> \in Seq(S)
  BY NoneIn
<1>2. \A q \in Seq(S) : <<>> \o q = q /\ q \o <<>> = q
  BY ConcatEmptySeq
<1>3. /\ <<a>> = Append(<<>>, a) /\ <<a, b>> = Append(Append(<<>>, a), b)
      /\ <<a, b, c>> = Append(Append(Append(<<>>, a), b), c)
      /\ <<a, b, c, d>> = Append(Append(Append(Append(<<>>, a), b), c), d)
  <2>1. \A q \in Seq(S) :
          /\ q \o <<a>> = Append(q, a) /\ q \o <<a, b>> = Append(Append(q, a), b)
          /\ q \o <<a, b, c>> = Append(Append(Append(q, a), b), c)
          /\ q \o <<a, b, c, d>> = Append(Append(Append(Append(q, a), b), c), d)
    BY Appended
  <2> QED
    BY <1>1, <1>2, <2>1
<1>4. \A q \in Seq(S), x \in S : q \o <<x>> = Append(q, x)
  BY Appended
<1>5. <<>> \o <<a>> = <<a>> /\ <<a>> \o <<>> = <<a>> /\ <<a, b>> \o <<>> = <<a, b>>
  BY <1>1, <1>2
<1>6. <<a>> \o <<b>> = Append(<<a>>, b) /\ Append(<<a>>, b) = <<a, b>>
  BY <1>1, <1>3, <1>4
<1>7. <<a, b>> \o <<c>> = Append(<<a, b>>, c) /\ Append(<<a, b>>, c) = <<a, b, c>>
  BY <1>1, <1>3, <1>4
<1>8. <<a, b, c>> \o <<d>> = Append(<<a, b, c>>, d) /\ Append(<<a, b, c>>, d) = <<a, b, c, d>>
  BY <1>1, <1>3, <1>4
<1> QED
  BY <1>5, <1>6, <1>7, <1>8

(* The elements of a concatenation.                                        *)
LEMMA Joined ==
  ASSUME NEW S, NEW q \in Seq(S), NEW r \in Seq(S)
  PROVE  /\ q \o r \in Seq(S) /\ Len(q \o r) = Len(q) + Len(r)
         /\ DOMAIN (q \o r) = 1 .. Len(q) + Len(r)
         /\ \A i \in 1 .. Len(q) + Len(r) :
              (q \o r)[i] = IF i <= Len(q) THEN q[i] ELSE r[i - Len(q)]
BY ConcatProperties, LenProperties

(* What is kept of the messages hs, and of the CCS and the Finished behind *)
(* them.                                                                   *)
KeptOf(s, hs, finish, ms) ==
  /\ ms \in Seq(Kept) /\ DOMAIN ms = 1 .. Len(hs) + (IF finish THEN 2 ELSE 0)
  /\ \A i \in 1 .. Len(hs) :
       /\ ms[i].type = hs[i] /\ ms[i].seq = s.nextSeq + i - 1 /\ ms[i].epoch = s.writeEpoch
       /\ ms[i].digest = <<>>
  /\ finish => LET ccs == ms[Len(hs) + 1]
                   fin == ms[Len(hs) + 2]
               IN /\ ccs.type = "CCS" /\ ccs.epoch = s.writeEpoch
                  /\ fin.type = "FIN" /\ fin.epoch = s.writeEpoch + 1
                  /\ fin.seq = s.nextSeq + Len(hs) /\ fin.digest = s.transcript \o hs

(* What Write makes of s.                                                  *)
Written(s, hs, finish, w) ==
  /\ w \in SSL
  /\ AllBut(s, w, {"wbio", "wseq", "sent", "transcript", "writeEpoch", "nextSeq"})
  /\ w.transcript = (s.transcript \o hs) \o When(finish, "FIN")
  /\ w.writeEpoch = IF finish THEN 1 ELSE s.writeEpoch
  /\ w.nextSeq = IF Listening(s) THEN s.nextSeq
                 ELSE s.nextSeq + Len(hs) + (IF finish THEN 1 ELSE 0)
  /\ \E ms, out : /\ KeptOf(s, hs, finish, ms) /\ w.sent = s.sent \o ms
                  /\ Sealed(out, ms) /\ w.wbio = s.wbio \o out
                  /\ Numbered(s.wseq, w.wseq, out)

(* What Write makes of an SSL object.                                      *)
LEMMA WriteIs ==
  ASSUME NEW s \in SSL, NEW hs \in Seq(Types), NEW finish \in BOOLEAN,
         finish => s.writeEpoch = 0
  PROVE  Written(s, hs, finish, Write(s, hs, finish))
<1> DEFINE said == s.transcript \o hs
           kept(type, n, ep, digest) ==
             [type |-> type, seq |-> s.nextSeq + n, epoch |-> ep, digest |-> digest]
           last == IF finish THEN <<kept("CCS", Len(hs), s.writeEpoch, <<>>),
                                    kept("FIN", Len(hs), s.writeEpoch + 1, said)>>
                             ELSE <<>>
           first == [i \in DOMAIN hs |-> kept(hs[i], i - 1, s.writeEpoch, <<>>)]
           ms == first \o last
           next == IF Listening(s) THEN s.nextSeq
                   ELSE s.nextSeq + Len(hs) + (IF finish THEN 1 ELSE 0)
           tr == said \o When(finish, "FIN")
           epoch == IF finish THEN s.writeEpoch + 1 ELSE s.writeEpoch
           w == Write(s, hs, finish)
<1>1. /\ s.nextSeq \in Nat /\ s.writeEpoch \in 0 .. 1 /\ s.transcript \in Seq(Types)
      /\ s.sent \in Seq(Kept) /\ s.wbio \in Seq(Records)
  BY DEF SSL
<1>2. Len(hs) \in Nat /\ DOMAIN hs = 1 .. Len(hs) /\ \A i \in 1 .. Len(hs) : hs[i] \in Types
  BY LenProperties, ElementOfSeq
<1>3. said \in Seq(Types) /\ <<>> \in Seq(Types)
  BY <1>1, ConcatProperties, NoneIn
<1>4. \A i \in 1 .. Len(hs) : kept(hs[i], i - 1, s.writeEpoch, <<>>) \in Kept
  BY <1>1, <1>2, <1>3 DEF Kept
<1>5. first \in Seq(Kept) /\ Len(first) = Len(hs)
  <2> HIDE DEF kept
  <2>1. first \in [1 .. Len(hs) -> Kept]
    BY <1>2, <1>4
  <2> QED
    BY <1>2, <2>1, SeqDef
<1>6. /\ last \in Seq(Kept) /\ Len(last) = IF finish THEN 2 ELSE 0
      /\ finish => /\ last[1] = kept("CCS", Len(hs), s.writeEpoch, <<>>)
                   /\ last[2] = kept("FIN", Len(hs), s.writeEpoch + 1, said)
  <2>1. CASE finish
    <3>1. /\ kept("CCS", Len(hs), s.writeEpoch, <<>>) \in Kept
          /\ kept("FIN", Len(hs), s.writeEpoch + 1, said) \in Kept
      BY <1>1, <1>2, <1>3, <2>1 DEF Kept, Types
    <3> HIDE DEF kept
    <3> QED
      BY <2>1, <3>1
  <2>2. CASE ~finish
    BY <2>2, NoneIn
  <2> QED
    BY <2>1, <2>2
<1> HIDE DEF first, last
<1>7. /\ ms \in Seq(Kept) /\ Len(ms) = Len(hs) + Len(last) /\ DOMAIN ms = 1 .. Len(ms)
      /\ \A i \in 1 .. Len(ms) : ms[i] = IF i <= Len(hs) THEN first[i] ELSE last[i - Len(hs)]
  <2>1. /\ first \o last \in Seq(Kept) /\ Len(first \o last) = Len(first) + Len(last)
        /\ DOMAIN (first \o last) = 1 .. Len(first) + Len(last)
        /\ \A i \in 1 .. Len(first) + Len(last) :
             (first \o last)[i] = IF i <= Len(first) THEN first[i] ELSE last[i - Len(first)]
    <3>1. first \in Seq(Kept) /\ last \in Seq(Kept)
      BY <1>5, <1>6
    <3>2. \A q, r \in Seq(Kept) :
            /\ q \o r \in Seq(Kept) /\ Len(q \o r) = Len(q) + Len(r)
            /\ DOMAIN (q \o r) = 1 .. Len(q) + Len(r)
            /\ \A i \in 1 .. Len(q) + Len(r) :
                 (q \o r)[i] = IF i <= Len(q) THEN q[i] ELSE r[i - Len(q)]
      BY Joined
    <3> QED
      BY <3>1, <3>2
  <2> QED
    BY <1>5, <2>1
<1>8. KeptOf(s, hs, finish, ms)
  <2>1. DOMAIN ms = 1 .. Len(hs) + (IF finish THEN 2 ELSE 0)
    BY <1>6, <1>7
  <2>2. \A i \in 1 .. Len(hs) : ms[i] = kept(hs[i], i - 1, s.writeEpoch, <<>>)
    <3>1. \A i \in 1 .. Len(hs) : ms[i] = first[i]
      BY <1>2, <1>6, <1>7
    <3> QED
      BY <1>2, <3>1 DEF first
  <2>3. finish => /\ ms[Len(hs) + 1] = kept("CCS", Len(hs), s.writeEpoch, <<>>)
                  /\ ms[Len(hs) + 2] = kept("FIN", Len(hs), s.writeEpoch + 1, said)
    <3> SUFFICES ASSUME finish PROVE ms[Len(hs) + 1] = last[1] /\ ms[Len(hs) + 2] = last[2]
      BY <1>6
    <3>1. Len(last) = 2
      BY <1>6
    <3>2. Len(hs) + 1 \in 1 .. Len(ms) /\ Len(hs) + 2 \in 1 .. Len(ms)
      BY <1>2, <1>7, <3>1
    <3> HIDE DEF ms
    <3> QED
      BY <1>2, <1>7, <3>2
  <2>4. \A i \in 1 .. Len(hs) : s.nextSeq + (i - 1) = s.nextSeq + i - 1
    BY <1>1, <1>2
  <2>5. /\ \A i \in 1 .. Len(hs) :
             /\ ms[i].type = hs[i] /\ ms[i].seq = s.nextSeq + i - 1
             /\ ms[i].epoch = s.writeEpoch /\ ms[i].digest = <<>>
        /\ finish => /\ ms[Len(hs) + 1].type = "CCS" /\ ms[Len(hs) + 1].epoch = s.writeEpoch
                     /\ ms[Len(hs) + 2].type = "FIN"
                     /\ ms[Len(hs) + 2].epoch = s.writeEpoch + 1
                     /\ ms[Len(hs) + 2].seq = s.nextSeq + Len(hs)
                     /\ ms[Len(hs) + 2].digest = said
    <3> HIDE DEF ms, said
    <3>1. \A i \in 1 .. Len(hs) :
             /\ ms[i].type = hs[i] /\ ms[i].seq = s.nextSeq + (i - 1)
             /\ ms[i].epoch = s.writeEpoch /\ ms[i].digest = <<>>
      <4> TAKE i \in 1 .. Len(hs)
      <4>1. ms[i] = kept(hs[i], i - 1, s.writeEpoch, <<>>)
        BY <2>2
      <4> QED
        BY <4>1
    <3> QED
      BY <2>3, <2>4, <3>1
  <2> HIDE DEF ms
  <2> QED
    BY <1>7, <2>1, <2>5 DEF KeptOf
<1> HIDE DEF ms
<1>9. PICK out : /\ Sealed(out, ms) /\ Put(s, ms).wbio = s.wbio \o out
                 /\ Numbered(s.wseq, Put(s, ms).wseq, out)
  BY <1>7, PutIs
<1>10. Put(s, ms) \in SSL /\ AllBut(s, Put(s, ms), {"wbio", "wseq"})
  BY <1>7, PutIs
<1> DEFINE u == Put(s, ms)
<1>11. /\ u.sent = s.sent /\ u.transcript = s.transcript /\ u.writeEpoch = s.writeEpoch
       /\ u.nextSeq = s.nextSeq
  BY <1>10, FieldsOf DEF AllBut
<1>12. w = [u EXCEPT !.sent = s.sent \o ms, !.transcript = tr, !.writeEpoch = epoch,
                     !.nextSeq = next]
  <2>1. w = [u EXCEPT !.sent = @ \o ms, !.transcript = said \o When(finish, "FIN"),
                      !.writeEpoch = IF finish THEN @ + 1 ELSE @,
                      !.nextSeq = IF Listening(s) THEN @ ELSE @ + Len(hs) + (IF finish THEN 1 ELSE 0)]
    BY DEF Write, ms, first, last
  <2> HIDE DEF u, said
  <2> QED
    BY <1>11, <2>1
<1>13. /\ s.sent \o ms \in Seq(Kept) /\ tr \in Seq(Types) /\ epoch \in 0 .. 1 /\ next \in Nat
       /\ epoch = IF finish THEN 1 ELSE s.writeEpoch
  <2>1. When(finish, "FIN") \in Seq(Types)
    <3>1. "FIN" \in Types
      BY DEF Types
    <3>2. <<"FIN">> \in Seq(Types)
      BY <3>1
    <3> QED
      BY <1>3, <3>2 DEF When
  <2>2. tr \in Seq(Types)
    BY <1>3, <2>1, ConcatProperties
  <2>3. s.sent \o ms \in Seq(Kept)
    BY <1>1, <1>7, ConcatProperties
  <2>4. epoch \in 0 .. 1 /\ epoch = IF finish THEN 1 ELSE s.writeEpoch
    BY <1>1
  <2>5. next \in Nat
    BY <1>1, <1>2
  <2> QED
    BY <2>2, <2>3, <2>4, <2>5
<1> HIDE DEF w, u, tr, epoch, next, said
<1>14. /\ w \in SSL /\ AllBut(u, w, {"sent", "transcript", "writeEpoch", "nextSeq"})
       /\ w.sent = s.sent \o ms /\ w.transcript = tr /\ w.writeEpoch = epoch /\ w.nextSeq = next
  BY <1>10, <1>12, <1>13 DEF SSL, AllBut, u
<1>15. AllBut(s, w, {"wbio", "wseq", "sent", "transcript", "writeEpoch", "nextSeq"})
  BY <1>10, <1>14, FieldsOf DEF AllBut, u
<1>16. w.wbio = s.wbio \o out /\ Numbered(s.wseq, w.wseq, out)
  BY <1>9, <1>10, <1>14, FieldsOf DEF AllBut, u
<1>18. w.writeEpoch = IF finish THEN 1 ELSE s.writeEpoch
  BY <1>13, <1>14
<1>19. w.transcript = (s.transcript \o hs) \o When(finish, "FIN")
  BY <1>14 DEF tr, said
<1>20. w.nextSeq = IF Listening(s) THEN s.nextSeq
                   ELSE s.nextSeq + Len(hs) + (IF finish THEN 1 ELSE 0)
  BY <1>14 DEF next
<1>21. \E ks, o : /\ KeptOf(s, hs, finish, ks) /\ w.sent = s.sent \o ks
                  /\ Sealed(o, ks) /\ w.wbio = s.wbio \o o
                  /\ Numbered(s.wseq, w.wseq, o)
  BY <1>8, <1>9, <1>14, <1>16
<1>22. Written(s, hs, finish, w)
  BY <1>14, <1>15, <1>18, <1>19, <1>20, <1>21, Zenon DEF Written
<1> QED
  BY <1>22 DEF w

(* What is said is a sequence of messages.                                 *)
LEMMA Scripts ==
  ASSUME NEW md \in ModeSpace
  PROVE  /\ Hello(md) \in Seq(Types) /\ ServerHello(md) \in Seq(Types)
         /\ Certificate(md) \in Seq(Types) /\ Request(md) \in Seq(Types)
         /\ HelloDone(md) \in Seq(Types) /\ ClientCert(md) \in Seq(Types)
         /\ KeyExchange(md) \in Seq(Types) /\ Verified(md) \in Seq(Types)
         /\ ClientFin(md) \in Seq(Types) /\ NewTicket(md) \in Seq(Types)
         /\ ServerFin(md) \in Seq(Types) /\ HitTicket(md) \in Seq(Types)
         /\ HitServerFin(md) \in Seq(Types) /\ HitClientFin(md) \in Seq(Types)
<1>1. \A q \in Seq(Types), x \in Types : Append(q, x) \in Seq(Types)
  BY AppendProperties
<1>2. \A q \in Seq(Types), x \in Types, b \in BOOLEAN : Grown(q, b, x) \in Seq(Types)
  BY <1>1 DEF Grown
<1>3. {"CH", "CHC", "SH", "CERT", "CREQ", "SHD", "CKE", "CVFY", "NST", "FIN"} \subseteq Types
  BY DEF Types
<1>4. md.cert \in BOOLEAN /\ md.ticket \in BOOLEAN
  BY DEF ModeSpace
<1>5. Hello(md) \in Seq(Types)
  BY <1>3 DEF Hello
<1>6. ServerHello(md) \in Seq(Types)
  BY <1>1, <1>3, <1>5 DEF ServerHello
<1>7. Certificate(md) \in Seq(Types)
  BY <1>1, <1>3, <1>6 DEF Certificate
<1>8. Request(md) \in Seq(Types)
  BY <1>2, <1>3, <1>4, <1>7 DEF Request
<1>9. HelloDone(md) \in Seq(Types)
  BY <1>1, <1>3, <1>8 DEF HelloDone
<1>10. ClientCert(md) \in Seq(Types)
  BY <1>2, <1>3, <1>4, <1>9 DEF ClientCert
<1>11. KeyExchange(md) \in Seq(Types)
  BY <1>1, <1>3, <1>10 DEF KeyExchange
<1>12. Verified(md) \in Seq(Types)
  BY <1>2, <1>3, <1>4, <1>11 DEF Verified
<1>13. ClientFin(md) \in Seq(Types)
  BY <1>1, <1>3, <1>12 DEF ClientFin
<1>14. NewTicket(md) \in Seq(Types)
  BY <1>2, <1>3, <1>4, <1>13 DEF NewTicket
<1>15. ServerFin(md) \in Seq(Types)
  BY <1>1, <1>3, <1>14 DEF ServerFin
<1>16. HitTicket(md) \in Seq(Types)
  BY <1>2, <1>3, <1>4, <1>6 DEF HitTicket
<1>17. HitServerFin(md) \in Seq(Types)
  BY <1>1, <1>3, <1>16 DEF HitServerFin
<1>18. HitClientFin(md) \in Seq(Types)
  BY <1>1, <1>3, <1>17 DEF HitClientFin
<1> QED
  BY <1>5, <1>6, <1>7, <1>8, <1>9, <1>10, <1>11, <1>12, <1>13, <1>14, <1>15, <1>16, <1>17, <1>18

(* The transcript a flight continues.                                      *)
Restart(s) == IF s.st = "CW_CLNT_HELLO" THEN <<>> ELSE s.transcript
\* How many messages of f are numbered.
Size(f) == Len(f.msgs) + (IF f.finish THEN 1 ELSE 0)

\* What WriteFlight makes of s, where f is the flight.
Flown(s, f, u) ==
  /\ u \in SSL
  /\ AllBut(s, u, {"wbio", "wseq", "sent", "transcript", "writeEpoch", "nextSeq", "timer",
                   "st", "readSeq"})
  /\ u.st = f.next /\ u.timer = (s.timer \/ f.timer)
  /\ u.readSeq = (IF f.next = "OK" THEN 0 ELSE s.readSeq)
  /\ u.nextSeq = IF f.next = "OK" THEN 0
                 ELSE IF Listening(s) THEN s.nextSeq
                 ELSE s.nextSeq + Size(f)
  /\ u.writeEpoch = IF f.finish THEN 1 ELSE s.writeEpoch
  /\ u.transcript = IF s.st = "SW_HELLO_VERIFY" THEN <<>>
                    ELSE (Restart(s) \o f.msgs) \o When(f.finish, "FIN")
  /\ \E t, ms, out : /\ t.nextSeq = s.nextSeq /\ t.writeEpoch = s.writeEpoch
                     /\ t.transcript = Restart(s)
                     /\ KeptOf(t, f.msgs, f.finish, ms) /\ u.sent = s.sent \o ms
                     /\ Sealed(out, ms) /\ u.wbio = s.wbio \o out
                     /\ Numbered(s.wseq, u.wseq, out)

(* What ToState makes of it.                                               *)
LEMMA ToStateIs ==
  ASSUME NEW s \in SSL, NEW st \in States
  PROVE  /\ ToState(s, st) \in SSL /\ AllBut(s, ToState(s, st), {"st", "readSeq", "nextSeq"})
         /\ ToState(s, st).st = st
         /\ ToState(s, st).readSeq = IF st = "OK" THEN 0 ELSE s.readSeq
         /\ ToState(s, st).nextSeq = IF st = "OK" THEN 0 ELSE s.nextSeq
BY DEF ToState, SSL, AllBut

(* What WriteFlight makes of it.                                           *)
LEMMA FlightIs ==
  ASSUME NEW s \in SSL, Flight(s).msgs \in Seq(Types), Flight(s).finish \in BOOLEAN,
         Flight(s).timer \in BOOLEAN, Flight(s).next \in States,
         Flight(s).finish => s.writeEpoch = 0
  PROVE  Flown(s, Flight(s), WriteFlight(s))
<1> DEFINE f == Flight(s)
           t == [s EXCEPT !.timer = s.timer \/ f.timer, !.transcript = Restart(s)]
           w == Write(t, f.msgs, f.finish)
           x == IF s.st = "SW_HELLO_VERIFY" THEN [w EXCEPT !.transcript = <<>>] ELSE w
           u == ToState(x, f.next)
<1>1. WriteFlight(s) = u
  BY DEF WriteFlight, Restart
<1>2. Restart(s) \in Seq(Types) /\ (s.timer \/ f.timer) \in BOOLEAN
  BY NoneIn DEF Restart, SSL
<1>3. /\ t \in SSL /\ AllBut(s, t, {"timer", "transcript"})
      /\ t.timer = (s.timer \/ f.timer) /\ t.transcript = Restart(s)
  <2> HIDE DEF f
  <2> DEFINE tm == s.timer \/ f.timer
  <2>1. tm \in BOOLEAN
    BY <1>2
  <2>2. t = [s EXCEPT !.timer = tm, !.transcript = Restart(s)]
    OBVIOUS
  <2> HIDE DEF tm, t
  <2>3. t \in SSL /\ AllBut(s, t, {"timer", "transcript"}) /\ t.timer = tm /\ t.transcript = Restart(s)
    BY <1>2, <2>1, <2>2 DEF SSL, AllBut
  <2> QED
    BY <2>3 DEF tm
<1> HIDE DEF f, t, w, x, u
<1>4. /\ t.nextSeq = s.nextSeq /\ t.writeEpoch = s.writeEpoch /\ t.sent = s.sent
      /\ t.wseq = s.wseq
      /\ t.wbio = s.wbio /\ t.st = s.st /\ t.readSeq = s.readSeq
  BY <1>3, FieldsOf DEF AllBut
<1>5. Written(t, f.msgs, f.finish, w)
  BY <1>3, <1>4, WriteIs DEF w, f
<1>6. w \in SSL /\ AllBut(t, w, {"wbio", "wseq", "sent", "transcript", "writeEpoch", "nextSeq"})
  BY <1>5 DEF Written
<1>7. /\ x \in SSL /\ AllBut(w, x, {"transcript"})
      /\ x.transcript = IF s.st = "SW_HELLO_VERIFY" THEN <<>> ELSE w.transcript
  BY <1>6, NoneIn DEF x, SSL, AllBut
<1>8. /\ u \in SSL /\ AllBut(x, u, {"st", "readSeq", "nextSeq"}) /\ u.st = f.next
      /\ u.readSeq = IF f.next = "OK" THEN 0 ELSE x.readSeq
      /\ u.nextSeq = IF f.next = "OK" THEN 0 ELSE x.nextSeq
  BY <1>7, ToStateIs DEF u, f
<1>9. AllBut(s, u, {"wbio", "wseq", "sent", "transcript", "writeEpoch", "nextSeq", "timer",
                    "st", "readSeq"})
  BY <1>3, <1>6, <1>7, <1>8, FieldsOf DEF AllBut
<1>10. /\ x.readSeq = w.readSeq /\ x.nextSeq = w.nextSeq /\ x.writeEpoch = w.writeEpoch
       /\ x.sent = w.sent /\ x.wbio = w.wbio /\ x.timer = w.timer /\ x.wseq = w.wseq
  BY <1>6, <1>7, FieldsOf DEF AllBut
<1>11. /\ u.writeEpoch = x.writeEpoch /\ u.sent = x.sent /\ u.wbio = x.wbio
       /\ u.timer = x.timer /\ u.transcript = x.transcript /\ u.wseq = x.wseq
  BY <1>7, <1>8, FieldsOf DEF AllBut
<1>12. w.readSeq = t.readSeq /\ w.timer = t.timer
  BY <1>3, <1>6, FieldsOf DEF AllBut
<1>13. Listening(t) <=> Listening(s)
  BY <1>4 DEF Listening
<1>14. /\ u.writeEpoch = IF f.finish THEN 1 ELSE s.writeEpoch
       /\ u.transcript = IF s.st = "SW_HELLO_VERIFY" THEN <<>>
                         ELSE (Restart(s) \o f.msgs) \o When(f.finish, "FIN")
       /\ u.nextSeq = IF f.next = "OK" THEN 0
                      ELSE IF Listening(s) THEN s.nextSeq ELSE s.nextSeq + Size(f)
  <2>1. /\ u.writeEpoch = IF f.finish THEN 1 ELSE s.writeEpoch
        /\ u.transcript = IF s.st = "SW_HELLO_VERIFY" THEN <<>>
                          ELSE (Restart(s) \o f.msgs) \o When(f.finish, "FIN")
        /\ u.nextSeq = IF f.next = "OK" THEN 0
                       ELSE IF Listening(s) THEN s.nextSeq
                       ELSE s.nextSeq + Len(f.msgs) + (IF f.finish THEN 1 ELSE 0)
    BY <1>3, <1>4, <1>5, <1>7, <1>8, <1>10, <1>11, <1>13 DEF Written
  <2>2. Len(f.msgs) \in Nat /\ s.nextSeq \in Nat
    BY LenProperties DEF f, SSL
  <2>3. s.nextSeq + Len(f.msgs) + (IF f.finish THEN 1 ELSE 0) = s.nextSeq + Size(f)
    <3> DEFINE c == IF f.finish THEN 1 ELSE 0
    <3>1. c \in Nat /\ Size(f) = Len(f.msgs) + c
      BY DEF Size
    <3> HIDE DEF c
    <3>2. s.nextSeq + Len(f.msgs) + c = s.nextSeq + Size(f)
      BY <2>2, <3>1
    <3> QED
      BY <3>2 DEF c
  <2> QED
    BY <2>1, <2>3
<1>15. \E ms, out : /\ KeptOf(t, f.msgs, f.finish, ms) /\ u.sent = s.sent \o ms
                    /\ Sealed(out, ms) /\ u.wbio = s.wbio \o out
                    /\ Numbered(s.wseq, u.wseq, out)
  <2>1. PICK ms, out : /\ KeptOf(t, f.msgs, f.finish, ms) /\ w.sent = t.sent \o ms
                       /\ Sealed(out, ms) /\ w.wbio = t.wbio \o out
                       /\ Numbered(t.wseq, w.wseq, out)
    BY <1>5 DEF Written
  <2> QED
    BY <1>4, <1>10, <1>11, <2>1
<1>16. u.timer = (s.timer \/ f.timer)
  BY <1>3, <1>10, <1>11, <1>12
<1>17. u.readSeq = IF f.next = "OK" THEN 0 ELSE s.readSeq
  BY <1>4, <1>8, <1>10, <1>12
<1>18. Flown(s, f, u)
  <2>1. \E v, ms, out : /\ v.nextSeq = s.nextSeq /\ v.writeEpoch = s.writeEpoch
                        /\ v.transcript = Restart(s)
                        /\ KeptOf(v, f.msgs, f.finish, ms) /\ u.sent = s.sent \o ms
                        /\ Sealed(out, ms) /\ u.wbio = s.wbio \o out
                        /\ Numbered(s.wseq, u.wseq, out)
    BY <1>3, <1>4, <1>15
  <2> QED
    BY <1>8, <1>9, <1>14, <1>16, <1>17, <2>1, Zenon DEF Flown
<1> QED
  BY <1>1, <1>18 DEF f

(* A message x that is the i-th of the flight f.                           *)
Fits(md, e, s, f, x, i) ==
  /\ x \notin {"CCS", "FIN", "APP", "ALERT"} /\ Says(md, e, x)
  /\ s.nextSeq + i - 1 = Number(md, e, x)
  /\ x = "SH" => Helloed(f.next)
  /\ f.finish => x \in LastFlight(md, e)

(* A flight f that continues what s has said so far.                       *)
Proper(md, e, s, f) ==
  /\ f.msgs \in Seq(Types) /\ f.finish \in BOOLEAN /\ f.timer \in BOOLEAN
  /\ f.next \in StatesOf(md, e) \cap States
  /\ f.next \notin Emptied
  /\ s.writeEpoch = 0 /\ ~s.ccs
  /\ \A i \in 1 .. Len(f.msgs) : Fits(md, e, s, f, f.msgs[i], i)
  /\ f.finish => /\ Number(md, e, "FIN") = s.nextSeq + Len(f.msgs)
                 /\ FinDigest(md, e) = Restart(s) \o f.msgs
                 /\ s.sent = <<>>
  /\ WroteFin(md, e, f.next) <=> f.finish
  /\ ReadFin(f.next) <=> ReadFin(s.st)
  /\ Helloed(s.st) => Helloed(f.next)
  /\ Answered(f.next) => Answered(s.st)
  /\ ReadOnce(s) /\ s.failed = "no"

(* A proper flight leaves its writer sound.                                *)
LEMMA ProperSound ==
  ASSUME NEW md, NEW e \in Endpoints, NEW s, NEW p, NEW f, NEW u,
         Core(md, e, s, p), Proper(md, e, s, f), Flown(s, f, u)
  PROVE  Core(md, e, u, p) /\ Onward(s, u)
<1>0. s \in SSL
  BY DEF Core
<1>1. /\ u.ccs = s.ccs /\ u.readEpoch = s.readEpoch /\ u.buffered = s.buffered
      /\ u.unprocessed = s.unprocessed /\ u.bitmap = s.bitmap /\ u.read = s.read
      /\ u.appQueue = s.appQueue /\ u.failed = s.failed
  BY <1>0, FieldsOf DEF Flown, AllBut
<1>2. u \in SSL /\ u.st = f.next /\ u.writeEpoch = IF f.finish THEN 1 ELSE 0
  BY DEF Flown, Proper
<1>3. Onward(s, u)
  BY <1>2 DEF Onward, Proper
<1>4. PICK t, ms, out :
        /\ t.nextSeq = s.nextSeq /\ t.writeEpoch = s.writeEpoch /\ t.transcript = Restart(s)
        /\ KeptOf(t, f.msgs, f.finish, ms) /\ u.sent = s.sent \o ms
        /\ Sealed(out, ms) /\ u.wbio = s.wbio \o out
  BY DEF Flown
<1>5. \A i \in DOMAIN ms :
        /\ Arrives(md, e, u, ms[i]) /\ ms[i].type \notin {"APP", "ALERT"}
        /\ u.writeEpoch = 1 => ms[i].type \in LastFlight(md, e)
  <2> TAKE i \in DOMAIN ms
  <2>0. /\ Len(f.msgs) \in Nat /\ DOMAIN ms = 1 .. Len(f.msgs) + (IF f.finish THEN 2 ELSE 0)
        /\ f.finish \in BOOLEAN /\ s.writeEpoch = 0
    BY <1>4, LenProperties DEF KeptOf, Proper
  <2>1. CASE i \in 1 .. Len(f.msgs)
    <3>1. /\ ms[i].type = f.msgs[i] /\ ms[i].seq = s.nextSeq + i - 1 /\ ms[i].epoch = 0
      BY <1>4, <2>0, <2>1 DEF KeptOf
    <3>2. /\ f.msgs[i] \notin {"CCS", "FIN", "APP", "ALERT"} /\ Says(md, e, f.msgs[i])
          /\ s.nextSeq + i - 1 = Number(md, e, f.msgs[i])
          /\ f.msgs[i] = "SH" => Helloed(f.next)
          /\ f.finish => f.msgs[i] \in LastFlight(md, e)
      BY <2>1 DEF Proper, Fits
    <3> QED
      BY <1>2, <3>1, <3>2 DEF Arrives, Good, Reached, IsHandshake
  <2>2. CASE f.finish /\ i = Len(f.msgs) + 1
    <3>1. ms[i].type = "CCS" /\ ms[i].epoch = 0
      BY <1>4, <2>0, <2>2 DEF KeptOf
    <3> QED
      BY <1>2, <2>2, <3>1 DEF Arrives, Good, Reached, IsHandshake, LastFlight
  <2>3. CASE f.finish /\ i = Len(f.msgs) + 2
    <3>1. /\ ms[i].type = "FIN" /\ ms[i].epoch = 1 /\ ms[i].seq = s.nextSeq + Len(f.msgs)
          /\ ms[i].digest = Restart(s) \o f.msgs
      BY <1>4, <2>0, <2>3 DEF KeptOf
    <3>2. /\ Number(md, e, "FIN") = s.nextSeq + Len(f.msgs)
          /\ FinDigest(md, e) = Restart(s) \o f.msgs /\ Says(md, e, "FIN")
      BY <2>3 DEF Proper, Says
    <3> QED
      BY <1>2, <2>3, <3>1, <3>2 DEF Arrives, Good, Reached, IsHandshake, LastFlight
  <2>4. \/ i \in 1 .. Len(f.msgs)
        \/ f.finish /\ i = Len(f.msgs) + 1
        \/ f.finish /\ i = Len(f.msgs) + 2
    <3>1. CASE f.finish
      <4>1. i \in 1 .. Len(f.msgs) + 2
        BY <2>0, <3>1
      <4> QED
        BY <2>0, <3>1, <4>1
    <3>2. CASE ~f.finish
      <4>1. i \in 1 .. Len(f.msgs) + 0
        BY <2>0, <3>2
      <4> QED
        BY <2>0, <4>1
    <3> QED
      BY <3>1, <3>2
  <2> QED
    BY <2>1, <2>2, <2>3, <2>4
<1>6. s.sent \in Seq(Kept) /\ ms \in Seq(Kept) /\ s.wbio \in Seq(Records) /\ out \in Seq(Records)
  BY <1>0, <1>4 DEF SSL, KeptOf, Sealed
<1>7. /\ DOMAIN u.sent = 1 .. Len(s.sent) + Len(ms)
      /\ \A i \in DOMAIN u.sent : u.sent[i] = IF i <= Len(s.sent) THEN s.sent[i]
                                                                 ELSE ms[i - Len(s.sent)]
      /\ Len(s.sent) \in Nat /\ Len(ms) \in Nat
      /\ DOMAIN s.sent = 1 .. Len(s.sent) /\ DOMAIN ms = 1 .. Len(ms)
  BY <1>4, <1>6, ConcatProperties, LenProperties
<1>8. \A i \in DOMAIN u.sent :
        \/ i \in DOMAIN s.sent /\ u.sent[i] = s.sent[i]
        \/ \E j \in DOMAIN ms : u.sent[i] = ms[j]
  BY <1>7
<1>9. SentOk(md, e, u)
  <2>1. \A i \in DOMAIN s.sent :
          /\ Good(md, e, s.sent[i]) /\ s.sent[i].type \notin {"APP", "ALERT"}
          /\ s.sent[i].type \notin {"CCS", "FIN"}
          /\ s.sent[i].type = "SH" => Helloed(u.st)
          /\ u.writeEpoch # 1
    <3>1. s.sent = <<>> => DOMAIN s.sent = {}
      BY <1>7, NoneIn
    <3> QED
      BY <1>2, <3>1 DEF Core, SentOk, Proper
  <2>2. u.st \notin Emptied
    BY <1>2 DEF Proper
  <2> SUFFICES ASSUME NEW i \in DOMAIN u.sent
               PROVE  /\ Good(md, e, u.sent[i]) /\ u.sent[i].type \notin {"APP", "ALERT"}
                      /\ u.sent[i].type \in {"CCS", "FIN"} => u.writeEpoch = 1
                      /\ u.sent[i].type = "SH" => Helloed(u.st)
                      /\ u.writeEpoch = 1 => u.sent[i].type \in LastFlight(md, e)
    BY <2>2 DEF SentOk
  <2>3. CASE i \in DOMAIN s.sent /\ u.sent[i] = s.sent[i]
    BY <2>1, <2>3
  <2>4. CASE \E j \in DOMAIN ms : u.sent[i] = ms[j]
    <3>1. /\ Arrives(md, e, u, u.sent[i]) /\ u.sent[i].type \notin {"APP", "ALERT"}
          /\ u.writeEpoch = 1 => u.sent[i].type \in LastFlight(md, e)
      BY <1>5, <2>4
    <3>2. Says(md, e, "SH") => e = "server"
      BY DEF Says, Endpoints
    <3> QED
      BY <3>1, <3>2 DEF Arrives, Reached, Good, IsHandshake
  <2> QED
    BY <1>8, <2>3, <2>4
<1>10. Writes(md, e, u)
  <2>1. \A i \in DOMAIN out : Arrives(md, e, u, out[i])
    BY <1>4, <1>5, GoodSame DEF Sealed
  <2>2. \A i \in DOMAIN s.wbio : Arrives(md, e, u, s.wbio[i])
    BY <1>3 DEF Core, Writes, Arrives, Reached, Onward
  <2>3. /\ DOMAIN u.wbio = 1 .. Len(s.wbio) + Len(out)
        /\ \A i \in DOMAIN u.wbio : u.wbio[i] = IF i <= Len(s.wbio) THEN s.wbio[i]
                                                                   ELSE out[i - Len(s.wbio)]
        /\ Len(s.wbio) \in Nat /\ Len(out) \in Nat
        /\ DOMAIN s.wbio = 1 .. Len(s.wbio) /\ DOMAIN out = 1 .. Len(out)
    BY <1>4, <1>6, ConcatProperties, LenProperties
  <2> QED
    BY <2>1, <2>2, <2>3 DEF Writes
<1>11. Epochs(md, e, u)
  BY <1>0, <1>1, <1>2 DEF Core, Epochs, Proper
<1>12. ReadOnce(u)
  BY <1>1 DEF Core, ReadOnce
<1>13. Peers(md, e, u, p)
  BY <1>1, <1>2 DEF Core, Peers, Proper
<1>14. Blameless(md, u)
  BY <1>1 DEF Blameless, Proper
<1> QED
  BY <1>2, <1>3, <1>9, <1>10, <1>11, <1>12, <1>13, <1>14 DEF Core, Proper

(* The flights, one by one.                                                *)
LEMMA Flies ==
  ASSUME NEW md, NEW e \in Endpoints, NEW s, NEW p, Sound(md, e, s, p),
         Proper(md, e, s, Flight(s)),
         Flown(s, Flight(s), WriteFlight(s)) => Placed(md, e, WriteFlight(s))
  PROVE  Sound(md, e, WriteFlight(s), p) /\ Onward(s, WriteFlight(s))
<1>1. s \in SSL
  BY DEF Sound, Core
<1>2. Flown(s, Flight(s), WriteFlight(s))
  BY <1>1, FlightIs DEF Proper
<1> QED
  BY <1>2, ProperSound DEF Sound

(* The elements of short tuples.                                           *)
LEMMA TupleIn ==
  ASSUME NEW S, NEW a \in S, NEW b \in S, NEW c \in S, NEW d \in S
  PROVE  /\ <<a>> \in Seq(S) /\ Len(<<a>>) = 1 /\ <<a>>[1] = a
         /\ <<a, b>> \in Seq(S) /\ Len(<<a, b>>) = 2 /\ <<a, b>>[1] = a /\ <<a, b>>[2] = b
         /\ <<a, b, c>> \in Seq(S) /\ Len(<<a, b, c>>) = 3
         /\ <<a, b, c>>[1] = a /\ <<a, b, c>>[2] = b /\ <<a, b, c>>[3] = c
         /\ <<a, b, c, d>> \in Seq(S) /\ Len(<<a, b, c, d>>) = 4
         /\ <<a, b, c, d>>[1] = a /\ <<a, b, c, d>>[2] = b /\ <<a, b, c, d>>[3] = c
         /\ <<a, b, c, d>>[4] = d
OBVIOUS

\* The transcript behind the flight f, and what the states depend on.
Told(s, f) == (Restart(s) \o f.msgs) \o When(f.finish, "FIN")

Landed(s, f, u) ==
  /\ u.st = f.next
  /\ s.timer \/ f.timer => u.timer
  /\ f.next = "OK" => u.readSeq = 0 /\ u.nextSeq = 0
  /\ f.next # "OK" => u.readSeq = s.readSeq
  /\ f.next # "OK" /\ Listening(s) => u.nextSeq = s.nextSeq
  /\ f.next # "OK" /\ ~Listening(s) => u.nextSeq = s.nextSeq + Size(f)
  /\ s.st = "SW_HELLO_VERIFY" => u.transcript = <<>>
  /\ s.st # "SW_HELLO_VERIFY" => u.transcript = Told(s, f)
  /\ u.sendCookie = s.sendCookie /\ u.ccs = s.ccs
  /\ u.failed = s.failed /\ u.peerFin = s.peerFin /\ u.readEpoch = s.readEpoch

(* What is read of a flight that was written.                              *)
LEMMA FlownIs ==
  ASSUME NEW s \in SSL, NEW f, NEW u, Flown(s, f, u)
  PROVE  Landed(s, f, u)
<1>1. /\ u.st = f.next
      /\ s.timer \/ f.timer => u.timer
      /\ s.st = "SW_HELLO_VERIFY" => u.transcript = <<>>
      /\ f.next = "OK" => u.readSeq = 0 /\ u.nextSeq = 0
      /\ f.next # "OK" => u.readSeq = s.readSeq
  BY DEF Flown
<1>2. s.st # "SW_HELLO_VERIFY" => u.transcript = Told(s, f)
  BY DEF Flown, Told
<1>3. /\ f.next # "OK" /\ Listening(s) => u.nextSeq = s.nextSeq
      /\ f.next # "OK" /\ ~Listening(s) => u.nextSeq = s.nextSeq + Size(f)
  BY DEF Flown
<1>4. /\ u.sendCookie = s.sendCookie /\ u.ccs = s.ccs
      /\ u.failed = s.failed /\ u.peerFin = s.peerFin /\ u.readEpoch = s.readEpoch
  BY FieldsOf DEF Flown, AllBut
<1> QED
  BY <1>1, <1>2, <1>3, <1>4, Zenon DEF Landed

(* The ClientHello.                                                        *)
LEMMA HelloFlight ==
  ASSUME mode \in ModeSpace, NEW e \in Endpoints, NEW s, NEW p, Sound(mode, e, s, p),
         s.failed = "no", s.st = "CW_CLNT_HELLO"
  PROVE  Sound(mode, e, WriteFlight(s), p) /\ Onward(s, WriteFlight(s))
<1> DEFINE x == IF s.sendCookie THEN "CHC" ELSE "CH"
           f == Flight(s)
           u == WriteFlight(s)
<1>1. e = "client"
  BY DEF Sound, Core, StatesOf, ServerStates, Endpoints
<1>2. f.msgs = <<x>> /\ ~f.finish /\ f.timer /\ f.next = "CR_SRVR_HELLO"
  BY DEF Flight, Flt
<1> HIDE DEF f, u
<1>3. x \in Types /\ <<x>> \in Seq(Types) /\ Len(<<x>>) = 1 /\ <<x>>[1] = x
  <2> x \in Types
    BY DEF Types
  <2> HIDE DEF x
  <2> QED
    BY TupleIn
<1>4. /\ s.readSeq = One(s.sendCookie) /\ s.nextSeq = One(s.sendCookie)
      /\ s.sendCookie => mode.cookie # "none"
      /\ s.writeEpoch = 0 /\ ~s.ccs /\ s.sendCookie \in BOOLEAN
  BY <1>1 DEF Sound, Core, Placed, Numbers, Epochs, WroteFin, CcsOk, SSL
<1>5. Proper(mode, e, s, f)
  <2>1. f.next \in StatesOf(mode, e) \cap States
    BY <1>1, <1>2 DEF StatesOf, ClientStates, States
  <2>2. Fits(mode, e, s, f, x, 1)
    BY <1>1, <1>2, <1>4 DEF Fits, LastFlight, Says, Number, One
  <2>3. f.finish \in BOOLEAN /\ f.timer \in BOOLEAN
    BY DEF f, Flight, Flt
  <2> HIDE DEF x
  <2>4. \A i \in 1 .. Len(f.msgs) : Fits(mode, e, s, f, f.msgs[i], i)
    <3> SUFFICES ASSUME NEW i \in 1 .. 1 PROVE Fits(mode, e, s, f, <<x>>[i], i)
      BY <1>2, <1>3
    <3> QED
      BY <1>3, <2>2
  <2> QED
    BY <1>1, <1>2, <1>3, <1>4, <2>1, <2>3, <2>4
    DEF Proper, Emptied, Sound, Core, WroteFin, ReadFin, Helloed, Answered
<1>6. ASSUME Flown(s, f, u) PROVE Placed(mode, e, u)
  <2>1. /\ u.st = "CR_SRVR_HELLO" /\ u.timer /\ u.readSeq = s.readSeq
        /\ u.nextSeq = s.nextSeq + 1
        /\ u.transcript = (<<>> \o <<x>>) \o <<>>
    <3>1. ~Listening(s) /\ Len(f.msgs) = 1 /\ Restart(s) = <<>> /\ s \in SSL
      BY <1>2, <1>3 DEF Listening, Restart, Sound, Core
    <3>2. Landed(s, f, u) /\ s.nextSeq \in Nat
      BY <1>6, <3>1, FlownIs DEF SSL
    <3>3. u.st = "CR_SRVR_HELLO" /\ u.timer /\ u.readSeq = s.readSeq
      BY <1>2, <3>2 DEF Landed
    <3>4. u.nextSeq = s.nextSeq + 1
      <4> Size(f) = 1
        BY <1>2, <3>1 DEF Size
      <4> QED BY <1>2, <3>1, <3>2 DEF Landed
    <3>5. u.transcript = (Restart(s) \o <<x>>) \o <<>>
      BY <1>2, <3>2 DEF Told, When, Landed
    <3> QED
      BY <3>1, <3>3, <3>4, <3>5
  <2>2. u.transcript = <<x>>
    BY <1>3, <2>1, Tuples
  <2>3. u.sendCookie = s.sendCookie /\ u.ccs = s.ccs
    BY <1>6, FieldsOf DEF Flown, AllBut, Sound, Core
  <2>4. Numbers(mode, e, u)
    BY <1>1, <1>4, <2>1, <2>3 DEF Numbers, One
  <2>5. Transcript(mode, e, u)
    BY <1>1, <2>1, <2>2, <2>3 DEF Transcript
  <2> QED
    BY <1>4, <2>1, <2>3, <2>4, <2>5 DEF Placed, Timers
<1> QED
  BY <1>5, <1>6, Flies DEF f, u

(* The client's Certificate, ClientKeyExchange and CertificateVerify.      *)
LEMMA ClientFlight ==
  ASSUME mode \in ModeSpace, NEW e \in Endpoints, NEW s, NEW p, Sound(mode, e, s, p),
         s.failed = "no", s.st = "CW_CERT"
  PROVE  Sound(mode, e, WriteFlight(s), p) /\ Onward(s, WriteFlight(s))
<1> DEFINE f == Flight(s)
           u == WriteFlight(s)
<1>0. mode.cert \in BOOLEAN /\ mode.ticket \in BOOLEAN /\ s \in SSL
  BY DEF ModeSpace, Sound, Core
<1>1. e = "client" /\ ~mode.hit
  BY DEF Sound, Core, StatesOf, ServerStates, ClientStates, Endpoints
<1>2. /\ f.finish /\ f.timer /\ f.finish \in BOOLEAN /\ f.timer \in BOOLEAN
      /\ f.next = IF mode.ticket THEN "CR_SESSION_TICKET" ELSE "CR_FINISHED"
      /\ f.msgs = When(mode.cert, "CERT") \o <<"CKE">> \o When(mode.cert, "CVFY")
  BY DEF Flight, Flt
<1>3. f.msgs = IF mode.cert THEN <<"CERT", "CKE", "CVFY">> ELSE <<"CKE">>
  BY <1>2, Tuples DEF When
<1>4. {"CERT", "CKE", "CVFY"} \subseteq Types
  BY DEF Types
<1>5. /\ s.readSeq = Base(mode) + 3 + One(mode.cert) /\ s.nextSeq = Base(mode) + 1
      /\ s.transcript = HelloDone(mode) /\ s.sent = <<>> /\ s.writeEpoch = 0 /\ ~s.ccs
  <2>1. Numbers(mode, e, s) /\ Transcript(mode, e, s) /\ Epochs(mode, e, s) /\ SentOk(mode, e, s)
    BY DEF Sound, Core, Placed
  <2>2. s.readSeq = Base(mode) + 3 + One(mode.cert) /\ s.nextSeq = Base(mode) + 1
    BY <1>1, <2>1 DEF Numbers
  <2>3. s.transcript = HelloDone(mode) /\ s.sent = <<>>
    BY <1>1, <2>1 DEF Transcript, SentOk, Emptied
  <2> QED
    BY <1>0, <1>1, <2>1, <2>2, <2>3 DEF Epochs, WroteFin, CcsOk, SSL
<1>6. Restart(s) \o f.msgs = Verified(mode) /\ Restart(s) \in Seq(Types)
  <2>1. Restart(s) = HelloDone(mode) /\ HelloDone(mode) \in Seq(Types)
    BY <1>5, Scripts DEF Restart
  <2> HIDE DEF f
  <2> QED
    BY <1>3, <1>4, <2>1, Appended DEF Verified, KeyExchange, ClientCert, Grown
<1>7. /\ f.msgs \in Seq(Types) /\ Len(f.msgs) = IF mode.cert THEN 3 ELSE 1
      /\ mode.cert => f.msgs[1] = "CERT" /\ f.msgs[2] = "CKE" /\ f.msgs[3] = "CVFY"
      /\ ~mode.cert => f.msgs[1] = "CKE"
  <2> HIDE DEF f
  <2> QED
    BY <1>3, <1>4, TupleIn
<1> HIDE DEF f, u
<1>8. Proper(mode, e, s, f)
  <2>1. f.next \in StatesOf(mode, e) \cap States
    BY <1>0, <1>1, <1>2 DEF StatesOf, ClientStates, States
  <2>2. \A i \in 1 .. Len(f.msgs) : Fits(mode, e, s, f, f.msgs[i], i)
    <3>1. mode.cert => /\ Fits(mode, e, s, f, "CERT", 1) /\ Fits(mode, e, s, f, "CKE", 2)
                       /\ Fits(mode, e, s, f, "CVFY", 3)
      BY <1>1, <1>5 DEF Fits, LastFlight, Says, Number, One, Base
    <3>2. ~mode.cert => Fits(mode, e, s, f, "CKE", 1)
      BY <1>1, <1>5 DEF Fits, LastFlight, Says, Number, One, Base
    <3> TAKE i \in 1 .. Len(f.msgs)
    <3>3. CASE mode.cert
      <4> i \in 1 .. 3
        BY <1>7, <3>3
      <4> QED
        BY <1>7, <3>1, <3>3
    <3>4. CASE ~mode.cert
      <4> i \in 1 .. 1
        BY <1>7, <3>4
      <4> QED
        BY <1>7, <3>2, <3>4
    <3> QED
      BY <3>3, <3>4
  <2>3. Number(mode, e, "FIN") = s.nextSeq + Len(f.msgs)
    BY <1>1, <1>5, <1>7 DEF Number, One, Base
  <2>4. FinDigest(mode, e) = Restart(s) \o f.msgs
    BY <1>1, <1>6 DEF FinDigest
  <2> QED
    BY <1>0, <1>1, <1>2, <1>5, <1>7, <2>1, <2>2, <2>3, <2>4
    DEF Proper, Emptied, Sound, Core, WroteFin, ReadFin, Helloed, Answered
<1>9. ASSUME Flown(s, f, u) PROVE Placed(mode, e, u)
  <2>1. Landed(s, f, u)
    BY <1>0, <1>9, FlownIs
  <2>2. u.st = f.next /\ u.timer /\ u.readSeq = s.readSeq /\ u.sendCookie = s.sendCookie /\ ~u.ccs
    BY <1>2, <1>5, <2>1 DEF Landed
  <2>3. u.transcript = ClientFin(mode)
    <3>1. u.transcript = Verified(mode) \o <<"FIN">>
      BY <1>2, <1>6, <2>1 DEF Landed, Told, When
    <3>2. Verified(mode) \in Seq(Types) /\ "FIN" \in Types
      BY Scripts DEF Types
    <3> QED
      BY <3>1, <3>2, Appended DEF ClientFin
  <2>4. Numbers(mode, e, u)
    <3>1. s.sendCookie => mode.cookie # "none"
      BY <1>1 DEF Sound, Placed, Numbers
    <3> QED
      BY <1>0, <1>1, <1>2, <1>5, <2>2, <3>1 DEF Numbers, One, Base
  <2>5. Transcript(mode, e, u)
    BY <1>0, <1>1, <1>2, <2>2, <2>3 DEF Transcript, NewTicket, Grown
  <2> QED
    BY <2>2, <2>4, <2>5 DEF Placed, Timers
<1> QED
  BY <1>8, <1>9, Flies DEF f, u

(* The client's Finished that answers the one of a resuming server.        *)
LEMMA ResumingClientFlight ==
  ASSUME mode \in ModeSpace, NEW e \in Endpoints, NEW s, NEW p, Sound(mode, e, s, p),
         s.failed = "no", s.st = "CW_CHANGE"
  PROVE  Sound(mode, e, WriteFlight(s), p) /\ Onward(s, WriteFlight(s))
<1> DEFINE f == Flight(s)
           u == WriteFlight(s)
<1>0. s \in SSL /\ mode.hit \in BOOLEAN
  BY DEF Sound, Core, ModeSpace
<1>1. e = "client" /\ mode.hit
  BY DEF Sound, Core, StatesOf, ServerStates, ClientStates, Endpoints
<1>2. /\ f.finish /\ f.finish \in BOOLEAN /\ f.timer \in BOOLEAN
      /\ f.next = "OK" /\ f.msgs = <<>>
  BY DEF Flight, Flt
<1>5. /\ s.nextSeq = Base(mode) + 1 /\ s.transcript = HitServerFin(mode) /\ s.sent = <<>>
      /\ s.writeEpoch = 0 /\ ~s.ccs
  <2>1. Numbers(mode, e, s) /\ Transcript(mode, e, s) /\ Epochs(mode, e, s) /\ SentOk(mode, e, s)
    BY DEF Sound, Core, Placed
  <2>2. s.nextSeq = Base(mode) + 1
    BY <1>1, <2>1 DEF Numbers
  <2>3. s.transcript = HitServerFin(mode) /\ s.sent = <<>>
    BY <1>1, <2>1 DEF Transcript, SentOk, Emptied
  <2> QED
    BY <1>0, <1>1, <2>1, <2>2, <2>3 DEF Epochs, WroteFin, CcsOk, SSL
<1>6. Restart(s) \o f.msgs = HitServerFin(mode)
  <2>1. Restart(s) = HitServerFin(mode) /\ HitServerFin(mode) \in Seq(Types)
    BY <1>5, Scripts DEF Restart
  <2> HIDE DEF f
  <2> QED
    BY <1>2, <2>1, ConcatEmptySeq
<1>7. f.msgs \in Seq(Types) /\ Len(f.msgs) = 0
  BY <1>2, NoneIn
<1> HIDE DEF f, u
<1>8. Proper(mode, e, s, f)
  <2>1. f.next \in StatesOf(mode, e) \cap States
    BY <1>0, <1>1, <1>2 DEF StatesOf, ClientStates, States
  <2>2. \A i \in 1 .. Len(f.msgs) : Fits(mode, e, s, f, f.msgs[i], i)
    BY <1>7
  <2>3. Number(mode, e, "FIN") = s.nextSeq + Len(f.msgs)
    BY <1>1, <1>5, <1>7 DEF Number, One, Base
  <2>4. FinDigest(mode, e) = Restart(s) \o f.msgs
    BY <1>1, <1>6 DEF FinDigest
  <2> QED
    BY <1>0, <1>1, <1>2, <1>5, <1>7, <2>1, <2>2, <2>3, <2>4
    DEF Proper, Emptied, Sound, Core, WroteFin, ReadFin, Helloed, Answered
<1>9. ASSUME Flown(s, f, u) PROVE Placed(mode, e, u)
  <2>1. Landed(s, f, u)
    BY <1>0, <1>9, FlownIs
  <2>2. u.st = "OK" /\ u.sendCookie = s.sendCookie /\ ~u.ccs
    BY <1>2, <1>5, <2>1 DEF Landed
  <2>3. u.transcript = HitClientFin(mode)
    <3>1. u.transcript = HitServerFin(mode) \o <<"FIN">>
      BY <1>2, <1>6, <2>1 DEF Landed, Told, When
    <3>2. HitServerFin(mode) \in Seq(Types) /\ "FIN" \in Types
      BY Scripts DEF Types
    <3> QED
      BY <3>1, <3>2, Appended DEF HitClientFin
  <2>4. Numbers(mode, e, u)
    <3>1. s.sendCookie => mode.cookie # "none"
      BY <1>1 DEF Sound, Placed, Numbers
    <3> QED
      BY <1>0, <1>1, <1>2, <1>5, <2>2, <3>1 DEF Numbers, One, Base
  <2>5. Transcript(mode, e, u)
    BY <1>0, <1>1, <1>2, <2>2, <2>3 DEF Transcript, Everything
  <2> QED
    BY <2>2, <2>4, <2>5 DEF Placed, Timers
<1> QED
  BY <1>8, <1>9, Flies DEF f, u

(* The HelloVerifyRequest.                                                 *)
LEMMA HelloVerifyFlight ==
  ASSUME mode \in ModeSpace, NEW e \in Endpoints, NEW s, NEW p, Sound(mode, e, s, p),
         s.failed = "no", s.st = "SW_HELLO_VERIFY"
  PROVE  Sound(mode, e, WriteFlight(s), p) /\ Onward(s, WriteFlight(s))
<1> DEFINE f == Flight(s)
           u == WriteFlight(s)
<1>0. s \in SSL /\ mode.cookie \in {"none", "accept", "listen"}
  BY DEF Sound, Core, ModeSpace
<1>1. e = "server" /\ mode.cookie # "none"
  BY DEF Sound, Core, StatesOf, ServerStates, ClientStates, Endpoints
<1>2. /\ ~f.finish /\ f.finish \in BOOLEAN /\ f.timer \in BOOLEAN
      /\ f.next = "SR_CLNT_HELLO" /\ f.msgs = <<"HVR">>
  BY DEF Flight, Flt
<1>5. s.nextSeq = 0 /\ s.readSeq = One(mode.cookie = "accept") /\ s.writeEpoch = 0 /\ ~s.ccs
  <2>1. Numbers(mode, e, s) /\ Epochs(mode, e, s)
    BY DEF Sound, Core, Placed
  <2>2. s.nextSeq = 0 /\ s.readSeq = One(mode.cookie = "accept")
    BY <1>1, <2>1 DEF Numbers
  <2> QED
    BY <1>0, <1>1, <2>1, <2>2 DEF Epochs, WroteFin, CcsOk, SSL
<1>7. f.msgs \in Seq(Types) /\ Len(f.msgs) = 1 /\ f.msgs[1] = "HVR"
  <2> "HVR" \in Types
    BY DEF Types
  <2> HIDE DEF f
  <2> QED
    BY <1>2, TupleIn
<1> HIDE DEF f, u
<1>8. Proper(mode, e, s, f)
  <2>1. f.next \in StatesOf(mode, e) \cap States
    BY <1>0, <1>1, <1>2 DEF StatesOf, ServerStates, States
  <2>2. \A i \in 1 .. Len(f.msgs) : Fits(mode, e, s, f, f.msgs[i], i)
    <3>1. Fits(mode, e, s, f, "HVR", 1)
      BY <1>1, <1>2, <1>5 DEF Fits, LastFlight, Says, Number, One, Base
    <3> SUFFICES ASSUME NEW i \in 1 .. 1 PROVE Fits(mode, e, s, f, f.msgs[i], i)
      BY <1>7
    <3> QED
      BY <1>7, <3>1
  <2> QED
    BY <1>0, <1>1, <1>2, <1>5, <1>7, <2>1, <2>2
    DEF Proper, Emptied, Sound, Core, WroteFin, ReadFin, Helloed, Answered
<1>9. ASSUME Flown(s, f, u) PROVE Placed(mode, e, u)
  <2>1. Landed(s, f, u)
    BY <1>0, <1>9, FlownIs
  <2>2. u.st = "SR_CLNT_HELLO" /\ ~u.ccs /\ u.transcript = <<>> /\ u.readSeq = s.readSeq
    BY <1>2, <1>5, <2>1 DEF Landed
  <2>3. u.nextSeq = One(mode.cookie = "accept")
    <3>1. CASE mode.cookie = "listen"
      BY <1>2, <1>5, <2>1, <3>1 DEF Landed, One, Listening
    <3>2. CASE mode.cookie = "accept"
      <4>1. ~Listening(s) /\ Size(f) = 1
        BY <1>2, <1>7, <3>2 DEF Listening, Size
      <4> QED
        BY <1>2, <1>5, <2>1, <3>2, <4>1 DEF Landed, One
    <3> QED
      BY <1>0, <1>1, <3>1, <3>2
  <2>4. Numbers(mode, e, u)
    BY <1>0, <1>1, <1>2, <1>5, <2>2, <2>3 DEF Numbers, One
  <2>5. Transcript(mode, e, u)
    BY <1>1, <2>2 DEF Transcript
  <2> QED
    BY <2>2, <2>4, <2>5 DEF Placed, Timers
<1> QED
  BY <1>8, <1>9, Flies DEF f, u

(* The flight of a server that resumes a session.                          *)
LEMMA ResumingServerFlight ==
  ASSUME mode \in ModeSpace, NEW e \in Endpoints, NEW s, NEW p, Sound(mode, e, s, p),
         s.failed = "no", s.st = "SW_SRVR_HELLO", mode.hit
  PROVE  Sound(mode, e, WriteFlight(s), p) /\ Onward(s, WriteFlight(s))
<1> DEFINE f == Flight(s)
           u == WriteFlight(s)
<1>0. mode.hit \in BOOLEAN /\ mode.ticket \in BOOLEAN /\ s \in SSL
  BY DEF ModeSpace, Sound, Core
<1>1. e = "server"
  BY DEF Sound, Core, StatesOf, ServerStates, ClientStates, Endpoints
<1>2. /\ f.finish /\ f.timer /\ f.finish \in BOOLEAN /\ f.timer \in BOOLEAN
      /\ f.next = "SR_FINISHED" /\ f.msgs = <<"SH">> \o When(mode.ticket, "NST")
  BY DEF Flight, Flt, Ticket
<1>3. f.msgs = IF mode.ticket THEN <<"SH", "NST">> ELSE <<"SH">>
  BY <1>2, Tuples DEF When
<1>4. {"SH", "NST"} \subseteq Types
  BY DEF Types
<1>5. /\ s.readSeq = Base(mode) + 1 /\ s.nextSeq = Base(mode)
      /\ s.transcript = Hello(mode) /\ s.sent = <<>> /\ s.writeEpoch = 0 /\ ~s.ccs
  <2>1. Numbers(mode, e, s) /\ Transcript(mode, e, s) /\ Epochs(mode, e, s) /\ SentOk(mode, e, s)
    BY DEF Sound, Core, Placed
  <2>2. s.readSeq = Base(mode) + 1 /\ s.nextSeq = Base(mode)
    BY <1>1, <2>1 DEF Numbers
  <2>3. s.transcript = Hello(mode) /\ s.sent = <<>>
    BY <1>1, <2>1 DEF Transcript, SentOk, Emptied
  <2> QED
    BY <1>0, <1>1, <2>1, <2>2, <2>3 DEF Epochs, WroteFin, CcsOk, SSL
<1>6. Restart(s) \o f.msgs = HitTicket(mode)
  <2>1. Restart(s) = Hello(mode) /\ Hello(mode) \in Seq(Types)
    BY <1>5, Scripts DEF Restart
  <2> HIDE DEF f
  <2> QED
    BY <1>3, <1>4, <2>1, Appended DEF HitTicket, ServerHello, Grown
<1>7. /\ f.msgs \in Seq(Types) /\ Len(f.msgs) = IF mode.ticket THEN 2 ELSE 1
      /\ f.msgs[1] = "SH" /\ (mode.ticket => f.msgs[2] = "NST")
  <2> HIDE DEF f
  <2> QED
    BY <1>3, <1>4, TupleIn
<1> HIDE DEF f, u
<1>8. Proper(mode, e, s, f)
  <2>1. f.next \in StatesOf(mode, e) \cap States
    BY <1>0, <1>1, <1>2 DEF StatesOf, ServerStates, States
  <2>2. \A i \in 1 .. Len(f.msgs) : Fits(mode, e, s, f, f.msgs[i], i)
    <3>1. Fits(mode, e, s, f, "SH", 1)
      BY <1>1, <1>2, <1>5 DEF Fits, LastFlight, Says, Number, One, Base, Helloed
    <3>2. mode.ticket => Fits(mode, e, s, f, "NST", 2)
      BY <1>1, <1>2, <1>5 DEF Fits, LastFlight, Says, Number, One, Base, Helloed
    <3> TAKE i \in 1 .. Len(f.msgs)
    <3>3. CASE mode.ticket
      <4> i \in 1 .. 2
        BY <1>7, <3>3
      <4> QED
        BY <1>7, <3>1, <3>2, <3>3
    <3>4. CASE ~mode.ticket
      <4> i \in 1 .. 1
        BY <1>7, <3>4
      <4> QED
        BY <1>7, <3>1, <3>4
    <3> QED
      BY <3>3, <3>4
  <2>3. Number(mode, e, "FIN") = s.nextSeq + Len(f.msgs)
    BY <1>1, <1>5, <1>7 DEF Number, One, Base
  <2>4. FinDigest(mode, e) = Restart(s) \o f.msgs
    BY <1>1, <1>6 DEF FinDigest
  <2> QED
    BY <1>0, <1>1, <1>2, <1>5, <1>7, <2>1, <2>2, <2>3, <2>4
    DEF Proper, Emptied, Sound, Core, WroteFin, ReadFin, Helloed, Answered
<1>9. ASSUME Flown(s, f, u) PROVE Placed(mode, e, u)
  <2>1. Landed(s, f, u)
    BY <1>0, <1>9, FlownIs
  <2>2. u.st = "SR_FINISHED" /\ u.timer /\ u.readSeq = s.readSeq /\ ~u.ccs
    BY <1>2, <1>5, <2>1 DEF Landed
  <2>3. u.transcript = HitServerFin(mode)
    <3>1. u.transcript = HitTicket(mode) \o <<"FIN">>
      BY <1>2, <1>6, <2>1 DEF Landed, Told, When
    <3>2. HitTicket(mode) \in Seq(Types) /\ "FIN" \in Types
      BY Scripts DEF Types
    <3> QED
      BY <3>1, <3>2, Appended DEF HitServerFin
  <2>4. Numbers(mode, e, u)
    BY <1>0, <1>1, <1>2, <1>5, <2>2 DEF Numbers, One, Base
  <2>5. Transcript(mode, e, u)
    BY <1>0, <1>1, <1>2, <2>2, <2>3 DEF Transcript
  <2> QED
    BY <2>2, <2>4, <2>5 DEF Placed, Timers
<1> QED
  BY <1>8, <1>9, Flies DEF f, u

(* The flight of a server that makes a new session.                        *)
LEMMA ServerFlight ==
  ASSUME mode \in ModeSpace, NEW e \in Endpoints, NEW s, NEW p, Sound(mode, e, s, p),
         s.failed = "no", s.st = "SW_SRVR_HELLO", ~mode.hit
  PROVE  Sound(mode, e, WriteFlight(s), p) /\ Onward(s, WriteFlight(s))
<1> DEFINE f == Flight(s)
           u == WriteFlight(s)
<1>0. mode.hit \in BOOLEAN /\ mode.cert \in BOOLEAN /\ s \in SSL
  BY DEF ModeSpace, Sound, Core
<1>1. e = "server"
  BY DEF Sound, Core, StatesOf, ServerStates, ClientStates, Endpoints
<1>2. /\ ~f.finish /\ f.timer /\ f.finish \in BOOLEAN /\ f.timer \in BOOLEAN
      /\ f.next = IF mode.cert THEN "SR_CERT" ELSE "SR_KEY_EXCH"
      /\ f.msgs = <<"SH", "CERT">> \o When(mode.cert, "CREQ") \o <<"SHD">>
  BY DEF Flight, Flt
<1>3. f.msgs = IF mode.cert THEN <<"SH", "CERT", "CREQ", "SHD">> ELSE <<"SH", "CERT", "SHD">>
  BY <1>2, Tuples DEF When
<1>4. {"SH", "CERT", "CREQ", "SHD"} \subseteq Types
  BY DEF Types
<1>5. /\ s.readSeq = Base(mode) + 1 /\ s.nextSeq = Base(mode)
      /\ s.transcript = Hello(mode) /\ s.writeEpoch = 0 /\ ~s.ccs
  <2>1. Numbers(mode, e, s) /\ Transcript(mode, e, s) /\ Epochs(mode, e, s)
    BY DEF Sound, Core, Placed
  <2>2. s.readSeq = Base(mode) + 1 /\ s.nextSeq = Base(mode)
    BY <1>1, <2>1 DEF Numbers
  <2>3. s.transcript = Hello(mode)
    BY <1>1, <2>1 DEF Transcript
  <2> QED
    BY <1>0, <1>1, <2>1, <2>2, <2>3 DEF Epochs, WroteFin, CcsOk, SSL
<1>6. Restart(s) \o f.msgs = HelloDone(mode) /\ HelloDone(mode) \in Seq(Types)
  <2>1. Restart(s) = Hello(mode) /\ Hello(mode) \in Seq(Types)
    BY <1>5, Scripts DEF Restart
  <2> HIDE DEF f
  <2>2. \A q \in Seq(Types) :
          /\ q \o <<"SH", "CERT", "SHD">> = Append(Append(Append(q, "SH"), "CERT"), "SHD")
          /\ q \o <<"SH", "CERT", "CREQ", "SHD">> = 
               Append(Append(Append(Append(q, "SH"), "CERT"), "CREQ"), "SHD")
    BY <1>4, Appended
  <2> QED
    BY <1>3, <2>1, <2>2, Scripts DEF HelloDone, Request, Certificate, ServerHello, Grown
<1>7. /\ f.msgs \in Seq(Types) /\ Len(f.msgs) = IF mode.cert THEN 4 ELSE 3
      /\ f.msgs[1] = "SH" /\ f.msgs[2] = "CERT" /\ (mode.cert => f.msgs[4] = "SHD")
      /\ f.msgs[3] = IF mode.cert THEN "CREQ" ELSE "SHD"
  <2> HIDE DEF f
  <2> QED
    BY <1>3, <1>4, TupleIn
<1> HIDE DEF f, u
<1>8. Proper(mode, e, s, f)
  <2>1. f.next \in StatesOf(mode, e) \cap States
    BY <1>0, <1>1, <1>2 DEF StatesOf, ServerStates, States
  <2>2. \A i \in 1 .. Len(f.msgs) : Fits(mode, e, s, f, f.msgs[i], i)
    <3>1. Fits(mode, e, s, f, "SH", 1) /\ Fits(mode, e, s, f, "CERT", 2)
      BY <1>0, <1>1, <1>2, <1>5 DEF Fits, LastFlight, Says, Number, One, Base, Helloed
    <3>2. mode.cert => Fits(mode, e, s, f, "CREQ", 3) /\ Fits(mode, e, s, f, "SHD", 4)
      BY <1>0, <1>1, <1>2, <1>5 DEF Fits, LastFlight, Says, Number, One, Base, Helloed
    <3>5. ~mode.cert => Fits(mode, e, s, f, "SHD", 3)
      BY <1>0, <1>1, <1>2, <1>5 DEF Fits, LastFlight, Says, Number, One, Base, Helloed
    <3> TAKE i \in 1 .. Len(f.msgs)
    <3>3. CASE mode.cert
      <4> i \in 1 .. 4
        BY <1>7, <3>3
      <4> QED
        BY <1>7, <3>1, <3>2, <3>3
    <3>4. CASE ~mode.cert
      <4> i \in 1 .. 3
        BY <1>7, <3>4
      <4> QED
        BY <1>7, <3>1, <3>4, <3>5
    <3> QED
      BY <3>3, <3>4
  <2> QED
    BY <1>0, <1>1, <1>2, <1>5, <1>7, <2>1, <2>2
    DEF Proper, Emptied, Sound, Core, WroteFin, ReadFin, Helloed, Answered
<1>9. ASSUME Flown(s, f, u) PROVE Placed(mode, e, u)
  <2>1. Landed(s, f, u)
    BY <1>0, <1>9, FlownIs
  <2>2. u.st = f.next /\ u.timer /\ u.readSeq = s.readSeq /\ ~u.ccs
    BY <1>0, <1>2, <1>5, <2>1 DEF Landed
  <2>3. u.transcript = HelloDone(mode)
    <3>1. u.transcript = HelloDone(mode) \o <<>>
      BY <1>2, <1>6, <2>1 DEF Landed, Told, When
    <3> QED
      BY <1>6, <3>1, ConcatEmptySeq
  <2>6. u.nextSeq = Base(mode) + 3 + One(mode.cert)
    <3>1. ~Listening(s) /\ f.next # "OK"
      BY <1>2 DEF Listening
    <3>2. Size(f) = 3 + One(mode.cert)
      BY <1>0, <1>2, <1>7 DEF Size, One
    <3> QED
      BY <1>0, <1>5, <2>1, <3>1, <3>2 DEF Landed, Base, One
  <2>4. Numbers(mode, e, u)
    BY <1>0, <1>1, <1>2, <1>5, <2>2, <2>6 DEF Numbers, One, Base
  <2>5. Transcript(mode, e, u)
    BY <1>0, <1>1, <1>2, <2>2, <2>3 DEF Transcript, ClientCert, Grown
  <2> QED
    BY <2>2, <2>4, <2>5 DEF Placed, Timers
<1> QED
  BY <1>8, <1>9, Flies DEF f, u

(* The NewSessionTicket and the server's Finished.                         *)
LEMMA TicketFlight ==
  ASSUME mode \in ModeSpace, NEW e \in Endpoints, NEW s, NEW p, Sound(mode, e, s, p),
         s.failed = "no", s.st = "SW_CHANGE"
  PROVE  Sound(mode, e, WriteFlight(s), p) /\ Onward(s, WriteFlight(s))
<1> DEFINE f == Flight(s)
           u == WriteFlight(s)
<1>0. mode.hit \in BOOLEAN /\ mode.ticket \in BOOLEAN /\ mode.cert \in BOOLEAN /\ s \in SSL
  BY DEF ModeSpace, Sound, Core
<1>1. e = "server" /\ ~mode.hit
  BY DEF Sound, Core, StatesOf, ServerStates, ClientStates, Endpoints
<1>2. /\ f.finish /\ f.finish \in BOOLEAN /\ f.timer \in BOOLEAN
      /\ f.next = "OK" /\ f.msgs = When(mode.ticket, "NST")
  BY DEF Flight, Flt, Ticket
<1>5. /\ s.nextSeq = Base(mode) + 3 + One(mode.cert) /\ s.sent = <<>>
      /\ s.transcript = ClientFin(mode) /\ s.writeEpoch = 0 /\ ~s.ccs
  <2>1. Numbers(mode, e, s) /\ Transcript(mode, e, s) /\ Epochs(mode, e, s) /\ SentOk(mode, e, s)
    BY DEF Sound, Core, Placed
  <2>2. s.nextSeq = Base(mode) + 3 + One(mode.cert)
    BY <1>1, <2>1 DEF Numbers
  <2>3. s.transcript = ClientFin(mode) /\ s.sent = <<>>
    BY <1>1, <2>1 DEF Transcript, SentOk, Emptied
  <2> QED
    BY <1>0, <1>1, <2>1, <2>2, <2>3 DEF Epochs, WroteFin, CcsOk, SSL
<1>6. Restart(s) \o f.msgs = NewTicket(mode)
  <2>1. Restart(s) = ClientFin(mode) /\ ClientFin(mode) \in Seq(Types) /\ "NST" \in Types
    BY <1>5, Scripts DEF Restart, Types
  <2> HIDE DEF f
  <2> QED
    BY <1>2, <2>1, Appended DEF NewTicket, Grown, When
<1>7. /\ f.msgs \in Seq(Types) /\ Len(f.msgs) = IF mode.ticket THEN 1 ELSE 0
      /\ mode.ticket => f.msgs[1] = "NST"
  <2> "NST" \in Types
    BY DEF Types
  <2> HIDE DEF f
  <2> QED
    BY <1>2, TupleIn, NoneIn DEF When
<1> HIDE DEF f, u
<1>8. Proper(mode, e, s, f)
  <2>1. f.next \in StatesOf(mode, e) \cap States
    BY <1>0, <1>1, <1>2 DEF StatesOf, ServerStates, States
  <2>2. \A i \in 1 .. Len(f.msgs) : Fits(mode, e, s, f, f.msgs[i], i)
    <3>1. mode.ticket => Fits(mode, e, s, f, "NST", 1)
      BY <1>0, <1>1, <1>2, <1>5 DEF Fits, LastFlight, Says, Number, One, Base
    <3> TAKE i \in 1 .. Len(f.msgs)
    <3>2. mode.ticket /\ i \in 1 .. 1
      BY <1>0, <1>7
    <3> QED
      BY <1>7, <3>1, <3>2
  <2>3. Number(mode, e, "FIN") = s.nextSeq + Len(f.msgs)
    BY <1>0, <1>1, <1>5, <1>7 DEF Number, One, Base
  <2>4. FinDigest(mode, e) = Restart(s) \o f.msgs
    BY <1>1, <1>6 DEF FinDigest
  <2> QED
    BY <1>0, <1>1, <1>2, <1>5, <1>7, <2>1, <2>2, <2>3, <2>4
    DEF Proper, Emptied, Sound, Core, WroteFin, ReadFin, Helloed, Answered
<1>9. ASSUME Flown(s, f, u) PROVE Placed(mode, e, u)
  <2>1. Landed(s, f, u)
    BY <1>0, <1>9, FlownIs
  <2>2. u.st = "OK" /\ ~u.ccs
    BY <1>2, <1>5, <2>1 DEF Landed
  <2>3. u.transcript = ServerFin(mode)
    <3>1. u.transcript = NewTicket(mode) \o <<"FIN">>
      BY <1>2, <1>6, <2>1 DEF Landed, Told, When
    <3>2. NewTicket(mode) \in Seq(Types) /\ "FIN" \in Types
      BY Scripts DEF Types
    <3> QED
      BY <3>1, <3>2, Appended DEF ServerFin
  <2>4. Numbers(mode, e, u)
    BY <1>1, <2>2 DEF Numbers
  <2>5. Transcript(mode, e, u)
    BY <1>0, <1>1, <2>2, <2>3 DEF Transcript, Everything
  <2> QED
    BY <2>2, <2>4, <2>5 DEF Placed, Timers
<1> QED
  BY <1>8, <1>9, Flies DEF f, u

(* Writing a flight.                                                       *)
LEMMA FlightSound ==
  ASSUME mode \in ModeSpace, NEW e \in Endpoints, NEW s, NEW p, Sound(mode, e, s, p),
         s.failed = "no", Writing(s)
  PROVE  Sound(mode, e, WriteFlight(s), p) /\ Onward(s, WriteFlight(s))
BY HelloFlight, ClientFlight, ResumingClientFlight, HelloVerifyFlight, ResumingServerFlight,
   ServerFlight, TicketFlight DEF Writing

------------------------------------------------------------------------------
(* Taking a handshake message.                                             *)

(* The message of the peer that e, in state s, waits for, by its number.   *)
Expected(md, e, s, m) ==
  IF e = "client"
  THEN \/ /\ s.st = "CR_SRVR_HELLO" /\ m.type = "HVR" /\ ~s.sendCookie /\ md.cookie # "none"
       \/ /\ s.st = "CR_SRVR_HELLO" /\ m.type = "SH"
          /\ s.sendCookie <=> md.cookie # "none"
       \/ s.st = "CR_CERT" /\ m.type = "CERT"
       \/ s.st = "CR_CERT_REQ" /\ m.type = (IF md.cert THEN "CREQ" ELSE "SHD")
       \/ s.st = "CR_SRVR_DONE" /\ m.type = "SHD"
       \/ s.st = "CR_SESSION_TICKET" /\ m.type = "NST"
       \/ s.st = "CR_FINISHED" /\ m.type = (IF md.hit /\ md.ticket THEN "NST" ELSE "FIN")
  ELSE \/ s.st = "SR_CLNT_HELLO" /\ m.type = "CH" /\ s.readSeq = 0
       \/ /\ s.st = "SR_CLNT_HELLO" /\ m.type = "CHC" /\ md.cookie # "none"
          /\ md.cookie = "accept" => s.readSeq = 1
       \/ s.st = "SR_CERT" /\ m.type = "CERT"
       \/ s.st = "SR_KEY_EXCH" /\ m.type = "CKE"
       \/ s.st = "SR_CERT_VRFY" /\ m.type = (IF md.cert THEN "CVFY" ELSE "FIN")
       \/ s.st = "SR_FINISHED" /\ m.type = "FIN"

\* The message m is next for s.
IsNext(s, m) == m.seq = s.readSeq \/ (Listening(s) /\ m.seq = 1)

(* The messages of the server and their numbers.                           *)
LEMMA ServerSays ==
  ASSUME NEW md \in ModeSpace, NEW x, Says(md, "server", x),
         NEW k, k = Base(md), NEW c, c = One(md.cert), NEW t, t = One(md.ticket)
  PROVE  LET n == Number(md, "server", x)
         IN /\ k \in 0 .. 1 /\ c \in 0 .. 1 /\ t \in 0 .. 1
            /\ \/ x = "HVR" /\ k = 1 /\ md.cookie # "none" /\ n = 0
               \/ x = "SH" /\ n = k
               \/ x = "CERT" /\ ~md.hit /\ n = k + 1
               \/ x = "CREQ" /\ ~md.hit /\ md.cert /\ c = 1 /\ n = k + 2
               \/ x = "SHD" /\ ~md.hit /\ n = k + 2 + c
               \/ x = "NST" /\ md.ticket /\ t = 1 /\ n = IF md.hit THEN k + 1 ELSE k + 3 + c
               \/ x = "FIN" /\ n = IF md.hit THEN k + 1 + t ELSE k + 3 + c + t
<1>1. /\ md.hit \in BOOLEAN /\ md.cert \in BOOLEAN /\ md.ticket \in BOOLEAN
  BY DEF ModeSpace
<1>2. /\ k = (IF md.cookie # "none" THEN 1 ELSE 0) /\ c = (IF md.cert THEN 1 ELSE 0)
      /\ t = IF md.ticket THEN 1 ELSE 0
  BY DEF One, Base
<1>3. x \in {"HVR", "SH", "CERT", "CREQ", "SHD", "NST", "FIN"}
  BY DEF Says
<1>4. CASE x = "HVR"
  BY <1>2, <1>4 DEF Says, Number
<1>5. CASE x = "SH"
  BY <1>2, <1>5 DEF Number
<1>6. CASE x = "CERT"
  BY <1>2, <1>6 DEF Says, Number
<1>7. CASE x = "CREQ"
  BY <1>2, <1>7 DEF Says, Number
<1>8. CASE x = "SHD"
  BY <1>2, <1>8 DEF Says, Number
<1>9. CASE x = "NST"
  BY <1>1, <1>2, <1>9 DEF Says, Number
<1>10. CASE x = "FIN"
  BY <1>1, <1>2, <1>10 DEF Number
<1> QED
  BY <1>3, <1>4, <1>5, <1>6, <1>7, <1>8, <1>9, <1>10

(* The message that is next by its number is the one that is waited for.   *)
LEMMA NextIsExpected ==
  ASSUME mode \in ModeSpace, NEW e \in Endpoints, NEW s, NEW p, Sound(mode, e, s, p),
         s.failed = "no", InInit(s), ~Writing(s),
         NEW m, Good(mode, Peer(e), m), IsHandshake(m), IsNext(s, m)
  PROVE  Expected(mode, e, s, m)
<1>1. Says(mode, Peer(e), m.type) /\ m.seq = Number(mode, Peer(e), m.type)
  BY DEF Good
<1>2. /\ mode.hit \in BOOLEAN /\ mode.cert \in BOOLEAN /\ mode.ticket \in BOOLEAN
      /\ mode.cookie \in {"none", "accept", "listen"} /\ s.sendCookie \in BOOLEAN
  BY DEF ModeSpace, Sound, Core, SSL
<1>3. Numbers(mode, e, s) /\ s.st \in StatesOf(mode, e)
  BY DEF Sound, Core, Placed
<1>4. CASE e = "client"
  <2>1. ~Listening(s) /\ s.st \in ClientStates(mode)
    BY <1>3, <1>4 DEF Listening, StatesOf, ClientStates
  <2>2. m.seq = s.readSeq
    BY <2>1 DEF IsNext
  <2>3. Says(mode, "server", m.type) /\ m.seq = Number(mode, "server", m.type)
    BY <1>1, <1>4 DEF Peer
  <2> DEFINE k == Base(mode)
             c == One(mode.cert)
             t == One(mode.ticket)
             n == m.seq
             x == m.type
  <2>10. /\ k \in 0 .. 1 /\ c \in 0 .. 1 /\ t \in 0 .. 1
         /\ \/ x = "HVR" /\ k = 1 /\ mode.cookie # "none" /\ n = 0
            \/ x = "SH" /\ n = k
            \/ x = "CERT" /\ ~mode.hit /\ n = k + 1
            \/ x = "CREQ" /\ ~mode.hit /\ mode.cert /\ c = 1 /\ n = k + 2
            \/ x = "SHD" /\ ~mode.hit /\ n = k + 2 + c
            \/ x = "NST" /\ mode.ticket /\ t = 1 /\ n = IF mode.hit THEN k + 1 ELSE k + 3 + c
            \/ x = "FIN" /\ n = IF mode.hit THEN k + 1 + t ELSE k + 3 + c + t
    BY <2>3, ServerSays
  <2>11. /\ mode.cert => c = 1
         /\ ~mode.cert => c = 0
         /\ mode.ticket => t = 1
         /\ ~mode.ticket => t = 0
         /\ mode.cookie # "none" => k = 1
         /\ mode.cookie = "none" => k = 0
    BY <1>2 DEF One, Base
  <2> HIDE DEF k, c, t
  <2>4. CASE s.st = "CR_SRVR_HELLO"
    <3>1. s.readSeq = One(s.sendCookie) /\ (s.sendCookie => mode.cookie # "none")
      BY <1>3, <1>4, <2>4 DEF Numbers, k, c, t
    <3> QED
      BY <1>2, <1>4, <2>2, <2>10, <2>11, <2>4, <3>1 DEF Expected, One
  <2>5. CASE s.st = "CR_CERT"
    <3>1. s.readSeq = k + 1 /\ ~mode.hit
      BY <1>3, <1>4, <2>1, <2>5 DEF Numbers, k, c, t, ClientStates
    <3> QED
      BY <1>2, <1>4, <2>2, <2>10, <2>11, <2>5, <3>1 DEF Expected
  <2>6. CASE s.st = "CR_CERT_REQ"
    <3>1. s.readSeq = k + 2 /\ ~mode.hit
      BY <1>3, <1>4, <2>1, <2>6 DEF Numbers, k, c, t, ClientStates
    <3> QED
      BY <1>2, <1>4, <2>2, <2>10, <2>11, <2>6, <3>1 DEF Expected
  <2>7. CASE s.st = "CR_SRVR_DONE"
    <3>1. s.readSeq = k + 3 /\ ~mode.hit /\ mode.cert
      BY <1>3, <1>4, <2>1, <2>7 DEF Numbers, k, c, t, ClientStates
    <3> QED
      BY <1>2, <1>4, <2>2, <2>10, <2>11, <2>7, <3>1 DEF Expected
  <2>8. CASE s.st = "CR_SESSION_TICKET"
    <3>1. s.readSeq = k + 3 + c /\ ~mode.hit /\ mode.ticket
      BY <1>3, <1>4, <2>1, <2>8 DEF Numbers, k, c, t, ClientStates
    <3> QED
      BY <1>2, <1>4, <2>2, <2>10, <2>11, <2>8, <3>1 DEF Expected
  <2>9. CASE s.st = "CR_FINISHED"
    <3>1. s.readSeq = IF mode.hit THEN k + 1
                                  ELSE k + 3 + c + t
      BY <1>3, <1>4, <2>9 DEF Numbers, k, c, t
    <3> QED
      BY <1>2, <1>4, <2>2, <2>10, <2>11, <2>9, <3>1 DEF Expected
  <2> QED
    BY <2>1, <2>4, <2>5, <2>6, <2>7, <2>8, <2>9 DEF ClientStates, InInit, Writing
<1>5. CASE e = "server"
  <2>1. s.st \in ServerStates(mode)
    BY <1>3, <1>5 DEF StatesOf
  <2>3. Says(mode, "client", m.type) /\ m.seq = Number(mode, "client", m.type)
    BY <1>1, <1>5 DEF Peer
  <2>4. CASE s.st = "SR_CLNT_HELLO"
    <3>1. s.readSeq = 0 \/ (s.readSeq = 1 /\ mode.cookie = "accept")
      BY <1>3, <1>5, <2>4 DEF Numbers
    <3>2. m.seq = s.readSeq \/ (mode.cookie = "listen" /\ m.seq = 1)
      BY DEF IsNext, Listening
    <3> QED
      BY <1>2, <1>5, <2>3, <2>4, <3>1, <3>2 DEF Expected, Says, Number, One, Base
  <2>2. s.st # "SR_CLNT_HELLO" => m.seq = s.readSeq
    BY DEF IsNext, Listening, Writing
  <2>5. CASE s.st = "SR_CERT"
    <3>1. s.readSeq = Base(mode) + 1 /\ ~mode.hit /\ mode.cert
      BY <1>3, <1>5, <2>1, <2>5 DEF Numbers, ServerStates
    <3> QED
      BY <1>2, <1>5, <2>2, <2>3, <2>5, <3>1 DEF Expected, Says, Number, One, Base
  <2>6. CASE s.st = "SR_KEY_EXCH"
    <3>1. s.readSeq = Base(mode) + 1 + One(mode.cert) /\ ~mode.hit
      BY <1>3, <1>5, <2>1, <2>6 DEF Numbers, ServerStates
    <3> QED
      BY <1>2, <1>5, <2>2, <2>3, <2>6, <3>1 DEF Expected, Says, Number, One, Base
  <2>7. CASE s.st = "SR_CERT_VRFY"
    <3>1. s.readSeq = Base(mode) + 2 + One(mode.cert) /\ ~mode.hit
      BY <1>3, <1>5, <2>1, <2>7 DEF Numbers, ServerStates
    <3> QED
      BY <1>2, <1>5, <2>2, <2>3, <2>7, <3>1 DEF Expected, Says, Number, One, Base
  <2>8. CASE s.st = "SR_FINISHED"
    <3>1. /\ s.readSeq = IF mode.hit THEN Base(mode) + 1
                         ELSE Base(mode) + 2 + One(mode.cert) + One(mode.cert)
          /\ mode.hit \/ mode.cert
      BY <1>3, <1>5, <2>1, <2>8 DEF Numbers, ServerStates
    <3> QED
      BY <1>2, <1>5, <2>2, <2>3, <2>8, <3>1 DEF Expected, Says, Number, One, Base
  <2> QED
    BY <2>1, <2>4, <2>5, <2>6, <2>7, <2>8 DEF ServerStates, InInit, Writing
<1> QED
  BY <1>4, <1>5 DEF Endpoints

(* The fields a move of the handshake changes.                             *)
MoveFields == {"st", "transcript", "readSeq", "nextSeq", "timer", "tries", "sent", "ccs",
               "sendCookie", "wseq"}

(* A move of the handshake that keeps the promises of the new state.       *)
LEMMA MovedSound ==
  ASSUME NEW md, NEW e \in Endpoints, NEW s, NEW p, Sound(md, e, s, p), s.failed = "no",
         NEW u \in SSL, AllBut(s, u, MoveFields),
         u.st \in StatesOf(md, e), ~u.ccs,
         u.sent = s.sent \/ u.sent = <<>>,
         u.st \in Emptied => u.sent = <<>>,
         WroteFin(md, e, u.st) <=> WroteFin(md, e, s.st),
         ReadFin(u.st) <=> s.ccs \/ ReadFin(s.st),
         Helloed(s.st) => Helloed(u.st),
         e = "client" /\ Answered(u.st) => Helloed(p.st),
         Numbers(md, e, u), Timers(u), Transcript(md, e, u)
  PROVE  Sound(md, e, u, p) /\ Onward(s, u)
<1>0. s \in SSL
  BY DEF Sound, Core
<1>1. /\ u.failed = "no" /\ u.writeEpoch = s.writeEpoch /\ u.readEpoch = s.readEpoch
      /\ u.buffered = s.buffered /\ u.unprocessed = s.unprocessed /\ u.bitmap = s.bitmap
      /\ u.read = s.read /\ u.appQueue = s.appQueue /\ u.wbio = s.wbio
  BY <1>0, FieldsOf DEF AllBut, MoveFields
<1>2. Epochs(md, e, u)
  BY <1>1 DEF Sound, Core, Epochs
<1>3. SentOk(md, e, u)
  <2>1. \A i \in DOMAIN u.sent : i \in DOMAIN s.sent /\ u.sent[i] = s.sent[i]
    <3>1. DOMAIN <<>> = {}
      OBVIOUS
    <3> QED
      BY <3>1
  <2> QED
    BY <1>1, <2>1 DEF Sound, Core, SentOk
<1>4. ReadOnce(u)
  BY <1>1 DEF Sound, Core, ReadOnce
<1>5. Peers(md, e, u, p)
  BY <1>1 DEF Sound, Core, Peers
<1>6. Writes(md, e, u)
  BY <1>1 DEF Sound, Core, Writes, Arrives, Reached
<1>7. Blameless(md, u)
  BY <1>1 DEF Blameless
<1>8. Placed(md, e, u)
  BY DEF Placed
<1>9. Onward(s, u)
  BY <1>1 DEF Onward
<1> QED
  BY <1>2, <1>3, <1>4, <1>5, <1>6, <1>7, <1>8, <1>9 DEF Sound, Core

(* The message is taken: t is s with m in the transcript.                  *)
Taken(s, m) == [s EXCEPT !.transcript = Append(s.transcript, m.type),
                         !.readSeq = IF Listening(s) THEN s.readSeq ELSE s.readSeq + 1]

(* What taking a message changes.                                          *)
LEMMA TakenIs ==
  ASSUME NEW s \in SSL, NEW m \in Records
  PROVE  /\ Taken(s, m) \in SSL /\ AllBut(s, Taken(s, m), {"transcript", "readSeq"})
         /\ Taken(s, m).transcript = Append(s.transcript, m.type)
         /\ Taken(s, m).readSeq = IF Listening(s) THEN s.readSeq ELSE s.readSeq + 1
<1> DEFINE tr == Append(s.transcript, m.type)
           n == IF Listening(s) THEN s.readSeq ELSE s.readSeq + 1
<1>1. tr \in Seq(Types) /\ n \in Nat
  <2>1. s.transcript \in Seq(Types) /\ m.type \in Types /\ s.readSeq \in Nat
    BY DEF SSL, Records
  <2> QED
    BY <2>1, AppendProperties
<1>2. Taken(s, m) = [s EXCEPT !.transcript = tr, !.readSeq = n]
  BY DEF Taken
<1> HIDE DEF tr, n
<1>3. /\ Taken(s, m) \in SSL /\ AllBut(s, Taken(s, m), {"transcript", "readSeq"})
      /\ Taken(s, m).transcript = tr /\ Taken(s, m).readSeq = n
  BY <1>1, <1>2 DEF SSL, AllBut
<1> QED
  BY <1>3 DEF tr, n

(* A message that is taken and fatal.                                      *)
LEMMA TakenSound ==
  ASSUME NEW md, NEW e, NEW s, NEW p, Sound(md, e, s, p), s.failed = "no",
         NEW m \in Records
  PROVE  Core(md, e, Taken(s, m), p) /\ Onward(s, Taken(s, m))
<1> DEFINE t == Taken(s, m)
<1>0. s \in SSL
  BY DEF Sound, Core
<1>1. t \in SSL /\ AllBut(s, t, {"transcript", "readSeq"})
  BY <1>0, TakenIs
<1> HIDE DEF t
<1>2. CoreSame(s, t) /\ t.failed = "no" /\ t.wbio = s.wbio
  BY <1>0, <1>1, FieldsOf DEF AllBut, CoreSame
<1>3. Writes(md, e, t) /\ Blameless(md, t)
  BY <1>2 DEF Sound, Core, Writes, Arrives, Reached, Blameless, CoreSame
<1> QED
  BY <1>1, <1>2, <1>3, CoreFrame DEF Sound, t

LEMMA StopTimerIs ==
  ASSUME NEW s \in SSL
  PROVE  /\ StopTimer(s) \in SSL /\ AllBut(s, StopTimer(s), {"timer", "tries", "sent"})
         /\ StopTimer(s).sent = <<>> /\ ~StopTimer(s).timer /\ StopTimer(s).tries = 0
<1>1. <<>> \in Seq(Kept)
  BY NoneIn
<1> QED
  BY <1>1 DEF StopTimer, SSL, AllBut

(* What a change of state changes.                                         *)
LEMMA InState ==
  ASSUME NEW s \in SSL, NEW st \in States
  PROVE  /\ [s EXCEPT !.st = st] \in SSL /\ AllBut(s, [s EXCEPT !.st = st], {"st"})
         /\ [s EXCEPT !.st = st].st = st
BY DEF SSL, AllBut

(* A move to the state next, which stops the timer or not.                 *)
Move(s, m, next, stops) ==
  [(IF stops THEN StopTimer(Taken(s, m)) ELSE Taken(s, m)) EXCEPT !.st = next]

(* What a move of the table changes.                                       *)
LEMMA MoveIs ==
  ASSUME NEW s \in SSL, NEW m \in Records, NEW next \in States, NEW stops \in BOOLEAN
  PROVE  LET u == Move(s, m, next, stops)
         IN /\ u \in SSL
            /\ AllBut(s, u, {"st", "transcript", "readSeq", "timer", "tries", "sent"})
            /\ u.st = next /\ u.transcript = Append(s.transcript, m.type)
            /\ u.readSeq = IF Listening(s) THEN s.readSeq ELSE s.readSeq + 1
            /\ stops => u.sent = <<>> /\ ~u.timer /\ u.tries = 0
            /\ ~stops => u.sent = s.sent /\ u.timer = s.timer /\ u.tries = s.tries
<1> DEFINE t == Taken(s, m)
           w == IF stops THEN StopTimer(t) ELSE t
           u == [w EXCEPT !.st = next]
<1>1. /\ t \in SSL /\ AllBut(s, t, {"transcript", "readSeq"})
      /\ t.transcript = Append(s.transcript, m.type)
      /\ t.readSeq = IF Listening(s) THEN s.readSeq ELSE s.readSeq + 1
  BY TakenIs
<1> HIDE DEF t
<1>2. /\ w \in SSL /\ AllBut(t, w, {"timer", "tries", "sent"})
      /\ stops => w.sent = <<>> /\ ~w.timer /\ w.tries = 0
      /\ ~stops => w = t
  BY <1>1, StopTimerIs DEF AllBut
<1> HIDE DEF w
<1>3. u \in SSL /\ AllBut(w, u, {"st"}) /\ u.st = next
  BY <1>2, InState
<1> HIDE DEF u
<1>4. AllBut(s, u, {"st", "transcript", "readSeq", "timer", "tries", "sent"})
  BY <1>1, <1>2, <1>3, FieldsOf DEF AllBut
<1>5. /\ u.transcript = w.transcript /\ u.readSeq = w.readSeq /\ u.sent = w.sent
      /\ u.timer = w.timer /\ u.tries = w.tries
      /\ w.transcript = t.transcript /\ w.readSeq = t.readSeq
      /\ t.sent = s.sent /\ t.timer = s.timer /\ t.tries = s.tries
  BY <1>1, <1>2, <1>3, FieldsOf DEF AllBut
<1>6. u = Move(s, m, next, stops)
  BY DEF u, w, t, Move
<1> QED
  BY <1>1, <1>2, <1>3, <1>4, <1>5, <1>6

(* The moves of the table are what Consume makes of them.                  *)
LEMMA MoveTaken ==
  ASSUME NEW s, NEW m, NEW next, <<s.st, m.type, next>> \in Moves
  PROVE  Consume(s, m) = Move(s, m, next, StopsTimer(s, m))
<1> DEFINE P(x) == x[1] = s.st /\ x[2] = m.type
           mv == CHOOSE x \in Moves : P(x)
           t == Taken(s, m)
<1>1. \E x \in Moves : P(x)
  <2>1. P(<<s.st, m.type, next>>)
    OBVIOUS
  <2> HIDE DEF P
  <2> QED
    BY <2>1
<1>2. mv \in Moves /\ P(mv)
  <2> HIDE DEF P
  <2> QED
    BY <1>1, Zenon
<1>3. mv[3] = next
  BY <1>2 DEF Moves
<1>4. /\ s.st \notin {"SR_CLNT_HELLO", "SR_CERT_VRFY"} /\ ~CcsOk(s)
      /\ ~(s.st = "CR_SRVR_HELLO" /\ m.type = "HVR")
  BY DEF Moves, CcsOk
<1>5. Consume(s, m) = [(IF StopsTimer(s, m) THEN StopTimer(t) ELSE t) EXCEPT !.st = mv[3]]
  BY <1>1, <1>4 DEF Consume, Taken
<1> QED
  BY <1>3, <1>5 DEF Move

(* A move of the table that keeps the promises of the new state.           *)
LEMMA MoveGoes ==
  ASSUME NEW md, NEW e \in Endpoints, NEW s, NEW p, Sound(md, e, s, p), s.failed = "no",
         NEW m \in Records, NEW next \in States, NEW stops \in BOOLEAN, ~s.ccs,
         ~Listening(s), next \in StatesOf(md, e), next \in Emptied => stops,
         WroteFin(md, e, next) <=> WroteFin(md, e, s.st), ReadFin(next) <=> ReadFin(s.st),
         Helloed(s.st) => Helloed(next), e = "client" /\ Answered(next) => Helloed(p.st),
         \A u : /\ u.st = next /\ u.transcript = Append(s.transcript, m.type)
                /\ u.readSeq = s.readSeq + 1 /\ u.nextSeq = s.nextSeq
                /\ u.sendCookie = s.sendCookie /\ (~stops => u.timer = s.timer)
                => Numbers(md, e, u) /\ Timers(u) /\ Transcript(md, e, u)
  PROVE  Sound(md, e, Move(s, m, next, stops), p) /\ Onward(s, Move(s, m, next, stops))
<1> DEFINE u == Move(s, m, next, stops)
<1>0. s \in SSL
  BY DEF Sound, Core
<1>1. /\ u \in SSL
      /\ AllBut(s, u, {"st", "transcript", "readSeq", "timer", "tries", "sent"})
      /\ u.st = next /\ u.transcript = Append(s.transcript, m.type)
      /\ u.readSeq = IF Listening(s) THEN s.readSeq ELSE s.readSeq + 1
      /\ stops => u.sent = <<>>
      /\ ~stops => u.sent = s.sent /\ u.timer = s.timer
  BY <1>0, MoveIs
<1> HIDE DEF u
<1>2. u.nextSeq = s.nextSeq /\ u.sendCookie = s.sendCookie /\ u.ccs = s.ccs
  BY <1>0, <1>1, FieldsOf DEF AllBut
<1>3. Numbers(md, e, u) /\ Timers(u) /\ Transcript(md, e, u)
  BY <1>1, <1>2
<1>4. AllBut(s, u, MoveFields)
  BY <1>1 DEF AllBut, MoveFields
<1>5. u.sent = s.sent \/ u.sent = <<>>
  BY <1>1
<1>6. Sound(md, e, u, p) /\ Onward(s, u)
  BY <1>1, <1>2, <1>3, <1>4, <1>5, MovedSound
<1> QED
  BY <1>6 DEF u

(* The moves of the client.                                                *)
LEMMA ClientMove ==
  ASSUME mode \in ModeSpace, NEW s, NEW p, Sound(mode, "client", s, p),
         s.failed = "no", NEW m \in Records, Arrives(mode, "server", p, m),
         Expected(mode, "client", s, m), m.type \notin {"HVR", "FIN"},
         ~(s.st = "CR_FINISHED" /\ m.type = "NST")
  PROVE  Sound(mode, "client", Consume(s, m), p) /\ Onward(s, Consume(s, m))
<1> DEFINE c == One(mode.cert)
           t == One(mode.ticket)
           k == Base(mode)
           stops == StopsTimer(s, m)
<1>0. /\ s \in SSL /\ mode.hit \in BOOLEAN /\ mode.cert \in BOOLEAN /\ mode.ticket \in BOOLEAN
      /\ k \in Nat /\ stops \in BOOLEAN /\ "client" \in Endpoints
  BY DEF Sound, Core, ModeSpace, Base, One, StopsTimer, Endpoints
<1>1. /\ Numbers(mode, "client", s) /\ Timers(s) /\ Transcript(mode, "client", s)
      /\ s.st \in ClientStates(mode) /\ Epochs(mode, "client", s)
      /\ Answered(s.st) => Helloed(p.st)
      /\ s.sendCookie => mode.cookie # "none"
  <2>1. /\ Numbers(mode, "client", s) /\ Timers(s) /\ Transcript(mode, "client", s)
        /\ s.st \in ClientStates(mode) /\ Epochs(mode, "client", s)
    BY DEF Sound, Core, Placed, StatesOf
  <2> QED
    BY <2>1 DEF Sound, Core, Peers, Numbers
<1>2. ~Listening(s)
  BY <1>1 DEF Listening, ClientStates
<1>3. s.st # "CR_FINISHED" => ~s.ccs
  BY <1>1 DEF Epochs, CcsOk, ClientStates
<1>4. CASE s.st = "CR_SRVR_HELLO" /\ m.type = "SH"
  <2> DEFINE next == IF mode.hit THEN "CR_FINISHED" ELSE "CR_CERT"
  <2>1. <<s.st, m.type, next>> \in Moves /\ next \in States /\ next \in StatesOf(mode, "client")
    BY <1>0, <1>4 DEF Moves, States, StatesOf, ClientStates
  <2>2. ~stops
    BY <1>4 DEF StopsTimer
  <2>3. /\ s.readSeq = k /\ s.nextSeq = k + 1 /\ s.transcript = Hello(mode) /\ s.timer
    <3>1. s.sendCookie <=> mode.cookie # "none"
      BY <1>4 DEF Expected
    <3>2. /\ s.readSeq = One(s.sendCookie) /\ s.nextSeq = One(s.sendCookie) + 1 /\ s.timer
          /\ s.transcript = <<IF s.sendCookie THEN "CHC" ELSE "CH">>
      BY <1>1, <1>4 DEF Numbers, Timers, Transcript
    <3> QED
      BY <1>0, <3>1, <3>2 DEF Hello, Base, One
  <2>4. Helloed(p.st)
    BY <1>4 DEF Arrives, Reached
  <2>5. ASSUME NEW u, u.st = next, u.transcript = Append(s.transcript, m.type),
               u.readSeq = s.readSeq + 1, u.nextSeq = s.nextSeq,
               u.sendCookie = s.sendCookie, u.timer = s.timer
        PROVE  Numbers(mode, "client", u) /\ Timers(u) /\ Transcript(mode, "client", u)
    <3>1. Numbers(mode, "client", u)
      BY <1>0, <1>1, <2>3, <2>5 DEF Numbers
    <3>2. u.transcript = ServerHello(mode)
      BY <1>4, <2>3, <2>5 DEF ServerHello
    <3>3. Timers(u) /\ Transcript(mode, "client", u)
      BY <1>0, <2>3, <2>5, <3>2 DEF Timers, Transcript
    <3> QED
      BY <3>1, <3>3
  <2>6. /\ next \notin Emptied /\ Helloed(next)
        /\ WroteFin(mode, "client", next) <=> WroteFin(mode, "client", s.st)
        /\ ReadFin(next) <=> ReadFin(s.st)
    BY <1>0, <1>4 DEF Emptied, WroteFin, ReadFin, Helloed
  <2>7. Sound(mode, "client", Move(s, m, next, stops), p) /\ Onward(s, Move(s, m, next, stops))
    <3> HIDE DEF next, stops
    <3> QED
      BY <1>0, <1>2, <1>3, <1>4, <2>1, <2>2, <2>4, <2>5, <2>6, MoveGoes
  <2> QED
    BY <2>1, <2>7, MoveTaken
<1>5. CASE s.st = "CR_CERT" /\ m.type = "CERT"
  <2> DEFINE next == "CR_CERT_REQ"
  <2>1. <<s.st, m.type, next>> \in Moves /\ next \in States /\ next \in StatesOf(mode, "client")
    BY <1>1, <1>5 DEF Moves, States, StatesOf, ClientStates
  <2>2. s.readSeq = k + 1 /\ s.nextSeq = k + 1 /\ s.transcript = ServerHello(mode) /\ ~mode.hit
    BY <1>1, <1>5 DEF Numbers, Transcript, ClientStates
  <2>3. ASSUME NEW u, u.st = next, u.transcript = Append(s.transcript, m.type),
               u.readSeq = s.readSeq + 1, u.nextSeq = s.nextSeq, u.sendCookie = s.sendCookie
        PROVE  Numbers(mode, "client", u) /\ Timers(u) /\ Transcript(mode, "client", u)
    BY <1>0, <1>1, <1>5, <2>2, <2>3 DEF Numbers, Timers, Transcript, Certificate
  <2>4. /\ next \notin Emptied /\ Helloed(next)
        /\ WroteFin(mode, "client", next) <=> WroteFin(mode, "client", s.st)
        /\ (ReadFin(next) <=> ReadFin(s.st)) /\ Answered(s.st)
    BY <1>0, <1>5 DEF Emptied, WroteFin, ReadFin, Helloed, Answered
  <2>6. Helloed(p.st) /\ ~s.ccs
    BY <1>1, <1>3, <1>5, <2>4
  <2>5. Sound(mode, "client", Move(s, m, next, stops), p) /\ Onward(s, Move(s, m, next, stops))
    <3> HIDE DEF next, stops
    <3> QED
      BY <1>0, <1>2, <2>1, <2>3, <2>4, <2>6, MoveGoes
  <2> QED
    BY <2>1, <2>5, MoveTaken
<1>6. CASE s.st = "CR_CERT_REQ" /\ mode.cert /\ m.type = "CREQ"
  <2> DEFINE next == "CR_SRVR_DONE"
  <2>1. <<s.st, m.type, next>> \in Moves /\ next \in States /\ next \in StatesOf(mode, "client")
    BY <1>1, <1>6 DEF Moves, States, StatesOf, ClientStates
  <2>2. s.readSeq = k + 2 /\ s.nextSeq = k + 1 /\ s.transcript = Certificate(mode) /\ ~mode.hit
    BY <1>1, <1>6 DEF Numbers, Transcript, ClientStates
  <2>3. ASSUME NEW u, u.st = next, u.transcript = Append(s.transcript, m.type),
               u.readSeq = s.readSeq + 1, u.nextSeq = s.nextSeq, u.sendCookie = s.sendCookie
        PROVE  Numbers(mode, "client", u) /\ Timers(u) /\ Transcript(mode, "client", u)
    BY <1>0, <1>1, <1>6, <2>2, <2>3 DEF Numbers, Timers, Transcript, Request, Grown
  <2>4. /\ next \notin Emptied /\ Helloed(next)
        /\ WroteFin(mode, "client", next) <=> WroteFin(mode, "client", s.st)
        /\ (ReadFin(next) <=> ReadFin(s.st)) /\ Answered(s.st)
    BY <1>0, <1>6 DEF Emptied, WroteFin, ReadFin, Helloed, Answered
  <2>6. Helloed(p.st) /\ ~s.ccs
    BY <1>1, <1>3, <1>6, <2>4
  <2>5. Sound(mode, "client", Move(s, m, next, stops), p) /\ Onward(s, Move(s, m, next, stops))
    <3> HIDE DEF next, stops
    <3> QED
      BY <1>0, <1>2, <2>1, <2>3, <2>4, <2>6, MoveGoes
  <2> QED
    BY <2>1, <2>5, MoveTaken
<1>7. CASE /\ m.type = "SHD"
           /\ s.st = "CR_SRVR_DONE" \/ (s.st = "CR_CERT_REQ" /\ ~mode.cert)
  <2> DEFINE next == "CW_CERT"
  <2>0. ~mode.hit /\ (s.st = "CR_SRVR_DONE" => mode.cert)
    BY <1>1, <1>7 DEF ClientStates
  <2>1. <<s.st, m.type, next>> \in Moves /\ next \in States /\ next \in StatesOf(mode, "client")
    BY <1>7, <2>0 DEF Moves, States, StatesOf, ClientStates
  <2>2. /\ s.readSeq = k + 2 + c /\ s.nextSeq = k + 1 /\ s.transcript = Request(mode)
        /\ c = IF mode.cert THEN 1 ELSE 0
    BY <1>0, <1>1, <1>7, <2>0 DEF Numbers, Transcript, One, Request, Grown
  <2>3. ASSUME NEW u, u.st = next, u.transcript = Append(s.transcript, m.type),
               u.readSeq = s.readSeq + 1, u.nextSeq = s.nextSeq, u.sendCookie = s.sendCookie
        PROVE  Numbers(mode, "client", u) /\ Timers(u) /\ Transcript(mode, "client", u)
    <3>1. s.readSeq + 1 = k + 3 + c
      BY <1>0, <2>2
    <3>2. Numbers(mode, "client", u)
      BY <1>0, <1>1, <2>2, <2>3, <3>1 DEF Numbers
    <3>3. Timers(u) /\ Transcript(mode, "client", u)
      BY <1>7, <2>2, <2>3 DEF Timers, Transcript, HelloDone
    <3> QED
      BY <3>2, <3>3
  <2>4. /\ stops /\ Helloed(next)
        /\ WroteFin(mode, "client", next) <=> WroteFin(mode, "client", s.st)
        /\ (ReadFin(next) <=> ReadFin(s.st)) /\ Answered(s.st)
    BY <1>0, <1>7 DEF WroteFin, ReadFin, Helloed, Answered, StopsTimer
  <2>6. Helloed(p.st) /\ ~s.ccs
    BY <1>1, <1>3, <1>7, <2>4
  <2>5. Sound(mode, "client", Move(s, m, next, stops), p) /\ Onward(s, Move(s, m, next, stops))
    <3> HIDE DEF next, stops
    <3> QED
      BY <1>0, <1>2, <2>1, <2>3, <2>4, <2>6, MoveGoes
  <2> QED
    BY <2>1, <2>5, MoveTaken
<1>8. CASE s.st = "CR_SESSION_TICKET" /\ m.type = "NST"
  <2> DEFINE next == "CR_FINISHED"
  <2>0. ~mode.hit /\ mode.ticket
    BY <1>1, <1>8 DEF ClientStates
  <2>1. <<s.st, m.type, next>> \in Moves /\ next \in States /\ next \in StatesOf(mode, "client")
    BY <1>8 DEF Moves, States, StatesOf, ClientStates
  <2>2. /\ s.readSeq = k + 3 + c /\ s.transcript = ClientFin(mode) /\ s.timer /\ t = 1 /\ c \in Nat
    BY <1>0, <1>1, <1>8, <2>0 DEF Numbers, Transcript, Timers, One
  <2>3. ASSUME NEW u, u.st = next, u.transcript = Append(s.transcript, m.type),
               u.readSeq = s.readSeq + 1, u.nextSeq = s.nextSeq, u.sendCookie = s.sendCookie,
               u.timer = s.timer
        PROVE  Numbers(mode, "client", u) /\ Timers(u) /\ Transcript(mode, "client", u)
    <3>1. u.readSeq = k + 3 + c + t
      BY <1>0, <2>2, <2>3
    <3>2. Numbers(mode, "client", u)
      BY <1>0, <1>1, <2>0, <2>3, <3>1 DEF Numbers
    <3>3. Timers(u) /\ Transcript(mode, "client", u)
      BY <1>8, <2>0, <2>2, <2>3 DEF Timers, Transcript, NewTicket, Grown
    <3> QED
      BY <3>2, <3>3
  <2>4. /\ ~stops /\ Helloed(next) /\ next \notin Emptied
        /\ WroteFin(mode, "client", next) <=> WroteFin(mode, "client", s.st)
        /\ (ReadFin(next) <=> ReadFin(s.st)) /\ Answered(s.st)
    BY <1>0, <1>8 DEF Emptied, WroteFin, ReadFin, Helloed, Answered, StopsTimer
  <2>6. Helloed(p.st) /\ ~s.ccs
    BY <1>1, <1>3, <1>8, <2>4
  <2>5. Sound(mode, "client", Move(s, m, next, stops), p) /\ Onward(s, Move(s, m, next, stops))
    <3> HIDE DEF next, stops
    <3> QED
      BY <1>0, <1>2, <2>1, <2>3, <2>4, <2>6, MoveGoes
  <2> QED
    BY <2>1, <2>5, MoveTaken
<1> QED
  BY <1>0, <1>4, <1>5, <1>6, <1>7, <1>8 DEF Expected

(* The moves of the server.                                                *)
LEMMA ServerMove ==
  ASSUME mode \in ModeSpace, NEW s, NEW p, Sound(mode, "server", s, p),
         s.failed = "no", NEW m \in Records,
         Expected(mode, "server", s, m), m.type \in {"CERT", "CKE"}
  PROVE  Sound(mode, "server", Consume(s, m), p) /\ Onward(s, Consume(s, m))
<1> DEFINE c == One(mode.cert)
           k == Base(mode)
           stops == StopsTimer(s, m)
<1>0. /\ s \in SSL /\ mode.hit \in BOOLEAN /\ mode.cert \in BOOLEAN
      /\ k \in Nat /\ stops \in BOOLEAN /\ "server" \in Endpoints /\ c \in Nat
  BY DEF Sound, Core, ModeSpace, Base, One, StopsTimer, Endpoints
<1>1. /\ Numbers(mode, "server", s) /\ Timers(s) /\ Transcript(mode, "server", s)
      /\ s.st \in ServerStates(mode) /\ Epochs(mode, "server", s)
  BY DEF Sound, Core, Placed, StatesOf
<1>2. /\ s.st \in {"SR_CERT", "SR_KEY_EXCH"} /\ ~Listening(s) /\ ~s.ccs /\ ~stops
      /\ s.st = "SR_CERT" => m.type = "CERT"
      /\ s.st = "SR_KEY_EXCH" => m.type = "CKE"
  BY <1>0, <1>1 DEF Expected, Listening, Epochs, CcsOk, StopsTimer
<1> DEFINE next == IF s.st = "SR_CERT" THEN "SR_KEY_EXCH" ELSE "SR_CERT_VRFY"
<1>3. <<s.st, m.type, next>> \in Moves /\ next \in States /\ next \in StatesOf(mode, "server")
  BY <1>1, <1>2 DEF Moves, States, StatesOf, ServerStates
<1>4. ASSUME NEW u, u.st = next, u.transcript = Append(s.transcript, m.type),
             u.readSeq = s.readSeq + 1, u.nextSeq = s.nextSeq, u.sendCookie = s.sendCookie,
             u.timer = s.timer
      PROVE  Numbers(mode, "server", u) /\ Timers(u) /\ Transcript(mode, "server", u)
  <2>1. s.nextSeq = k + 3 + c /\ ~mode.hit /\ s.timer
    BY <1>1, <1>2 DEF Numbers, ServerStates, Timers
  <2>2. CASE s.st = "SR_CERT"
    <3>1. mode.cert /\ c = 1 /\ s.readSeq = k + 1 /\ s.transcript = HelloDone(mode)
      BY <1>1, <2>2 DEF Numbers, ServerStates, Transcript, One
    <3> QED
      BY <1>0, <1>2, <1>4, <2>1, <2>2, <3>1
      DEF Numbers, Timers, Transcript, ClientCert, Grown
  <2>3. CASE s.st = "SR_KEY_EXCH"
    <3>1. s.readSeq = k + 1 + c /\ s.transcript = ClientCert(mode)
      BY <1>1, <2>3 DEF Numbers, Transcript
    <3> QED
      BY <1>0, <1>2, <1>4, <2>1, <2>3, <3>1 DEF Numbers, Timers, Transcript, KeyExchange
  <2> QED
    BY <1>2, <2>2, <2>3
<1>5. /\ next \notin Emptied /\ Helloed(next)
      /\ WroteFin(mode, "server", next) <=> WroteFin(mode, "server", s.st)
      /\ ReadFin(next) <=> ReadFin(s.st)
  BY <1>2 DEF Emptied, WroteFin, ReadFin, Helloed
<1>6. Sound(mode, "server", Move(s, m, next, stops), p) /\ Onward(s, Move(s, m, next, stops))
  <2> HIDE DEF next, stops
  <2> QED
    BY <1>0, <1>2, <1>3, <1>4, <1>5, MoveGoes
<1> QED
  BY <1>3, <1>6, MoveTaken

(* The ClientHello.                                                        *)
LEMMA ClientHelloSound ==
  ASSUME mode \in ModeSpace, NEW s, NEW p, Sound(mode, "server", s, p), s.failed = "no",
         NEW m \in Records, s.st = "SR_CLNT_HELLO", Expected(mode, "server", s, m)
  PROVE  Sound(mode, "server", Consume(s, m), p) /\ Onward(s, Consume(s, m))
<1> DEFINE t == Taken(s, m)
           v == IF Listening(t) THEN [t EXCEPT !.wseq[0] = m.rseq] ELSE t
           w == StopTimer(v)
           u == GetClientHello(t, m)
<1>0. /\ s \in SSL /\ "server" \in Endpoints /\ mode.cookie \in {"none", "accept", "listen"}
      /\ mode.hit \in BOOLEAN
  BY DEF Sound, Core, Endpoints, ModeSpace
<1>1. /\ m.type \in {"CH", "CHC"} /\ (m.type = "CHC" => mode.cookie # "none")
      /\ m.type = "CH" => s.readSeq = 0
      /\ m.type = "CHC" /\ mode.cookie = "accept" => s.readSeq = 1
  BY DEF Expected
<1>2. Consume(s, m) = u
  <2>1. Consume(s, m) = GetClientHello(Taken(s, m), m)
    <3>1. ~\E mv \in Moves : mv[1] = s.st /\ mv[2] = m.type
      BY DEF Moves
    <3>2. ~CcsOk(s)
      BY DEF CcsOk
    <3> QED
      BY <1>1, <3>1, <3>2 DEF Consume, Taken
  <2> QED
    BY <2>1
<1>3. /\ t \in SSL /\ AllBut(s, t, {"transcript", "readSeq"})
      /\ t.transcript = Append(s.transcript, m.type)
      /\ t.readSeq = IF Listening(s) THEN s.readSeq ELSE s.readSeq + 1
  BY <1>0, TakenIs
<1>4. Listening(s) <=> mode.cookie = "listen"
  BY DEF Listening
<1>5. Numbers(mode, "server", s) /\ Transcript(mode, "server", s) /\ Epochs(mode, "server", s)
  BY DEF Sound, Core, Placed
<1>6. /\ s.nextSeq = s.readSeq /\ s.transcript = <<>> /\ ~s.ccs
      /\ s.nextSeq = 0 \/ (s.nextSeq = 1 /\ mode.cookie = "accept")
  BY <1>5 DEF Numbers, Transcript, Epochs, CcsOk
<1>7. t.transcript = <<m.type>>
  <2>1. m.type \in Types
    BY DEF Records
  <2> QED
    BY <1>3, <1>6, <2>1, TupleIn
<1> HIDE DEF t
<1>8. v \in SSL /\ AllBut(t, v, {"wseq"})
  <2>1. m.rseq \in Nat
    BY DEF Records
  <2>2. CASE Listening(t)
    <3> DEFINE q == [t.wseq EXCEPT ![0] = m.rseq]
    <3>1. q \in [0 .. 1 -> Nat]
      BY <1>3, <2>1 DEF SSL
    <3>2. v = [t EXCEPT !.wseq = q]
      BY <2>2
    <3> HIDE DEF q, v
    <3> QED
      BY <1>3, <3>1, <3>2 DEF SSL, AllBut
  <2>3. CASE ~Listening(t)
    BY <1>3, <2>3 DEF AllBut
  <2> QED
    BY <2>2, <2>3
<1> HIDE DEF v
<1>9. w \in SSL /\ AllBut(v, w, {"timer", "tries", "sent"}) /\ w.sent = <<>>
  BY <1>8, StopTimerIs
<1> HIDE DEF w
<1> DEFINE verify == [w EXCEPT !.st = "SW_HELLO_VERIFY"]
           listen == [w EXCEPT !.st = "SW_SRVR_HELLO", !.readSeq = 2, !.nextSeq = 1]
           answer == [w EXCEPT !.st = "SW_SRVR_HELLO"]
<1>10. u = IF mode.cookie # "none" /\ m.type = "CH" THEN verify
           ELSE IF mode.cookie = "listen" THEN listen ELSE answer
  BY DEF GetClientHello, w, v
<1>11. /\ verify \in SSL /\ AllBut(w, verify, {"st"}) /\ verify.st = "SW_HELLO_VERIFY"
       /\ answer \in SSL /\ AllBut(w, answer, {"st"}) /\ answer.st = "SW_SRVR_HELLO"
       /\ listen \in SSL /\ AllBut(w, listen, {"st", "readSeq", "nextSeq"})
       /\ listen.st = "SW_SRVR_HELLO" /\ listen.readSeq = 2 /\ listen.nextSeq = 1
  <2>1. {"SW_HELLO_VERIFY", "SW_SRVR_HELLO"} \subseteq States
    BY DEF States
  <2> QED
    BY <1>9, <2>1 DEF SSL, AllBut
<1> HIDE DEF u, verify, listen, answer
<1>12. /\ w.readSeq = t.readSeq /\ w.nextSeq = s.nextSeq /\ w.transcript = <<m.type>>
       /\ w.ccs = s.ccs /\ AllBut(s, w, MoveFields)
  BY <1>0, <1>3, <1>7, <1>8, <1>9, FieldsOf DEF AllBut, MoveFields
<1>13. u \in SSL /\ AllBut(w, u, {"st", "readSeq", "nextSeq"})
  BY <1>10, <1>11 DEF AllBut
<1>14. /\ u.sent = <<>> /\ u.transcript = <<m.type>> /\ ~u.ccs /\ AllBut(s, u, MoveFields)
  BY <1>0, <1>6, <1>9, <1>12, <1>13, FieldsOf DEF AllBut, MoveFields
<1>15. CASE mode.cookie # "none" /\ m.type = "CH"
  <2>1. u.st = "SW_HELLO_VERIFY" /\ u.readSeq = t.readSeq /\ u.nextSeq = s.nextSeq
    BY <1>9, <1>10, <1>11, <1>12, <1>15, FieldsOf DEF AllBut
  <2>2. Numbers(mode, "server", u)
    BY <1>0, <1>1, <1>3, <1>4, <1>6, <1>15, <2>1 DEF Numbers, One
  <2>3. Timers(u) /\ Transcript(mode, "server", u)
    BY <2>1 DEF Timers, Transcript
  <2>4. /\ u.st \in StatesOf(mode, "server") /\ u.st \notin {"CW_CERT", "SW_CHANGE"}
        /\ WroteFin(mode, "server", u.st) <=> WroteFin(mode, "server", s.st)
        /\ ReadFin(u.st) <=> s.ccs \/ ReadFin(s.st)
        /\ Helloed(s.st) => Helloed(u.st)
    BY <1>6, <1>15, <2>1 DEF StatesOf, ServerStates, WroteFin, ReadFin, Helloed
  <2> QED
    BY <1>0, <1>2, <1>13, <1>14, <2>2, <2>3, <2>4, MovedSound
<1>16. CASE ~(mode.cookie # "none" /\ m.type = "CH")
  <2>1. u.st = "SW_SRVR_HELLO" /\ u.readSeq = Base(mode) + 1 /\ u.nextSeq = Base(mode)
    <3>1. CASE mode.cookie = "listen"
      BY <1>10, <1>11, <1>16, <3>1 DEF Base, One
    <3>2. CASE mode.cookie # "listen"
      <4>1. u.st = "SW_SRVR_HELLO" /\ u.readSeq = t.readSeq /\ u.nextSeq = s.nextSeq
        BY <1>9, <1>10, <1>11, <1>12, <1>16, <3>2, FieldsOf DEF AllBut
      <4> QED
        BY <1>0, <1>1, <1>3, <1>4, <1>6, <1>16, <3>2, <4>1 DEF Base, One
    <3> QED
      BY <3>1, <3>2
  <2>2. Numbers(mode, "server", u)
    BY <2>1 DEF Numbers
  <2>3. Timers(u) /\ Transcript(mode, "server", u)
    BY <1>1, <1>14, <1>16, <2>1 DEF Timers, Transcript, Hello
  <2>4. /\ u.st \in StatesOf(mode, "server") /\ u.st \notin {"CW_CERT", "SW_CHANGE"}
        /\ WroteFin(mode, "server", u.st) <=> WroteFin(mode, "server", s.st)
        /\ ReadFin(u.st) <=> s.ccs \/ ReadFin(s.st)
        /\ Helloed(s.st) => Helloed(u.st)
    BY <1>6, <2>1 DEF StatesOf, ServerStates, WroteFin, ReadFin, Helloed
  <2> QED
    BY <1>0, <1>2, <1>13, <1>14, <2>2, <2>3, <2>4, MovedSound
<1> QED
  BY <1>15, <1>16

(* The HelloVerifyRequest.                                                 *)
LEMMA HelloVerifySound ==
  ASSUME mode \in ModeSpace, NEW s, NEW p, Sound(mode, "client", s, p), s.failed = "no",
         NEW m \in Records, m.type = "HVR", Expected(mode, "client", s, m)
  PROVE  Sound(mode, "client", Consume(s, m), p) /\ Onward(s, Consume(s, m))
<1> DEFINE t == Taken(s, m)
           w == StopTimer(t)
           u == [w EXCEPT !.st = "CW_CLNT_HELLO", !.sendCookie = TRUE]
<1>0. s \in SSL /\ "client" \in Endpoints
  BY DEF Sound, Core, Endpoints
<1>1. s.st = "CR_SRVR_HELLO" /\ ~s.sendCookie /\ mode.cookie # "none"
  BY DEF Expected
<1>2. Consume(s, m) = u
  <2>1. Consume(s, m) = [StopTimer(Taken(s, m)) EXCEPT !.st = "CW_CLNT_HELLO", !.sendCookie = TRUE]
    <3>1. ~\E mv \in Moves : mv[1] = s.st /\ mv[2] = m.type
      BY <1>1 DEF Moves
    <3>2. ~CcsOk(s)
      BY <1>1 DEF CcsOk
    <3> QED
      BY <1>1, <3>1, <3>2 DEF Consume, Taken
  <2> QED
    BY <2>1
<1>3. /\ t \in SSL /\ AllBut(s, t, {"transcript", "readSeq"})
      /\ t.readSeq = IF Listening(s) THEN s.readSeq ELSE s.readSeq + 1
  BY <1>0, TakenIs
<1>4. /\ s.readSeq = 0 /\ s.nextSeq = 1 /\ ~s.ccs /\ ~Listening(s)
  <2>1. Numbers(mode, "client", s) /\ Epochs(mode, "client", s)
    BY DEF Sound, Core, Placed
  <2> QED
    BY <1>1, <2>1 DEF Numbers, Epochs, CcsOk, Listening, One
<1> HIDE DEF t
<1>5. w \in SSL /\ AllBut(t, w, {"timer", "tries", "sent"}) /\ w.sent = <<>>
  BY <1>3, StopTimerIs
<1> HIDE DEF w
<1>6. /\ u \in SSL /\ AllBut(w, u, {"st", "sendCookie"})
      /\ u.st = "CW_CLNT_HELLO" /\ u.sendCookie
  <2>1. "CW_CLNT_HELLO" \in States
    BY DEF States
  <2> QED
    BY <1>5, <2>1 DEF SSL, AllBut
<1> HIDE DEF u
<1>7. /\ u.readSeq = 1 /\ u.nextSeq = 1 /\ ~u.ccs /\ u.sent = <<>> /\ AllBut(s, u, MoveFields)
  BY <1>0, <1>3, <1>4, <1>5, <1>6, FieldsOf DEF AllBut, MoveFields
<1>8. /\ Numbers(mode, "client", u) /\ Timers(u) /\ Transcript(mode, "client", u)
  BY <1>1, <1>6, <1>7 DEF Numbers, Timers, Transcript, One
<1>9. /\ u.st \in StatesOf(mode, "client") /\ u.st \notin {"CW_CERT", "SW_CHANGE"}
      /\ WroteFin(mode, "client", u.st) <=> WroteFin(mode, "client", s.st)
      /\ ReadFin(u.st) <=> s.ccs \/ ReadFin(s.st)
      /\ Helloed(u.st) /\ ~Answered(u.st)
  BY <1>1, <1>4, <1>6 DEF StatesOf, ClientStates, WroteFin, ReadFin, Helloed, Answered
<1> QED
  BY <1>0, <1>2, <1>6, <1>7, <1>8, <1>9, MovedSound

(* The Finished: it comes under the new keys, hence after the CCS, and its *)
(* digest is that of the transcript.                                       *)
LEMMA FinishedSound ==
  ASSUME mode \in ModeSpace, NEW e \in Endpoints, NEW s, NEW p, Sound(mode, e, s, p),
         s.failed = "no", NEW m \in Records, m.type = "FIN", Expected(mode, e, s, m),
         m.digest = FinDigest(mode, Peer(e)), s.readEpoch = 1
  PROVE  Sound(mode, e, Consume(s, m), p) /\ Onward(s, Consume(s, m))
<1> DEFINE t == Taken(s, m)
           v == [t EXCEPT !.ccs = FALSE]
           w == StopTimer(v)
           next == IF s.st = "CR_FINISHED" THEN IF mode.hit THEN "CW_CHANGE" ELSE "OK"
                                           ELSE IF mode.hit THEN "OK" ELSE "SW_CHANGE"
           u == ToState(w, next)
<1>0. /\ s \in SSL /\ mode.hit \in BOOLEAN /\ mode.cert \in BOOLEAN /\ mode.ticket \in BOOLEAN
      /\ s.ccs \in BOOLEAN
  BY DEF Sound, Core, ModeSpace, SSL
<1>1. /\ Numbers(mode, e, s) /\ Transcript(mode, e, s) /\ Epochs(mode, e, s)
      /\ s.ccs => s.peerFin = s.transcript
      /\ s.st \in StatesOf(mode, e)
  BY DEF Sound, Core, Placed
<1>2. /\ e = "client" => s.st = "CR_FINISHED" /\ ~(mode.hit /\ mode.ticket)
      /\ e = "server" => \/ s.st = "SR_CERT_VRFY" /\ ~mode.cert
                         \/ s.st = "SR_FINISHED"
      /\ s.st \in {"CR_FINISHED", "SR_CERT_VRFY", "SR_FINISHED"}
      /\ s.st \in {"SR_CERT_VRFY", "SR_FINISHED"} => e = "server"
      /\ ~(s.st = "SR_CERT_VRFY" /\ mode.cert)
  BY <1>0 DEF Expected, Endpoints
<1>3. s.ccs
  BY <1>0, <1>1, <1>2 DEF Epochs, ReadFin
<1>4. m.digest = s.transcript
  <2>1. CASE s.st = "CR_FINISHED"
    <3>1. e = "client" /\ ~(mode.hit /\ mode.ticket)
      BY <1>2, <2>1 DEF Endpoints
    <3> QED
      BY <1>0, <1>1, <2>1, <3>1 DEF FinDigest, Peer, Transcript, HitTicket, Grown
  <2>2. CASE s.st = "SR_CERT_VRFY"
    <3>1. e = "server" /\ ~mode.cert /\ ~mode.hit
      BY <1>1, <1>2, <2>2 DEF StatesOf, ServerStates, Endpoints
    <3> QED
      BY <1>0, <1>1, <2>2, <3>1 DEF FinDigest, Peer, Transcript, Verified, Grown
  <2>3. CASE s.st = "SR_FINISHED"
    <3>1. e = "server"
      BY <1>2, <2>3
    <3> QED
      BY <1>0, <1>1, <2>3, <3>1 DEF FinDigest, Peer, Transcript
  <2> QED
    BY <1>2, <2>1, <2>2, <2>3
<1>5. /\ t \in SSL /\ AllBut(s, t, {"transcript", "readSeq"})
      /\ t.transcript = Append(s.transcript, "FIN")
      /\ t.readSeq = IF Listening(s) THEN s.readSeq ELSE s.readSeq + 1
  BY <1>0, TakenIs
<1>6. Consume(s, m) = Finish(t, m)
  <2>1. ~\E mv \in Moves : mv[1] = s.st /\ mv[2] = m.type
    BY <1>2 DEF Moves
  <2>2. CcsOk(s) /\ s.st \notin {"SR_CLNT_HELLO", "CR_SRVR_HELLO"}
    BY <1>2 DEF CcsOk
  <2> QED
    BY <1>2, <2>1, <2>2 DEF Consume, Taken
<1> HIDE DEF t
<1>7. t.ccs /\ t.peerFin = m.digest /\ t.st = s.st
  BY <1>0, <1>1, <1>3, <1>4, <1>5, FieldsOf DEF AllBut
<1>8. Finish(t, m) = u
  BY <1>2, <1>7 DEF Finish
<1>9. v \in SSL /\ AllBut(t, v, {"ccs"}) /\ ~v.ccs
  BY <1>5 DEF SSL, AllBut
<1> HIDE DEF v
<1>10. w \in SSL /\ AllBut(v, w, {"timer", "tries", "sent"}) /\ w.sent = <<>>
  BY <1>9, StopTimerIs
<1> HIDE DEF w
<1>11. /\ u \in SSL /\ AllBut(w, u, {"st", "readSeq", "nextSeq"}) /\ u.st = next
       /\ u.nextSeq = IF next = "OK" THEN 0 ELSE w.nextSeq
  <2>1. next \in States
    BY DEF States
  <2> HIDE DEF next
  <2> QED
    BY <1>10, <2>1, ToStateIs
<1> HIDE DEF u
<1>12. /\ AllBut(s, u, MoveFields) /\ u.sent = <<>> /\ ~u.ccs
       /\ u.transcript = Append(s.transcript, "FIN")
       /\ w.nextSeq = s.nextSeq /\ u.sendCookie = s.sendCookie
  BY <1>0, <1>5, <1>9, <1>10, <1>11, FieldsOf DEF AllBut, MoveFields
<1>13. Transcript(mode, e, u)
  <2>1. CASE s.st = "CR_FINISHED"
    <3>1. e = "client" /\ ~(mode.hit /\ mode.ticket)
      BY <1>2, <2>1 DEF Endpoints
    <3> QED
      BY <1>0, <1>1, <1>11, <1>12, <2>1, <3>1
      DEF Transcript, HitTicket, HitServerFin, ServerFin, Everything, Grown
  <2>2. CASE s.st = "SR_CERT_VRFY"
    <3>1. e = "server" /\ ~mode.cert /\ ~mode.hit
      BY <1>1, <1>2, <2>2 DEF StatesOf, ServerStates, Endpoints
    <3> QED
      BY <1>0, <1>1, <1>11, <1>12, <2>2, <3>1 DEF Transcript, ClientFin, Verified, Grown
  <2>3. CASE s.st = "SR_FINISHED"
    <3>1. e = "server"
      BY <1>2, <2>3
    <3> QED
      BY <1>0, <1>1, <1>11, <1>12, <2>3, <3>1
      DEF Transcript, ClientFin, HitClientFin, Everything
  <2> QED
    BY <1>2, <2>1, <2>2, <2>3
<1>14. Numbers(mode, e, u)
  <2>1. CASE e = "client"
    <3>1. s.sendCookie => mode.cookie # "none"
      BY <1>1, <2>1 DEF Numbers
    <3>2. mode.hit => s.nextSeq = Base(mode) + 1
      BY <1>1, <1>2, <2>1 DEF Numbers
    <3> QED
      BY <1>0, <1>2, <1>11, <1>12, <2>1, <3>1, <3>2 DEF Numbers
  <2>2. CASE e = "server"
    <3>1. ~mode.hit => s.nextSeq = Base(mode) + 3 + One(mode.cert)
      BY <1>1, <1>2, <2>2 DEF Numbers
    <3>2. u.st \in {"OK", "SW_CHANGE"} /\ (u.st = "SW_CHANGE" => ~mode.hit /\ u.nextSeq = s.nextSeq)
      BY <1>0, <1>2, <1>11, <1>12, <2>2
    <3> QED
      BY <2>2, <3>1, <3>2 DEF Numbers
  <2> QED
    BY <2>1, <2>2 DEF Endpoints
<1>15. Timers(u)
  BY <1>11 DEF Timers
<1>16. /\ u.st \in StatesOf(mode, e)
       /\ WroteFin(mode, e, u.st) <=> WroteFin(mode, e, s.st)
       /\ ReadFin(u.st) <=> s.ccs \/ ReadFin(s.st)
       /\ Helloed(u.st)
       /\ e = "client" => Helloed(p.st)
  <2>1. CASE e = "client"
    <3>1. Helloed(p.st)
      BY <1>2, <2>1 DEF Sound, Core, Peers, Answered
    <3> QED
      BY <1>0, <1>2, <1>3, <1>11, <2>1, <3>1
      DEF StatesOf, ClientStates, WroteFin, ReadFin, Helloed
  <2>2. CASE e = "server"
    <3>1. s.st = "SR_FINISHED" \/ ~mode.hit
      BY <1>1, <1>2, <2>2 DEF StatesOf, ServerStates
    <3> QED
      BY <1>0, <1>2, <1>3, <1>11, <2>2, <3>1
      DEF StatesOf, ServerStates, WroteFin, ReadFin, Helloed
  <2> QED
    BY <2>1, <2>2 DEF Endpoints
<1>17. Sound(mode, e, u, p) /\ Onward(s, u)
  BY <1>11, <1>12, <1>13, <1>14, <1>15, <1>16, MovedSound
<1> QED
  BY <1>6, <1>8, <1>17

(* The CertificateVerify, unless the CCS has overtaken it.                 *)
LEMMA CertVerifySound ==
  ASSUME mode \in ModeSpace, NEW s, NEW p, Sound(mode, "server", s, p), s.failed = "no",
         NEW m \in Records, s.st = "SR_CERT_VRFY", m.type = "CVFY", mode.cert
  PROVE  Sound(mode, "server", Consume(s, m), p) /\ Onward(s, Consume(s, m))
<1>0. s \in SSL /\ "server" \in Endpoints
  BY DEF Sound, Core, Endpoints
<1>1. Consume(s, m) = IF s.ccs THEN Fail(Taken(s, m), "CCS_RECEIVED_EARLY")
                               ELSE Move(s, m, "SR_FINISHED", FALSE)
  <2>1. ~\E mv \in Moves : mv[1] = s.st /\ mv[2] = m.type
    BY DEF Moves
  <2>2. Consume(s, m) = IF s.ccs THEN Fail(Taken(s, m), "CCS_RECEIVED_EARLY")
                                 ELSE [Taken(s, m) EXCEPT !.st = "SR_FINISHED"]
    BY <2>1 DEF Consume, Taken
  <2> QED
    BY <2>2 DEF Move
<1>2. CASE s.ccs
  <2>1. Core(mode, "server", Taken(s, m), p) /\ Onward(s, Taken(s, m))
    BY TakenSound
  <2>2. Taken(s, m).st # "OK"
    BY <1>0, TakenIs, FieldsOf DEF AllBut
  <2>3. ~Plain(mode) /\ "CCS_RECEIVED_EARLY" \in Reasons \ {"no"}
    BY DEF Plain, Reasons
  <2>4. LET u == Fail(Taken(s, m), "CCS_RECEIVED_EARLY")
        IN Sound(mode, "server", u, p) /\ Onward(Taken(s, m), u)
    BY <2>1, <2>2, <2>3, FailSound
  <2> QED
    BY <1>1, <1>2, <2>1, <2>4 DEF Onward
<1>3. CASE ~s.ccs
  <2>1. /\ Numbers(mode, "server", s) /\ Timers(s) /\ Transcript(mode, "server", s)
        /\ s.st \in ServerStates(mode)
    BY DEF Sound, Core, Placed, StatesOf
  <2>2. ~mode.hit
    BY <2>1 DEF ServerStates
  <2>3. /\ s.readSeq = Base(mode) + 3 /\ s.nextSeq = Base(mode) + 4 /\ s.timer
        /\ s.transcript = KeyExchange(mode) /\ Base(mode) \in Nat
    BY <2>1, <2>2 DEF Numbers, Timers, Transcript, One, Base
  <2>4. ASSUME NEW u, u.st = "SR_FINISHED", u.transcript = Append(s.transcript, m.type),
               u.readSeq = s.readSeq + 1, u.nextSeq = s.nextSeq, u.sendCookie = s.sendCookie,
               u.timer = s.timer
        PROVE  Numbers(mode, "server", u) /\ Timers(u) /\ Transcript(mode, "server", u)
    <3>1. Numbers(mode, "server", u)
      BY <2>2, <2>3, <2>4 DEF Numbers, One
    <3>2. Timers(u) /\ Transcript(mode, "server", u)
      BY <2>2, <2>3, <2>4 DEF Timers, Transcript, Verified, Grown
    <3> QED
      BY <3>1, <3>2
  <2>5. /\ "SR_FINISHED" \in States /\ "SR_FINISHED" \in StatesOf(mode, "server")
        /\ WroteFin(mode, "server", "SR_FINISHED") <=> WroteFin(mode, "server", s.st)
        /\ ReadFin("SR_FINISHED") <=> ReadFin(s.st)
        /\ Helloed("SR_FINISHED") /\ ~Listening(s)
    BY <2>2 DEF States, StatesOf, ServerStates, WroteFin, ReadFin, Helloed, Listening
  <2>6. LET u == Move(s, m, "SR_FINISHED", FALSE)
        IN Sound(mode, "server", u, p) /\ Onward(s, u)
    BY <1>0, <1>3, <2>4, <2>5, MoveGoes DEF Emptied
  <2> QED
    BY <1>1, <1>3, <2>6
<1> QED
  BY <1>2, <1>3

(* A ticket that a resuming client does not take.                          *)
LEMMA TicketRefused ==
  ASSUME mode \in ModeSpace, NEW s, NEW p, Sound(mode, "client", s, p), s.failed = "no",
         NEW m \in Records, s.st = "CR_FINISHED", m.type = "NST", mode.hit
  PROVE  Sound(mode, "client", Consume(s, m), p) /\ Onward(s, Consume(s, m))
<1>0. s \in SSL
  BY DEF Sound, Core
<1>1. Consume(s, m) = Fail(Taken(s, m), "UNEXPECTED_MESSAGE")
  <2>1. ~\E mv \in Moves : mv[1] = s.st /\ mv[2] = m.type
    BY DEF Moves
  <2> QED
    BY <2>1 DEF Consume, Taken
<1>2. Core(mode, "client", Taken(s, m), p) /\ Onward(s, Taken(s, m))
  BY TakenSound
<1>3. Taken(s, m).st # "OK"
  BY <1>0, TakenIs, FieldsOf DEF AllBut
<1>4. ~Plain(mode) /\ "UNEXPECTED_MESSAGE" \in Reasons \ {"no"}
  BY DEF Plain, Reasons
<1>5. LET u == Fail(Taken(s, m), "UNEXPECTED_MESSAGE")
      IN Sound(mode, "client", u, p) /\ Onward(Taken(s, m), u)
  BY <1>2, <1>3, <1>4, FailSound
<1> QED
  BY <1>1, <1>2, <1>5 DEF Onward

(* dtls1_get_message has the message that is next.                         *)
LEMMA ConsumeSound ==
  ASSUME mode \in ModeSpace, NEW e \in Endpoints, NEW s, NEW p, Sound(mode, e, s, p),
         s.failed = "no", InInit(s), ~Writing(s), NEW m \in Records,
         Arrives(mode, Peer(e), p, m), IsHandshake(m), IsNext(s, m),
         m.epoch = 1 => s.readEpoch = 1
  PROVE  Sound(mode, e, Consume(s, m), p) /\ Onward(s, Consume(s, m))
<1>1. Expected(mode, e, s, m)
  BY NextIsExpected DEF Arrives
<1>2. m.type = "FIN" => m.digest = FinDigest(mode, Peer(e)) /\ s.readEpoch = 1
  BY DEF Arrives, Good
<1>3. CASE m.type = "FIN"
  BY <1>1, <1>2, <1>3, FinishedSound
<1>4. CASE e = "client" /\ m.type # "FIN"
  <2>1. CASE m.type = "HVR"
    BY <1>1, <1>4, <2>1, HelloVerifySound
  <2>2. CASE s.st = "CR_FINISHED" /\ m.type = "NST"
    <3>1. mode.hit
      BY <1>1, <1>4, <2>2 DEF Expected
    <3> QED
      BY <1>4, <2>2, <3>1, TicketRefused
  <2>3. CASE m.type # "HVR" /\ ~(s.st = "CR_FINISHED" /\ m.type = "NST")
    BY <1>1, <1>4, <2>3, ClientMove DEF Peer
  <2> QED
    BY <2>1, <2>2, <2>3
<1>5. CASE e = "server" /\ m.type # "FIN"
  <2>1. CASE s.st = "SR_CLNT_HELLO"
    BY <1>1, <1>5, <2>1, ClientHelloSound
  <2>2. CASE m.type \in {"CERT", "CKE"}
    BY <1>1, <1>5, <2>2, ServerMove
  <2>3. CASE s.st # "SR_CLNT_HELLO" /\ m.type \notin {"CERT", "CKE"}
    <3>1. s.st = "SR_CERT_VRFY" /\ m.type = "CVFY" /\ mode.cert
      BY <1>1, <1>5, <2>3 DEF Expected
    <3> QED
      BY <1>5, <3>1, CertVerifySound
  <2> QED
    BY <2>1, <2>2, <2>3
<1> QED
  BY <1>3, <1>4, <1>5 DEF Endpoints

------------------------------------------------------------------------------
(* Records.                                                                *)

(* The replay window: what was seen stays seen.                            *)
LEMMA Marked ==
  ASSUME NEW b \in Bitmaps, NEW n \in Nat
  PROVE  /\ Mark(b, n) \in Bitmaps /\ ~Unseen(Mark(b, n), n)
         /\ \A k \in Nat : ~Unseen(b, k) => ~Unseen(Mark(b, n), k)
<1>1. b.max \in Nat /\ b.map \in SUBSET Nat /\ Window \in Nat /\ Window > 0
  BY DtlsAssumption DEF Bitmaps
<1>2. CASE n > b.max
  <2> DEFINE w == {k \in b.map : n - k < Window} \cup {n}
  <2>1. Mark(b, n) = [max |-> n, map |-> w] /\ w \in SUBSET Nat
    BY <1>1, <1>2 DEF Mark
  <2>2. \A k \in Nat : k \in b.map /\ n - k < Window => k \in w
    OBVIOUS
  <2>3. n \in w
    OBVIOUS
  <2> HIDE DEF w
  <2>4. Mark(b, n).max = n /\ Mark(b, n).map = w /\ Mark(b, n) \in Bitmaps
    BY <2>1 DEF Bitmaps
  <2>5. ASSUME NEW k \in Nat, ~Unseen(b, k)
        PROVE  ~Unseen(Mark(b, n), k)
    <3>1. k <= b.max /\ (b.max - k < Window => k \in b.map)
      BY <1>1, <2>5 DEF Unseen
    <3>2. k <= n /\ (n - k < Window => k \in w)
      BY <1>1, <1>2, <2>2, <3>1
    <3> QED
      BY <1>1, <2>4, <3>2 DEF Unseen
  <2>6. ~Unseen(Mark(b, n), n)
    BY <2>3, <2>4 DEF Unseen
  <2> QED
    BY <2>4, <2>5, <2>6
<1>3. CASE n <= b.max /\ b.max - n < Window
  <2> DEFINE w == b.map \cup {n}
  <2>1. Mark(b, n) = [b EXCEPT !.map = w] /\ w \in SUBSET Nat /\ n \in w /\ b.map \subseteq w
    BY <1>1, <1>3 DEF Mark
  <2> HIDE DEF w
  <2>2. Mark(b, n).max = b.max /\ Mark(b, n).map = w /\ Mark(b, n) \in Bitmaps
    BY <2>1 DEF Bitmaps
  <2> QED
    BY <1>1, <1>3, <2>1, <2>2 DEF Unseen
<1>4. CASE n <= b.max /\ ~(b.max - n < Window)
  <2>1. Mark(b, n) = b
    BY <1>1, <1>4 DEF Mark
  <2> QED
    BY <1>1, <1>4, <2>1 DEF Unseen
<1> QED
  BY <1>1, <1>2, <1>3, <1>4

(* The fields that are not about records.                                  *)
LEMMA Retyped ==
  ASSUME NEW s \in SSL
  PROVE  /\ \A b \in Bitmaps : /\ [s EXCEPT !.bitmap = b] \in SSL
                               /\ AllBut(s, [s EXCEPT !.bitmap = b], {"bitmap"})
                               /\ [s EXCEPT !.bitmap = b].bitmap = b
         /\ \A q \in SUBSET Records : 
              /\ [s EXCEPT !.buffered = q] \in SSL
              /\ AllBut(s, [s EXCEPT !.buffered = q], {"buffered"})
              /\ [s EXCEPT !.buffered = q].buffered = q
              /\ [s EXCEPT !.unprocessed = q] \in SSL
              /\ AllBut(s, [s EXCEPT !.unprocessed = q], {"unprocessed"})
              /\ [s EXCEPT !.unprocessed = q].unprocessed = q
              /\ [s EXCEPT !.appQueue = q] \in SSL
              /\ AllBut(s, [s EXCEPT !.appQueue = q], {"appQueue"})
              /\ [s EXCEPT !.appQueue = q].appQueue = q
         /\ \A f \in Reasons : /\ [s EXCEPT !.failed = f] \in SSL
                               /\ AllBut(s, [s EXCEPT !.failed = f], {"failed"})
                               /\ [s EXCEPT !.failed = f].failed = f
         /\ \A r \in Seq(Nat) : /\ [s EXCEPT !.read = r] \in SSL
                                /\ AllBut(s, [s EXCEPT !.read = r], {"read"})
                                /\ [s EXCEPT !.read = r].read = r
<1>1. \A b \in Bitmaps : /\ [s EXCEPT !.bitmap = b] \in SSL
                         /\ AllBut(s, [s EXCEPT !.bitmap = b], {"bitmap"})
                         /\ [s EXCEPT !.bitmap = b].bitmap = b
  BY DEF SSL, AllBut
<1>2. \A q \in SUBSET Records : /\ [s EXCEPT !.buffered = q] \in SSL
                                /\ AllBut(s, [s EXCEPT !.buffered = q], {"buffered"})
                                /\ [s EXCEPT !.buffered = q].buffered = q
  BY DEF SSL, AllBut
<1>3. \A q \in SUBSET Records : /\ [s EXCEPT !.unprocessed = q] \in SSL
                                /\ AllBut(s, [s EXCEPT !.unprocessed = q], {"unprocessed"})
                                /\ [s EXCEPT !.unprocessed = q].unprocessed = q
  BY DEF SSL, AllBut
<1>4. \A q \in SUBSET Records : /\ [s EXCEPT !.appQueue = q] \in SSL
                                /\ AllBut(s, [s EXCEPT !.appQueue = q], {"appQueue"})
                                /\ [s EXCEPT !.appQueue = q].appQueue = q
  BY DEF SSL, AllBut
<1>5. \A f \in Reasons : /\ [s EXCEPT !.failed = f] \in SSL
                         /\ AllBut(s, [s EXCEPT !.failed = f], {"failed"})
                         /\ [s EXCEPT !.failed = f].failed = f
  BY DEF SSL, AllBut
<1>6. \A r \in Seq(Nat) : /\ [s EXCEPT !.read = r] \in SSL
                          /\ AllBut(s, [s EXCEPT !.read = r], {"read"})
                          /\ [s EXCEPT !.read = r].read = r
  BY DEF SSL, AllBut
<1> QED
  BY <1>1, <1>2, <1>3, <1>4, <1>5, <1>6

(* The fields that say what has been received.                             *)
Inbox == {"buffered", "bitmap", "nextBitmap", "unprocessed", "appQueue", "read"}

(* They are of interest to the replay window and to the peer only.         *)
LEMMA InboxFrame ==
  ASSUME NEW md, NEW e, NEW s, NEW p, Sound(md, e, s, p), NEW t \in SSL, AllBut(s, t, Inbox),
         ReadOnce(t), Peers(md, e, t, p)
  PROVE  Sound(md, e, t, p) /\ Onward(s, t)
<1>0. s \in SSL
  BY DEF Sound, Core
<1>1. PlaceSame(s, t)
  BY <1>0, FieldsOf DEF AllBut, Inbox, PlaceSame
<1>2. Placed(md, e, t)
  BY <1>1, PlaceFrame DEF Sound
<1>3. /\ t.st = s.st /\ t.failed = s.failed /\ t.writeEpoch = s.writeEpoch /\ t.sent = s.sent
      /\ t.readEpoch = s.readEpoch /\ t.ccs = s.ccs /\ t.wbio = s.wbio
  BY <1>0, FieldsOf DEF AllBut, Inbox
<1>4. Epochs(md, e, t)
  BY <1>3 DEF Sound, Core, Epochs, CcsOk
<1>5. SentOk(md, e, t)
  BY <1>3 DEF Sound, Core, SentOk
<1>6. Blameless(md, t)
  BY <1>3 DEF Sound, Core, Blameless
<1>7. Writes(md, e, t)
  BY <1>3 DEF Sound, Core, Writes, Arrives, Reached
<1> QED
  BY <1>2, <1>3, <1>4, <1>5, <1>6, <1>7 DEF Sound, Core, Onward

(* A handshake message, now or early.                                      *)
LEMMA FragmentSound ==
  ASSUME mode \in ModeSpace, NEW e \in Endpoints, NEW s, NEW p, Sound(mode, e, s, p),
         s.failed = "no", InInit(s), ~Writing(s), NEW m \in Records,
         Arrives(mode, Peer(e), p, m), IsHandshake(m), m.epoch = 1 => s.readEpoch = 1
  PROVE  Sound(mode, e, GetFragment(s, m), p) /\ Onward(s, GetFragment(s, m))
<1> DEFINE q == s.buffered \cup {m}
           t == [s EXCEPT !.buffered = q]
<1>0. s \in SSL /\ q \in SUBSET Records
  BY DEF Sound, Core, SSL
<1>2. CASE IsNext(s, m)
  <2>1. GetFragment(s, m) = Consume(s, m)
    BY <1>2 DEF GetFragment, IsNext
  <2> QED
    BY <1>2, <2>1, ConsumeSound
<1>3. CASE ~IsNext(s, m)
  <2>1. GetFragment(s, m) \in {s, t}
    BY <1>3 DEF GetFragment, OutOfSeq, IsNext
  <2> HIDE DEF q
  <2>2. t \in SSL /\ AllBut(s, t, {"buffered"}) /\ t.buffered = q
    BY <1>0, Retyped
  <2> HIDE DEF t
  <2>3. AllBut(s, t, Inbox)
    BY <2>2 DEF AllBut, Inbox
  <2>4. ReadOnce(t)
    <3>1. /\ t.read = s.read /\ t.bitmap = s.bitmap /\ t.appQueue = s.appQueue
          /\ t.readEpoch = s.readEpoch
      BY <1>0, <2>2, FieldsOf DEF AllBut
    <3> QED
      BY <3>1 DEF Sound, Core, ReadOnce
  <2>5. Peers(mode, e, t, p)
    <3>1. t.unprocessed = s.unprocessed /\ t.readEpoch = s.readEpoch /\ t.st = s.st
      BY <1>0, <2>2, FieldsOf DEF AllBut
    <3> QED
      BY <2>2, <3>1 DEF Sound, Core, Peers, q
  <2>6. Sound(mode, e, t, p) /\ Onward(s, t)
    BY <2>2, <2>3, <2>4, <2>5, InboxFrame
  <2>7. Onward(s, s)
    BY DEF Onward
  <2> QED
    BY <2>1, <2>6, <2>7
<1> QED
  BY <1>2, <1>3

(* ChangeCipherSpec.                                                       *)
LEMMA CcsSound ==
  ASSUME mode \in ModeSpace, NEW e \in Endpoints, NEW s, NEW p, Sound(mode, e, s, p),
         s.failed = "no", InInit(s), p.writeEpoch = 1, s.readEpoch = 0,
         Plain(mode) => CipherChosen(s)
  PROVE  Sound(mode, e, ReadCcs(s), p) /\ Onward(s, ReadCcs(s))
<1>0. s \in SSL
  BY DEF Sound, Core
<1>1. CASE ~CipherChosen(s)
  <2>1. ReadCcs(s) = Fail(s, "CCS_RECEIVED_EARLY")
    BY <1>1 DEF ReadCcs
  <2>2. "CCS_RECEIVED_EARLY" \in Reasons \ {"no"} /\ s.st # "OK" /\ ~Plain(mode)
    BY <1>1 DEF Reasons, InInit
  <2> QED
    BY <2>1, <2>2, FailSound DEF Sound
<1>2. CASE CipherChosen(s) /\ ~CcsOk(s)
  <2>1. ReadCcs(s) = s
    BY <1>2 DEF ReadCcs
  <2> QED
    BY <2>1 DEF Onward
<1>3. CASE CipherChosen(s) /\ CcsOk(s)
  <2> DEFINE t == ReadCcs(s)
             tr == s.transcript
             bm == s.nextBitmap
             nr == NoRecords
             one == 1
             yes == TRUE
  <2>1. t = [s EXCEPT !.ccs = yes, !.readEpoch = one, !.peerFin = tr, !.bitmap = bm,
                      !.nextBitmap = nr]
    BY <1>0, <1>3 DEF ReadCcs, SSL
  <2>2. /\ nr \in Bitmaps /\ tr \in Seq(Types) /\ bm \in Bitmaps /\ one \in 0 .. 1
        /\ yes \in BOOLEAN /\ yes = TRUE /\ one = 1 /\ tr = s.transcript
    BY <1>0 DEF NoRecords, Bitmaps, SSL
  <2> HIDE DEF t, tr, bm, nr, one, yes
  <2>3. /\ t \in SSL
        /\ AllBut(s, t, {"ccs", "readEpoch", "peerFin", "bitmap", "nextBitmap"})
        /\ t.ccs = TRUE /\ t.readEpoch = 1 /\ t.peerFin = s.transcript
    <3>1. t \in SSL
      BY <1>0, <2>1, <2>2 DEF SSL
    <3>2. AllBut(s, t, {"ccs", "readEpoch", "peerFin", "bitmap", "nextBitmap"})
      BY <1>0, <2>1 DEF SSL, AllBut
    <3>3. t.ccs = yes /\ t.readEpoch = one /\ t.peerFin = tr
      BY <1>0, <2>1 DEF SSL
    <3> QED
      BY <2>2, <3>1, <3>2, <3>3
  <2>4. /\ t.st = s.st /\ t.failed = "no" /\ t.writeEpoch = s.writeEpoch /\ t.sent = s.sent
        /\ t.wbio = s.wbio /\ t.read = s.read /\ t.appQueue = s.appQueue
        /\ t.buffered = s.buffered /\ t.unprocessed = s.unprocessed
        /\ t.transcript = s.transcript /\ t.readSeq = s.readSeq /\ t.nextSeq = s.nextSeq
        /\ t.sendCookie = s.sendCookie /\ t.timer = s.timer
    BY <1>0, <2>3, FieldsOf DEF AllBut
  <2>5. Epochs(mode, e, t)
    BY <1>3, <2>3, <2>4 DEF Sound, Core, Epochs, CcsOk
  <2>6. SentOk(mode, e, t)
    BY <2>4 DEF Sound, Core, SentOk
  <2>7. ReadOnce(t)
    <3>1. s.read = <<>> /\ s.appQueue = {}
      BY DEF Sound, Core, ReadOnce
    <3>2. DOMAIN <<>> = {}
      OBVIOUS
    <3> QED
      BY <2>3, <2>4, <3>1, <3>2 DEF ReadOnce
  <2>8. Peers(mode, e, t, p)
    BY <2>3, <2>4 DEF Sound, Core, Peers
  <2>9. Writes(mode, e, t) /\ Blameless(mode, t)
    BY <2>4 DEF Sound, Core, Writes, Arrives, Reached, Blameless
  <2>10. Numbers(mode, e, t) /\ Timers(t) /\ Transcript(mode, e, t)
    <3>1. Numbers(mode, e, s) /\ Timers(s) /\ Transcript(mode, e, s)
      BY DEF Sound, Placed
    <3>2. Numbers(mode, e, t)
      BY <2>4, <3>1 DEF Numbers
    <3>3. Timers(t)
      BY <2>4, <3>1 DEF Timers
    <3>4. Transcript(mode, e, t)
      BY <2>4, <3>1 DEF Transcript
    <3> QED
      BY <3>2, <3>3, <3>4
  <2>11. Sound(mode, e, t, p)
    BY <2>3, <2>4, <2>5, <2>6, <2>7, <2>8, <2>9, <2>10 DEF Sound, Core, Placed
  <2> QED
    BY <2>4, <2>11 DEF Onward, t
<1> QED
  BY <1>1, <1>2, <1>3

\* A datagram of application data that has not been read.
Unread(s, n) ==
  /\ ~Unseen(s.bitmap, n) /\ \A i \in DOMAIN s.read : s.read[i] # n
  /\ \A q \in s.appQueue : q.type = "APP" => q.rseq # n

(* Application data is read, or kept.                                      *)
LEMMA ReadSound ==
  ASSUME NEW md, NEW e \in Endpoints, NEW s, NEW p, Sound(md, e, s, p),
         NEW m \in Records, s.readEpoch = 1, m.type \in {"APP", "ALERT"},
         m.type = "APP" => Unread(s, m.rseq)
  PROVE  /\ LET t == [s EXCEPT !.appQueue = s.appQueue \cup {m}]
            IN Sound(md, e, t, p) /\ Onward(s, t)
         /\ m.type = "APP" => LET t == [s EXCEPT !.read = Append(s.read, m.rseq)]
                              IN Sound(md, e, t, p) /\ Onward(s, t)
<1>0. s \in SSL /\ ReadOnce(s) /\ Peers(md, e, s, p)
  BY DEF Sound, Core
<1>1. LET t == [s EXCEPT !.appQueue = s.appQueue \cup {m}]
      IN Sound(md, e, t, p) /\ Onward(s, t)
  <2> DEFINE q == s.appQueue \cup {m}
             t == [s EXCEPT !.appQueue = q]
  <2>1. q \in SUBSET Records
    BY <1>0 DEF SSL
  <2> SUFFICES Sound(md, e, t, p) /\ Onward(s, t)
    OBVIOUS
  <2> HIDE DEF q
  <2>2. t \in SSL /\ AllBut(s, t, {"appQueue"}) /\ t.appQueue = q
    BY <1>0, <2>1, Retyped
  <2> HIDE DEF t
  <2>3. /\ t.read = s.read /\ t.bitmap = s.bitmap /\ t.readEpoch = s.readEpoch
        /\ t.buffered = s.buffered /\ t.unprocessed = s.unprocessed /\ t.st = s.st
    BY <1>0, <2>2, FieldsOf DEF AllBut
  <2>4. ReadOnce(t)
    <3>1. ASSUME NEW r \in q
          PROVE  /\ r.type \in {"APP", "ALERT"}
                 /\ r.type = "APP" => /\ ~Unseen(s.bitmap, r.rseq)
                                      /\ \A i \in DOMAIN s.read : s.read[i] # r.rseq
                                      /\ \A x \in q : x.type = "APP" /\ x.rseq = r.rseq => x = r
      BY <1>0, <3>1 DEF q, ReadOnce, Unread
    <3> QED
      BY <1>0, <2>2, <2>3, <3>1 DEF ReadOnce
  <2>5. Peers(md, e, t, p)
    BY <1>0, <2>3 DEF Peers
  <2>6. AllBut(s, t, Inbox)
    BY <2>2 DEF AllBut, Inbox
  <2> QED
    BY <2>2, <2>4, <2>5, <2>6, InboxFrame
<1>2. ASSUME m.type = "APP"
      PROVE  LET t == [s EXCEPT !.read = Append(s.read, m.rseq)]
             IN Sound(md, e, t, p) /\ Onward(s, t)
  <2> DEFINE r == Append(s.read, m.rseq)
             t == [s EXCEPT !.read = r]
  <2>1. /\ r \in Seq(Nat) /\ DOMAIN r = 1 .. Len(s.read) + 1 /\ Len(s.read) \in Nat
        /\ DOMAIN s.read = 1 .. Len(s.read)
        /\ \A i \in 1 .. Len(s.read) : r[i] = s.read[i]
        /\ r[Len(s.read) + 1] = m.rseq
    <3>1. s.read \in Seq(Nat) /\ m.rseq \in Nat
      BY <1>0 DEF SSL, Records
    <3> QED
      BY <3>1, AppendProperties, LenProperties
  <2> SUFFICES Sound(md, e, t, p) /\ Onward(s, t)
    OBVIOUS
  <2> HIDE DEF r
  <2>2. t \in SSL /\ AllBut(s, t, {"read"}) /\ t.read = r
    BY <1>0, <2>1, Retyped
  <2> HIDE DEF t
  <2>3. /\ t.appQueue = s.appQueue /\ t.bitmap = s.bitmap /\ t.readEpoch = s.readEpoch
        /\ t.buffered = s.buffered /\ t.unprocessed = s.unprocessed /\ t.st = s.st
    BY <1>0, <2>2, FieldsOf DEF AllBut
  <2>4. ReadOnce(t)
    <3>1. Unread(s, m.rseq)
      BY <1>2
    <3>2. \A i \in DOMAIN r : \/ i \in DOMAIN s.read /\ r[i] = s.read[i]
                              \/ i = Len(s.read) + 1 /\ r[i] = m.rseq
      BY <2>1
    <3>3. \A i, j \in DOMAIN r : r[i] = r[j] => i = j
      BY <1>0, <3>1, <3>2 DEF ReadOnce, Unread
    <3>4. \A i \in DOMAIN r : ~Unseen(s.bitmap, r[i])
      BY <1>0, <3>1, <3>2 DEF ReadOnce, Unread
    <3>5. \A x \in s.appQueue : x.type = "APP" => \A i \in DOMAIN r : r[i] # x.rseq
      BY <1>0, <3>1, <3>2 DEF ReadOnce, Unread
    <3> QED
      BY <1>0, <2>2, <2>3, <3>3, <3>4, <3>5 DEF ReadOnce
  <2>5. Peers(md, e, t, p)
    BY <1>0, <2>3 DEF Peers
  <2>6. AllBut(s, t, Inbox)
    BY <2>2 DEF AllBut, Inbox
  <2> QED
    BY <2>2, <2>4, <2>5, <2>6, InboxFrame
<1> QED
  BY <1>1, <1>2

(* What dtls1_read_bytes may be given to process.                          *)
Ready(md, e, s, p, m) ==
  /\ m.type \notin {"APP", "ALERT"} => Arrives(md, Peer(e), p, m)
  /\ IsHandshake(m) /\ m.epoch = 1 => s.readEpoch = 1
  /\ m.type = "CCS" => s.readEpoch = 0 /\ (Plain(md) => CipherChosen(s))
  /\ m.type = "APP" => s.readEpoch = 1 /\ Unread(s, m.rseq)

(* dtls1_read_bytes.                                                       *)
LEMMA ProcessSound ==
  ASSUME mode \in ModeSpace, NEW e \in Endpoints, NEW s, NEW p, Sound(mode, e, s, p),
         s.failed = "no", ~Writing(s), NEW m \in Records, Ready(mode, e, s, p, m)
  PROVE  Sound(mode, e, Process(e, s, m), p) /\ Onward(s, Process(e, s, m))
<1>0. /\ s \in SSL /\ s.readEpoch \in 0 .. 1 /\ m.type \in Types
      /\ s.ccs \in BOOLEAN
  BY DEF Sound, Core, SSL, Records
<1>1. Epochs(mode, e, s)
  BY DEF Sound, Core
<1> DEFINE queued == [s EXCEPT !.appQueue = s.appQueue \cup {m}]
           closed == [s EXCEPT !.failed = "PEER_ALERT"]
           taken == [s EXCEPT !.read = Append(s.read, m.rseq)]
<1>2. CASE Listening(s) /\ ~IsHandshake(m)
  BY <1>2 DEF Process, Onward
<1>3. CASE ~Listening(s) /\ s.ccs /\ ~IsHandshake(m)
  <2>1. Process(e, s, m) = queued
    <3>1. ~(Listening(s) /\ ~IsHandshake(m)) /\ (s.ccs /\ ~IsHandshake(m))
      BY <1>3
    <3> QED
      BY <3>1 DEF Process
  <2>2. s.readEpoch = 1
    BY <1>1, <1>3 DEF Epochs
  <2>3. m.type \in {"APP", "ALERT"}
    BY <1>3, <2>2 DEF Ready, IsHandshake
  <2>4. m.type = "APP" => Unread(s, m.rseq)
    BY DEF Ready
  <2> HIDE DEF queued
  <2>5. LET t == [s EXCEPT !.appQueue = s.appQueue \cup {m}]
        IN Sound(mode, e, t, p) /\ Onward(s, t)
    BY <2>2, <2>3, <2>4, ReadSound
  <2> QED
    BY <2>1, <2>5 DEF queued
<1> DEFINE Rest == ~(Listening(s) /\ ~IsHandshake(m)) /\ ~(s.ccs /\ ~IsHandshake(m))
<1>4. CASE Rest /\ m.type = "ALERT"
  <2>1. ~IsHandshake(m)
    BY <1>4 DEF IsHandshake
  <2>2. Process(e, s, m) = closed
    BY <1>4, <2>1 DEF Process
  <2>3. "PEER_ALERT" \in Reasons
    BY DEF Reasons
  <2>4. closed \in SSL /\ AllBut(s, closed, {"failed"}) /\ closed.failed = "PEER_ALERT"
    BY <1>0, <2>3, Retyped
  <2> HIDE DEF closed
  <2>5. CoreSame(s, closed) /\ closed.st = s.st /\ closed.transcript = s.transcript
        /\ closed.wbio = s.wbio /\ closed.writeEpoch = s.writeEpoch
    BY <1>0, <2>4, FieldsOf DEF AllBut, CoreSame
  <2>6. Blameless(mode, closed)
    BY <2>4 DEF Blameless
  <2>7. Writes(mode, e, closed)
    BY <2>5 DEF Sound, Core, Writes, Arrives, Reached
  <2>8. Core(mode, e, closed, p) /\ Onward(s, closed)
    BY <2>4, <2>5, <2>6, <2>7, CoreFrame DEF Sound
  <2>9. Placed(mode, e, closed)
    BY <2>4, <2>5 DEF Sound, Placed, Transcript
  <2> QED
    BY <2>2, <2>8, <2>9 DEF Sound
<1>5. CASE Rest /\ m.type = "CCS"
  <2>1. Process(e, s, m) = ReadCcs(s)
    <3>1. ~IsHandshake(m)
      BY <1>5 DEF IsHandshake
    <3> QED
      BY <1>5, <3>1 DEF Process
  <2>2. s.readEpoch = 0 /\ (Plain(mode) => CipherChosen(s)) /\ p.writeEpoch = 1
    BY <1>5 DEF Ready, Arrives, Reached
  <2>3. InInit(s)
    BY <1>1, <2>2 DEF Epochs, ReadFin, InInit
  <2> QED
    BY <2>1, <2>2, <2>3, CcsSound
<1>6. CASE Rest /\ m.type = "APP"
  <2>1. ~IsHandshake(m) /\ ~s.ccs /\ s.readEpoch = 1 /\ Unread(s, m.rseq)
    BY <1>6 DEF IsHandshake, Ready
  <2>2. s.st = "OK"
    BY <1>1, <2>1 DEF Epochs, ReadFin, Writing
  <2>3. Process(e, s, m) = taken
    BY <1>6, <2>1, <2>2 DEF Process, InInit
  <2> HIDE DEF taken
  <2>4. LET t == [s EXCEPT !.read = Append(s.read, m.rseq)]
        IN Sound(mode, e, t, p) /\ Onward(s, t)
    BY <1>6, <2>1, ReadSound
  <2> QED
    BY <2>3, <2>4 DEF taken
<1>7. CASE IsHandshake(m) /\ InInit(s)
  <2>1. Process(e, s, m) = GetFragment(s, m)
    BY <1>7 DEF Process, IsHandshake
  <2>2. Arrives(mode, Peer(e), p, m) /\ (m.epoch = 1 => s.readEpoch = 1)
    BY <1>7 DEF Ready, IsHandshake
  <2> QED
    BY <1>7, <2>1, <2>2, FragmentSound
<1>8. CASE IsHandshake(m) /\ ~InInit(s)
  <2>1. Process(e, s, m) \in {CheckedRetransmit(s), Fail(s, "UNEXPECTED_MESSAGE")}
    BY <1>8 DEF Process, IsHandshake, UnexpectedHandshake
  <2>2. "UNEXPECTED_MESSAGE" \in Reasons \ {"no"} /\ s.st = "OK"
    BY <1>8 DEF Reasons, InInit
  <2>3. Core(mode, e, s, p) /\ Transcript(mode, e, s)
    BY <2>2 DEF Sound, Placed
  <2>4. /\ Sound(mode, e, Fail(s, "UNEXPECTED_MESSAGE"), p)
        /\ Onward(s, Fail(s, "UNEXPECTED_MESSAGE"))
    BY <2>2, <2>3, FailSound
  <2> QED
    BY <2>1, <2>4, CheckedRetransmitSound
<1>9. IsHandshake(m) \/ m.type \in {"CCS", "APP", "ALERT"}
  BY DEF IsHandshake
<1> QED
  BY <1>2, <1>3, <1>4, <1>5, <1>6, <1>7, <1>8, <1>9

(* No ChangeCipherSpec of a plain handshake comes before the ServerHello.  *)
LEMMA CcsTimely ==
  ASSUME NEW md \in ModeSpace, NEW e \in Endpoints, NEW s, NEW p, Core(md, e, s, p),
         Core(md, Peer(e), p, s), p.writeEpoch = 1, Plain(md)
  PROVE  CipherChosen(s)
<1>1. CASE e = "client"
  <2>1. Peer(e) = "server"
    BY <1>1 DEF Peer
  <2>2. WroteFin(md, "server", p.st)
    BY <2>1 DEF Core, Epochs
  <2>3. p.st = "OK"
    BY <2>2 DEF WroteFin, Plain
  <2>4. p.readEpoch = 1
    BY <2>1, <2>3 DEF Core, Epochs, ReadFin
  <2>5. s.writeEpoch = 1
    BY <2>4 DEF Core, Peers
  <2>6. WroteFin(md, "client", s.st)
    BY <1>1, <2>5 DEF Core, Epochs
  <2> QED
    BY <2>6 DEF WroteFin, CipherChosen
<1>2. CASE e = "server"
  <2>1. Peer(e) = "client"
    BY <1>2 DEF Peer
  <2>2. WroteFin(md, "client", p.st)
    BY <2>1 DEF Core, Epochs
  <2>3. Answered(p.st)
    BY <2>2 DEF WroteFin, Answered
  <2>4. Helloed(s.st)
    BY <2>1, <2>3 DEF Core, Peers
  <2>5. s.st \in ServerStates(md)
    BY <1>2 DEF Core, StatesOf
  <2>6. "CR_SRVR_HELLO" \notin ServerStates(md)
    BY DEF ServerStates, ModeSpace
  <2> QED
    BY <2>4, <2>5, <2>6 DEF Helloed, CipherChosen
<1> QED
  BY <1>1, <1>2 DEF Endpoints

\* The records of a ClientHello to a listening server bypass its replay window.
HelloHeard(s, m) == Listening(s) /\ m.type \in {"CH", "CHC"}

(* A record of the current epoch that is not a replay is processed.        *)
LEMMA Admitted ==
  ASSUME mode \in ModeSpace, NEW e \in Endpoints, NEW s, NEW p, Sound(mode, e, s, p),
         Sound(mode, Peer(e), p, s), s.failed = "no", ~Writing(s), NEW m \in Records,
         Arrives(mode, Peer(e), p, m), m.epoch = s.readEpoch,
         HelloHeard(s, m) \/ Unseen(s.bitmap, m.rseq)
  PROVE  LET t == [s EXCEPT !.bitmap = Mark(s.bitmap, m.rseq)]
         IN /\ GetRecord(e, s, m) = Process(e, t, m)
            /\ t \in SSL /\ AllBut(s, t, {"bitmap"}) /\ t.bitmap = Mark(s.bitmap, m.rseq)
            /\ Sound(mode, e, t, p) /\ Onward(s, t) /\ Ready(mode, e, t, p, m)
            /\ ~Writing(t)
<1> DEFINE hello == HelloHeard(s, m)
           b == Mark(s.bitmap, m.rseq)
           t == [s EXCEPT !.bitmap = b]
<1>0. /\ s \in SSL /\ s.bitmap \in Bitmaps /\ m.rseq \in Nat
      /\ s.readEpoch \in 0 .. 1 /\ m.epoch \in 0 .. 1
      /\ s.read \in Seq(Nat) /\ s.appQueue \in SUBSET Records
  BY DEF Sound, Core, SSL, Records
<1>a. b \in Bitmaps
  BY <1>0, Marked
<1>1. GetRecord(e, s, m) = Process(e, t, m)
  BY DEF GetRecord, HelloHeard
<1>2. /\ ~Unseen(b, m.rseq)
      /\ \A k \in Nat : ~Unseen(s.bitmap, k) => ~Unseen(b, k)
  BY <1>0, Marked
<1> HIDE DEF b
<1>3. t \in SSL /\ AllBut(s, t, {"bitmap"}) /\ t.bitmap = b
  BY <1>0, <1>a, Retyped
<1> HIDE DEF t
<1>4. /\ t.read = s.read /\ t.appQueue = s.appQueue /\ t.readEpoch = s.readEpoch
      /\ t.buffered = s.buffered /\ t.unprocessed = s.unprocessed /\ t.st = s.st
      /\ t.failed = s.failed /\ t.ccs = s.ccs
  BY <1>0, <1>3, FieldsOf DEF AllBut
<1>5. ReadOnce(s)
  BY DEF Sound, Core
<1>6. \A i \in DOMAIN s.read : s.read[i] \in Nat
  BY <1>0, ElementOfSeq, LenProperties
<1>7. \A r \in s.appQueue : r.rseq \in Nat
  BY <1>0 DEF Records
<1>8. ReadOnce(t)
  <2>1. \A i \in DOMAIN s.read : ~Unseen(b, s.read[i])
    BY <1>2, <1>5, <1>6 DEF ReadOnce
  <2>2. \A r \in s.appQueue : r.type = "APP" => ~Unseen(b, r.rseq)
    BY <1>2, <1>5, <1>7 DEF ReadOnce
  <2> QED
    BY <1>3, <1>4, <1>5, <2>1, <2>2 DEF ReadOnce
<1>9. Peers(mode, e, t, p)
  BY <1>4 DEF Sound, Core, Peers
<1>10. Sound(mode, e, t, p) /\ Onward(s, t)
  <2>1. AllBut(s, t, Inbox)
    BY <1>3 DEF AllBut, Inbox
  <2> QED
    BY <1>3, <1>8, <1>9, <2>1, InboxFrame
<1>11. ~Writing(t)
  BY <1>4 DEF Writing
<1>12. Ready(mode, e, t, p, m)
  <2>1. m.type = "CCS" => t.readEpoch = 0 /\ (Plain(mode) => CipherChosen(t))
    <3>1. m.type = "CCS" => m.epoch = 0 /\ p.writeEpoch = 1
      BY DEF Arrives, Good, Reached
    <3>2. m.type = "CCS" => (Plain(mode) => CipherChosen(s))
      BY <3>1, CcsTimely DEF Sound
    <3> QED
      BY <1>4, <3>1, <3>2 DEF CipherChosen
  <2>2. m.type = "APP" => t.readEpoch = 1 /\ Unread(t, m.rseq)
    <3>1. m.type = "APP" => m.epoch = 1 /\ ~hello
      BY DEF Arrives, Good, HelloHeard
    <3> QED
      BY <1>2, <1>3, <1>4, <1>5, <3>1 DEF ReadOnce, Unread
  <2> QED
    BY <1>4, <2>1, <2>2 DEF Ready
<1> QED
  BY <1>1, <1>3, <1>10, <1>11, <1>12 DEF t, b

(* A handshake record of the next epoch is kept.                           *)
LEMMA KeptIs ==
  ASSUME NEW e, NEW s \in SSL, NEW m \in Records, m.epoch = s.readEpoch + 1,
         m.type \notin {"CCS", "APP"}, InInit(s), ~Listening(s), Unseen(s.nextBitmap, m.rseq)
  PROVE  LET u == GetRecord(e, s, m)
         IN /\ u \in SSL /\ AllBut(s, u, {"unprocessed", "nextBitmap"})
            /\ u.unprocessed = s.unprocessed \cup {m}
            /\ u.nextBitmap = Mark(s.nextBitmap, m.rseq)
<1> DEFINE nb == Mark(s.nextBitmap, m.rseq)
           q == s.unprocessed \cup {m}
           u == [s EXCEPT !.unprocessed = q, !.nextBitmap = nb]
<1>1. s.nextBitmap \in Bitmaps /\ m.rseq \in Nat /\ q \in SUBSET Records /\ s.readEpoch \in 0 .. 1
  BY DEF SSL, Records
<1>2. nb \in Bitmaps
  BY <1>1, Marked
<1>3. GetRecord(e, s, m) = u
  BY <1>1 DEF GetRecord
<1> HIDE DEF nb, q
<1>4. /\ u \in SSL /\ AllBut(s, u, {"unprocessed", "nextBitmap"}) /\ u.unprocessed = q
      /\ u.nextBitmap = nb
  BY <1>1, <1>2 DEF SSL, AllBut
<1> QED
  BY <1>3, <1>4 DEF nb, q

(* A record arrives.                                                       *)
LEMMA GetRecordSound ==
  ASSUME mode \in ModeSpace, NEW e \in Endpoints, NEW s, NEW p, Sound(mode, e, s, p),
         Sound(mode, Peer(e), p, s), s.failed = "no", ~Writing(s), NEW m \in Records,
         Arrives(mode, Peer(e), p, m)
  PROVE  Sound(mode, e, GetRecord(e, s, m), p) /\ Onward(s, GetRecord(e, s, m))
<1> DEFINE hello == Listening(s) /\ m.type \in {"CH", "CHC"}
           b == Mark(s.bitmap, m.rseq)
           t == [s EXCEPT !.bitmap = b]
<1>0. /\ s \in SSL /\ s.bitmap \in Bitmaps /\ m.rseq \in Nat
      /\ s.readEpoch \in 0 .. 1 /\ m.epoch \in 0 .. 1
  BY DEF Sound, Core, SSL, Records
<1>2. Onward(s, s)
  BY DEF Onward
<1>3. CASE m.epoch = s.readEpoch /\ (hello \/ Unseen(s.bitmap, m.rseq))
  <2>1. /\ GetRecord(e, s, m) = Process(e, t, m) /\ ~Writing(t) /\ t.failed = "no"
        /\ Sound(mode, e, t, p) /\ Onward(s, t) /\ Ready(mode, e, t, p, m)
    BY <1>0, <1>3, Admitted, FieldsOf DEF AllBut, HelloHeard
  <2> HIDE DEF t
  <2>2. Sound(mode, e, Process(e, t, m), p) /\ Onward(t, Process(e, t, m))
    BY <2>1, ProcessSound
  <2> QED
    BY <2>1, <2>2 DEF Onward
<1>4. CASE /\ m.epoch # s.readEpoch /\ InInit(s) /\ ~Listening(s)
           /\ m.epoch = s.readEpoch + 1 /\ m.type \notin {"CCS", "APP"}
           /\ Unseen(s.nextBitmap, m.rseq)
  <2> DEFINE u == GetRecord(e, s, m)
  <2>2. m.epoch = 1
    BY <1>0, <1>4
  <2>3. /\ u \in SSL /\ AllBut(s, u, {"unprocessed", "nextBitmap"})
        /\ u.unprocessed = s.unprocessed \cup {m}
    BY <1>0, <1>4, KeptIs
  <2> HIDE DEF u
  <2>4. /\ u.read = s.read /\ u.appQueue = s.appQueue /\ u.readEpoch = s.readEpoch
        /\ u.buffered = s.buffered /\ u.bitmap = s.bitmap /\ u.st = s.st
    BY <1>0, <2>3, FieldsOf DEF AllBut
  <2>5. ReadOnce(u)
    BY <2>4 DEF Sound, Core, ReadOnce
  <2>6. Peers(mode, e, u, p)
    BY <1>4, <2>2, <2>3, <2>4 DEF Sound, Core, Peers
  <2>7. AllBut(s, u, Inbox)
    BY <2>3 DEF AllBut, Inbox
  <2> QED
    BY <2>3, <2>5, <2>6, <2>7, InboxFrame DEF u
<1>5. CASE GetRecord(e, s, m) = s
  BY <1>2, <1>5
<1>6. \/ m.epoch = s.readEpoch /\ (hello \/ Unseen(s.bitmap, m.rseq))
      \/ /\ m.epoch # s.readEpoch /\ InInit(s) /\ ~Listening(s)
         /\ m.epoch = s.readEpoch + 1 /\ m.type \notin {"CCS", "APP"}
         /\ Unseen(s.nextBitmap, m.rseq)
      \/ GetRecord(e, s, m) = s
  BY DEF GetRecord
<1> QED
  BY <1>3, <1>4, <1>5, <1>6

------------------------------------------------------------------------------
(* The steps.                                                              *)

(* A queue has a lowest record.                                            *)
LEMMA LowestIn ==
  ASSUME NEW rs \in SUBSET Records, rs # {}
  PROVE  Lowest(rs) \in rs
<1> DEFINE T == {r.rseq : r \in rs}
           First(r) == \A q \in rs : r.rseq <= q.rseq
<1>1. T \subseteq Nat /\ T # {}
  BY DEF Records
<1>2. PICK k \in T : \A n \in T : ~(<<n, k>> \in OpToRel(<, Nat))
  BY <1>1, NatLessThanWellFounded, WFMin
<1>4. PICK r \in rs : r.rseq = k
  BY <1>2
<1> HIDE DEF T
<1>3. \A n \in T : ~(n < k)
  BY <1>1, <1>2 DEF OpToRel
<1>5. First(r)
  <2> SUFFICES ASSUME NEW q \in rs PROVE r.rseq <= q.rseq
    OBVIOUS
  <2>1. q.rseq \in T
    BY DEF T
  <2>2. q.rseq \in Nat /\ k \in Nat /\ ~(q.rseq < k)
    BY <1>1, <1>3, <2>1
  <2> QED
    BY <1>4, <2>2
<1>6. Lowest(rs) = CHOOSE x \in rs : First(x)
  BY DEF Lowest
<1> HIDE DEF First
<1> QED
  BY <1>4, <1>5, <1>6, Zenon

(* The removal of one datagram leaves the others.                          *)
LEMMA Removed ==
  ASSUME NEW s \in Seq(Records), NEW i \in DOMAIN s
  PROVE  /\ RemoveAt(s, i) \in Seq(Records)
         /\ Len(RemoveAt(s, i)) = Len(s) - 1
         /\ \A j \in DOMAIN RemoveAt(s, i) : \E k \in DOMAIN s : RemoveAt(s, i)[j] = s[k]
         /\ \A j \in DOMAIN RemoveAt(s, i) :
              RemoveAt(s, i)[j] = IF j < i THEN s[j] ELSE s[j + 1]
<1> DEFINE a == SubSeq(s, 1, i - 1)
           b == SubSeq(s, i + 1, Len(s))
<1>1. i \in 1 .. Len(s) /\ Len(s) \in Nat /\ DOMAIN s = 1 .. Len(s)
      /\ \A k \in 1 .. Len(s) : s[k] \in Records
  BY LenProperties, ElementOfSeq
<1>2. /\ a \in Seq(Records) /\ Len(a) = i - 1
      /\ \A j \in 1 .. i - 1 : a[j] = s[j]
  <2>1. i - 1 \in Int /\ 1 \in Int /\ \A k \in 1 .. i - 1 : s[k] \in Records
    BY <1>1
  <2>2. /\ a \in Seq(Records) /\ Len(a) = IF 1 <= i - 1 THEN i - 1 - 1 + 1 ELSE 0
        /\ \A j \in 1 .. i - 1 - 1 + 1 : a[j] = s[1 + j - 1]
    BY <2>1, SubSeqProperties
  <2> QED
    BY <1>1, <2>2
<1>3. /\ b \in Seq(Records) /\ Len(b) = Len(s) - i
      /\ \A j \in 1 .. Len(s) - i : b[j] = s[i + j]
  <2>1. i + 1 \in Int /\ Len(s) \in Int /\ \A k \in i + 1 .. Len(s) : s[k] \in Records
    BY <1>1
  <2>2. /\ b \in Seq(Records)
        /\ Len(b) = IF i + 1 <= Len(s) THEN Len(s) - (i + 1) + 1 ELSE 0
        /\ \A j \in 1 .. Len(s) - (i + 1) + 1 : b[j] = s[i + 1 + j - 1]
    BY <2>1, SubSeqProperties
  <2>3. Len(s) - (i + 1) + 1 = Len(s) - i
    BY <1>1
  <2>4. Len(b) = Len(s) - i
    BY <1>1, <2>2, <2>3
  <2>5. ASSUME NEW j \in 1 .. Len(s) - i
        PROVE  b[j] = s[i + j]
    <3>1. i + 1 + j - 1 = i + j
      BY <1>1
    <3> QED
      BY <2>2, <2>3, <3>1
  <2> QED
    BY <2>2, <2>4, <2>5
<1>4. RemoveAt(s, i) = a \o b
  BY DEF RemoveAt
<1> HIDE DEF a, b
<1>5. /\ a \o b \in Seq(Records) /\ Len(a \o b) = Len(s) - 1
      /\ \A j \in 1 .. Len(s) - 1 : (a \o b)[j] = IF j <= i - 1 THEN a[j] ELSE b[j - (i - 1)]
  <2>1. /\ a \o b \in Seq(Records) /\ Len(a \o b) = Len(a) + Len(b)
        /\ \A j \in 1 .. Len(a) + Len(b) : (a \o b)[j] = IF j <= Len(a) THEN a[j]
                                                                       ELSE b[j - Len(a)]
    BY <1>2, <1>3, ConcatProperties
  <2>2. Len(a) = i - 1 /\ Len(a) + Len(b) = Len(s) - 1
    BY <1>1, <1>2, <1>3
  <2> QED
    BY <2>1, <2>2
<1>6. ASSUME NEW j \in 1 .. Len(s) - 1
      PROVE  /\ \E k \in DOMAIN s : (a \o b)[j] = s[k]
             /\ (a \o b)[j] = IF j < i THEN s[j] ELSE s[j + 1]
  <2>0. i \in Nat /\ j \in Nat
    BY <1>1
  <2>1. CASE j <= i - 1
    <3>1. j \in 1 .. i - 1 /\ j \in DOMAIN s /\ j < i
      BY <1>1, <2>0, <2>1
    <3>2. (a \o b)[j] = s[j]
      BY <1>2, <1>5, <2>1, <3>1
    <3> QED
      BY <3>1, <3>2
  <2>2. CASE j > i - 1
    <3>0. ~(j < i)
      BY <2>0, <2>2
    <3>1. j - (i - 1) \in 1 .. Len(s) - i /\ j + 1 \in DOMAIN s /\ i + (j - (i - 1)) = j + 1
      BY <1>1, <2>2
    <3>2. (a \o b)[j] = b[j - (i - 1)]
      BY <1>1, <1>5, <2>2
    <3>3. b[j - (i - 1)] = s[j + 1]
      BY <1>3, <3>1
    <3> QED
      BY <3>0, <3>1, <3>2, <3>3
  <2>3. j <= i - 1 \/ j > i - 1
    BY <2>0
  <2> QED
    BY <2>1, <2>2, <2>3
<1>7. DOMAIN (a \o b) = 1 .. Len(s) - 1
  BY <1>5, LenProperties
<1> QED
  BY <1>4, <1>5, <1>6, <1>7

(* There are two endpoints.                                                *)
LEMMA PeerOfPeer ==
  ASSUME NEW e \in Endpoints
  PROVE  /\ Peer(e) \in Endpoints /\ Peer(e) # e /\ Peer(Peer(e)) = e
         /\ \A x \in Endpoints : x = e \/ x = Peer(e)
BY DEF Endpoints, Peer

(* A message that has been written stays written.                          *)
LEMMA OnwardArrives ==
  ASSUME NEW md, NEW e, NEW s, NEW t, Onward(s, t), NEW m, Arrives(md, e, s, m)
  PROVE  Arrives(md, e, t, m)
BY DEF Onward, Arrives, Reached

(* An endpoint becomes a sound SSL object: the peer stays sound.           *)
LEMMA BecomeSound ==
  ASSUME IInv, NEW e \in Endpoints, NEW t,
         Sound(mode, e, t, conn[Peer(e)]), Onward(conn[e], t), NEW left \in Seq(Records),
         \A i \in DOMAIN left : Arrives(mode, Peer(e), conn[Peer(e)], left[i]),
         Become(e, t, left), faults' \in 0 .. MaxFaults
  PROVE  IInv'
<1> DEFINE s == conn[e]
           p == conn[Peer(e)]
           none == <<>>
           u == [t EXCEPT !.wbio = none]
           sent == net[Peer(e)] \o t.wbio
<1>0. /\ t \in SSL /\ s \in SSL /\ p \in SSL /\ t.wbio \in Seq(Records)
      /\ net[Peer(e)] \in Seq(Records)
  BY PeerOfPeer DEF IInv, Sound, Core, SSL
<1>1. /\ mode' = mode /\ conn' = [conn EXCEPT ![e] = u]
      /\ net' = [net EXCEPT ![e] = left, ![Peer(e)] = sent]
  BY DEF Become
<1>2. none \in Seq(Records) /\ DOMAIN none = {}
  BY NoneIn
<1> HIDE DEF none, sent
<1>3. u \in SSL /\ AllBut(t, u, {"wbio"}) /\ u.wbio = none
  BY <1>0, <1>2 DEF SSL, AllBut
<1> HIDE DEF u
<1>4. /\ CoreSame(t, u) /\ PlaceSame(t, u) /\ u.failed = t.failed /\ u.st = t.st
      /\ u.writeEpoch = t.writeEpoch
  BY <1>0, <1>3, FieldsOf DEF AllBut, CoreSame, PlaceSame
<1>5. Sound(mode, e, u, p) /\ Onward(t, u)
  <2>1. Blameless(mode, u)
    BY <1>4 DEF Sound, Core, Blameless
  <2>2. Writes(mode, e, u)
    BY <1>2, <1>3 DEF Writes
  <2>3. Core(mode, e, u, p) /\ Onward(t, u)
    BY <1>3, <1>4, <2>1, <2>2, CoreFrame DEF Sound
  <2>4. Placed(mode, e, u)
    BY <1>4, PlaceFrame DEF Sound
  <2> QED
    BY <2>3, <2>4 DEF Sound
<1>6. Onward(s, u)
  BY <1>5 DEF Onward
<1>7. Sound(mode, Peer(e), p, u)
  <2>1. Sound(mode, Peer(e), p, s)
    BY PeerOfPeer DEF IInv
  <2>2. Peers(mode, Peer(e), p, u)
    <3>1. Peers(mode, Peer(e), p, s)
      BY <2>1 DEF Sound, Core
    <3>2. \A m : Arrives(mode, e, s, m) => Arrives(mode, e, u, m)
      BY <1>6, OnwardArrives
    <3>3. \A m \in p.buffered \cup p.unprocessed : Arrives(mode, e, u, m)
      BY <3>1, <3>2, PeerOfPeer DEF Peers
    <3> QED
      BY <1>6, <3>1, <3>3, PeerOfPeer DEF Peers, Onward
  <2> QED
    BY <2>1, <2>2 DEF Sound, Core
<1>8. /\ sent \in Seq(Records)
      /\ \A i \in DOMAIN sent : Arrives(mode, e, u, sent[i])
  <2>1. \A i \in DOMAIN net[Peer(e)] : Arrives(mode, e, u, net[Peer(e)][i])
    <3>1. \A i \in DOMAIN net[Peer(e)] : Arrives(mode, e, s, net[Peer(e)][i])
      BY PeerOfPeer DEF IInv
    <3> QED
      BY <1>6, <3>1, OnwardArrives
  <2>2. \A i \in DOMAIN t.wbio : Arrives(mode, e, u, t.wbio[i])
    <3>1. \A i \in DOMAIN t.wbio : Arrives(mode, e, t, t.wbio[i])
      BY DEF Sound, Core, Writes
    <3> QED
      BY <1>5, <3>1, OnwardArrives
  <2> DEFINE a == net[Peer(e)]
             b == t.wbio
  <2>3. a \in Seq(Records) /\ b \in Seq(Records) /\ sent = a \o b
    BY <1>0 DEF sent
  <2> HIDE DEF a, b
  <2>4. /\ Len(a) \in Nat /\ Len(b) \in Nat /\ DOMAIN a = 1 .. Len(a) /\ DOMAIN b = 1 .. Len(b)
        /\ sent \in Seq(Records) /\ DOMAIN sent = 1 .. Len(a) + Len(b)
        /\ \A i \in 1 .. Len(a) + Len(b) : sent[i] = IF i <= Len(a) THEN a[i] ELSE b[i - Len(a)]
    BY <2>3, ConcatProperties, LenProperties
  <2>5. ASSUME NEW i \in DOMAIN sent PROVE Arrives(mode, e, u, sent[i])
    <3>1. CASE i <= Len(a)
      BY <2>1, <2>4, <3>1 DEF a
    <3>2. CASE i > Len(a)
      <4>1. i - Len(a) \in DOMAIN b /\ sent[i] = b[i - Len(a)]
        BY <2>4, <3>2
      <4> QED
        BY <2>2, <4>1 DEF b
    <3> QED
      BY <2>4, <3>1, <3>2
  <2> QED
    BY <2>4, <2>5
<1>9. \A i \in DOMAIN left : Arrives(mode, Peer(e), p, left[i])
  OBVIOUS
<1> HIDE DEF s
<1> DEFINE Held(x, c, q, n, pc) == /\ Sound(mode, x, c, pc) /\ c.wbio = <<>>
                                   /\ \A i \in DOMAIN n : Arrives(mode, Peer(x), pc, n[i])
<1>10. /\ conn' \in [Endpoints -> SSL] /\ net' \in [Endpoints -> Seq(Records)]
       /\ conn'[e] = u /\ conn'[Peer(e)] = p
       /\ net'[e] = left /\ net'[Peer(e)] = sent
  BY <1>1, <1>3, <1>8, PeerOfPeer DEF IInv
<1>11. p.wbio = <<>> /\ u.wbio = <<>>
  BY <1>3, PeerOfPeer DEF IInv, none
<1> HIDE DEF p
<1>12. /\ Sound(mode, e, conn'[e], conn'[Peer(e)]) /\ conn'[e].wbio = <<>>
       /\ \A i \in DOMAIN net'[e] : Arrives(mode, Peer(e), conn'[Peer(e)], net'[e][i])
  BY <1>5, <1>9, <1>10, <1>11
<1>13. /\ Sound(mode, Peer(e), conn'[Peer(e)], conn'[e]) /\ conn'[Peer(e)].wbio = <<>>
       /\ \A i \in DOMAIN net'[Peer(e)] : Arrives(mode, e, conn'[e], net'[Peer(e)][i])
  BY <1>7, <1>8, <1>10, <1>11
<1>14. \A x \in Endpoints :
         /\ Sound(mode, x, conn'[x], conn'[Peer(x)]) /\ conn'[x].wbio = <<>>
         /\ \A i \in DOMAIN net'[x] : Arrives(mode, Peer(x), conn'[Peer(x)], net'[x][i])
  BY <1>12, <1>13, PeerOfPeer
<1>15. mode' \in Modes
  BY <1>1 DEF IInv
<1> QED
  BY <1>1, <1>10, <1>14, <1>15 DEF IInv

(* What the invariant says of an endpoint and its peer.                    *)
LEMMA Both ==
  ASSUME IInv, NEW e \in Endpoints
  PROVE  /\ Sound(mode, e, conn[e], conn[Peer(e)]) /\ Sound(mode, Peer(e), conn[Peer(e)], conn[e])
         /\ mode \in ModeSpace /\ conn[e] \in SSL /\ net[e] \in Seq(Records)
         /\ \A i \in DOMAIN net[e] : Arrives(mode, Peer(e), conn[Peer(e)], net[e][i])
         /\ faults \in 0 .. MaxFaults /\ MaxFaults \in Nat
BY PeerOfPeer, DtlsAssumption DEF IInv

(* A flight is written.                                                    *)
LEMMA SendFlightStep ==
  ASSUME IInv, NEW e \in Endpoints, SendFlight(e)
  PROVE  IInv'
<1>1. conn[e].failed = "no" /\ Writing(conn[e])
  BY DEF SendFlight, Alive
<1>2. /\ Sound(mode, e, WriteFlight(conn[e]), conn[Peer(e)])
      /\ Onward(conn[e], WriteFlight(conn[e]))
  BY <1>1, Both, FlightSound
<1>3. Become(e, WriteFlight(conn[e]), net[e]) /\ faults' \in 0 .. MaxFaults
  BY Both DEF SendFlight
<1> QED
  BY <1>2, <1>3, Both, BecomeSound

(* A queue loses a message.                                                *)
LEMMA Dequeued ==
  ASSUME NEW md, NEW e \in Endpoints, NEW s, NEW p, Sound(md, e, s, p), NEW m
  PROVE  /\ LET t == [s EXCEPT !.buffered = s.buffered \ {m}]
            IN Sound(md, e, t, p) /\ Onward(s, t) /\ AllBut(s, t, {"buffered"})
         /\ LET t == [s EXCEPT !.unprocessed = s.unprocessed \ {m}]
            IN Sound(md, e, t, p) /\ Onward(s, t) /\ AllBut(s, t, {"unprocessed"})
         /\ LET t == [s EXCEPT !.appQueue = s.appQueue \ {m}]
            IN Sound(md, e, t, p) /\ Onward(s, t) /\ AllBut(s, t, {"appQueue"})
<1>0. s \in SSL
  BY DEF Sound, Core
<1>1. LET t == [s EXCEPT !.buffered = s.buffered \ {m}]
      IN Sound(md, e, t, p) /\ Onward(s, t) /\ AllBut(s, t, {"buffered"})
  <2> DEFINE q == s.buffered \ {m}
             t == [s EXCEPT !.buffered = q]
  <2> SUFFICES Sound(md, e, t, p) /\ Onward(s, t) /\ AllBut(s, t, {"buffered"})
    OBVIOUS
  <2>1. q \in SUBSET Records
    BY <1>0 DEF SSL
  <2>2. q \subseteq s.buffered
    OBVIOUS
  <2> HIDE DEF q
  <2>3. t \in SSL /\ AllBut(s, t, {"buffered"}) /\ t.buffered = q
    BY <1>0, <2>1, Retyped
  <2> HIDE DEF t
  <2>4. /\ t.read = s.read /\ t.bitmap = s.bitmap /\ t.readEpoch = s.readEpoch
        /\ t.appQueue = s.appQueue /\ t.unprocessed = s.unprocessed /\ t.st = s.st
    BY <1>0, <2>3, FieldsOf DEF AllBut
  <2>5. ReadOnce(t)
    BY <2>4 DEF Sound, Core, ReadOnce
  <2>6. Peers(md, e, t, p)
    BY <2>2, <2>3, <2>4 DEF Sound, Core, Peers
  <2>7. AllBut(s, t, Inbox)
    BY <2>3 DEF AllBut, Inbox
  <2> QED
    BY <2>3, <2>5, <2>6, <2>7, InboxFrame
<1>2. LET t == [s EXCEPT !.unprocessed = s.unprocessed \ {m}]
      IN Sound(md, e, t, p) /\ Onward(s, t) /\ AllBut(s, t, {"unprocessed"})
  <2> DEFINE q == s.unprocessed \ {m}
             t == [s EXCEPT !.unprocessed = q]
  <2> SUFFICES Sound(md, e, t, p) /\ Onward(s, t) /\ AllBut(s, t, {"unprocessed"})
    OBVIOUS
  <2>1. q \in SUBSET Records
    BY <1>0 DEF SSL
  <2>2. q \subseteq s.unprocessed
    OBVIOUS
  <2> HIDE DEF q
  <2>3. t \in SSL /\ AllBut(s, t, {"unprocessed"}) /\ t.unprocessed = q
    BY <1>0, <2>1, Retyped
  <2> HIDE DEF t
  <2>4. /\ t.read = s.read /\ t.bitmap = s.bitmap /\ t.readEpoch = s.readEpoch
        /\ t.appQueue = s.appQueue /\ t.buffered = s.buffered /\ t.st = s.st
    BY <1>0, <2>3, FieldsOf DEF AllBut
  <2>5. ReadOnce(t)
    BY <2>4 DEF Sound, Core, ReadOnce
  <2>6. Peers(md, e, t, p)
    BY <2>2, <2>3, <2>4 DEF Sound, Core, Peers
  <2>7. AllBut(s, t, Inbox)
    BY <2>3 DEF AllBut, Inbox
  <2> QED
    BY <2>3, <2>5, <2>6, <2>7, InboxFrame
<1>3. LET t == [s EXCEPT !.appQueue = s.appQueue \ {m}]
      IN Sound(md, e, t, p) /\ Onward(s, t) /\ AllBut(s, t, {"appQueue"})
  <2> DEFINE q == s.appQueue \ {m}
             t == [s EXCEPT !.appQueue = q]
  <2> SUFFICES Sound(md, e, t, p) /\ Onward(s, t) /\ AllBut(s, t, {"appQueue"})
    OBVIOUS
  <2>1. q \in SUBSET Records
    BY <1>0 DEF SSL
  <2>2. q \subseteq s.appQueue
    OBVIOUS
  <2> HIDE DEF q
  <2>3. t \in SSL /\ AllBut(s, t, {"appQueue"}) /\ t.appQueue = q
    BY <1>0, <2>1, Retyped
  <2> HIDE DEF t
  <2>4. /\ t.read = s.read /\ t.bitmap = s.bitmap /\ t.readEpoch = s.readEpoch
        /\ t.unprocessed = s.unprocessed /\ t.buffered = s.buffered /\ t.st = s.st
    BY <1>0, <2>3, FieldsOf DEF AllBut
  <2>5. ReadOnce(t)
    <3>1. s.appQueue = {} => q = {}
      BY <2>2
    <3> QED
      BY <2>2, <2>3, <2>4, <3>1 DEF Sound, Core, ReadOnce
  <2>6. Peers(md, e, t, p)
    BY <2>4 DEF Sound, Core, Peers
  <2>7. AllBut(s, t, Inbox)
    BY <2>3 DEF AllBut, Inbox
  <2> QED
    BY <2>3, <2>5, <2>6, <2>7, InboxFrame
<1> QED
  BY <1>1, <1>2, <1>3

(* A message that came too early is next.                                  *)
LEMMA TakeBufferedStep ==
  ASSUME IInv, NEW e \in Endpoints, TakeBuffered(e)
  PROVE  IInv'
<1> DEFINE s == conn[e]
           p == conn[Peer(e)]
           b == CHOOSE b \in TurnOf(s) : TRUE
           t == [s EXCEPT !.buffered = s.buffered \ {b}]
<1>0. Sound(mode, e, s, p) /\ s \in SSL /\ mode \in ModeSpace
  BY Both
<1>1. s.failed = "no" /\ ~Writing(s) /\ InInit(s) /\ TurnOf(s) # {}
  BY DEF TakeBuffered, Alive, HasBuffered
<1>2. b \in TurnOf(s)
  BY <1>1
<1>3. Become(e, Consume(t, b), net[e]) /\ faults' \in 0 .. MaxFaults
  BY Both DEF TakeBuffered
<1> HIDE DEF b
<1>4. b \in s.buffered /\ b.seq = s.readSeq
  BY <1>2 DEF TurnOf
<1>5. Sound(mode, e, t, p) /\ Onward(s, t) /\ AllBut(s, t, {"buffered"})
  BY <1>0, Dequeued
<1> HIDE DEF t
<1>6. t.failed = s.failed /\ t.st = s.st /\ t.readSeq = s.readSeq /\ t.readEpoch = s.readEpoch
  BY <1>0, <1>5, FieldsOf DEF AllBut
<1>7. /\ b \in Records /\ Arrives(mode, Peer(e), p, b) /\ IsHandshake(b)
      /\ b.epoch = 1 => t.readEpoch = 1
  BY <1>0, <1>4, <1>6 DEF SSL, Sound, Core, Peers
<1>8. InInit(t) /\ ~Writing(t) /\ IsNext(t, b) /\ t.failed = "no"
  BY <1>1, <1>4, <1>6 DEF InInit, Writing, IsNext
<1> HIDE DEF s, p
<1>9. Sound(mode, e, Consume(t, b), p) /\ Onward(t, Consume(t, b))
  BY <1>0, <1>5, <1>7, <1>8, ConsumeSound
<1>10. Onward(s, Consume(t, b))
  BY <1>5, <1>9 DEF Onward
<1> QED
  BY <1>3, <1>9, <1>10, Both, BecomeSound DEF s, p

(* A record kept for its epoch.                                            *)
LEMMA TakeUnprocessedStep ==
  ASSUME IInv, NEW e \in Endpoints, TakeUnprocessed(e)
  PROVE  IInv'
<1> DEFINE s == conn[e]
           p == conn[Peer(e)]
           r == Lowest(s.unprocessed)
           t == [s EXCEPT !.unprocessed = s.unprocessed \ {r}]
<1>0. Sound(mode, e, s, p) /\ s \in SSL /\ mode \in ModeSpace
  BY Both
<1>1. s.failed = "no" /\ ~Writing(s) /\ s.readEpoch = 1 /\ s.unprocessed # {}
  BY DEF TakeUnprocessed, Alive, Reading, HasUnprocessed
<1>2. r \in s.unprocessed /\ r \in Records
  BY <1>0, <1>1, LowestIn DEF SSL
<1>3. Become(e, Process(e, t, r), net[e]) /\ faults' \in 0 .. MaxFaults
  BY Both DEF TakeUnprocessed
<1> HIDE DEF r
<1>4. Sound(mode, e, t, p) /\ Onward(s, t) /\ AllBut(s, t, {"unprocessed"})
  BY <1>0, Dequeued
<1> HIDE DEF t
<1>5. t.failed = s.failed /\ t.st = s.st /\ t.readEpoch = s.readEpoch
  BY <1>0, <1>4, FieldsOf DEF AllBut
<1>6. Arrives(mode, Peer(e), p, r) /\ r.type \notin {"CCS", "APP"}
  BY <1>0, <1>2 DEF Sound, Core, Peers
<1>7. Ready(mode, e, t, p, r) /\ ~Writing(t) /\ t.failed = "no"
  BY <1>1, <1>5, <1>6 DEF Ready, Writing
<1> HIDE DEF s, p
<1>8. Sound(mode, e, Process(e, t, r), p) /\ Onward(t, Process(e, t, r))
  BY <1>0, <1>2, <1>4, <1>7, ProcessSound
<1>9. Onward(s, Process(e, t, r))
  BY <1>4, <1>8 DEF Onward
<1> QED
  BY <1>3, <1>8, <1>9, Both, BecomeSound DEF s, p

(* Application data kept until the Finished.                               *)
LEMMA TakeAppStep ==
  ASSUME IInv, NEW e \in Endpoints, TakeApp(e)
  PROVE  IInv'
<1> DEFINE s == conn[e]
           p == conn[Peer(e)]
           r == Lowest(s.appQueue)
           t == [s EXCEPT !.appQueue = s.appQueue \ {r}]
<1>0. Sound(mode, e, s, p) /\ s \in SSL /\ mode \in ModeSpace
  BY Both
<1>1. s.failed = "no" /\ s.st = "OK" /\ s.appQueue # {}
  BY DEF TakeApp, Alive, HasAppQueue, InInit
<1>2. r \in s.appQueue /\ r \in Records
  BY <1>0, <1>1, LowestIn DEF SSL
<1>3. Become(e, Process(e, t, r), net[e]) /\ faults' \in 0 .. MaxFaults
  BY Both DEF TakeApp
<1> HIDE DEF r, s, p
<1>4. /\ Sound(mode, e, t, p) /\ Onward(s, t) /\ AllBut(s, t, {"appQueue"})
      /\ t.appQueue = s.appQueue \ {r}
  <2>1. Sound(mode, e, t, p) /\ Onward(s, t) /\ AllBut(s, t, {"appQueue"})
    BY <1>0, Dequeued
  <2>2. t.appQueue = s.appQueue \ {r}
    BY <1>0 DEF SSL
  <2> QED
    BY <2>1, <2>2
<1> HIDE DEF t
<1>5. /\ t.failed = s.failed /\ t.st = s.st /\ t.readEpoch = s.readEpoch
      /\ t.read = s.read /\ t.bitmap = s.bitmap
  BY <1>0, <1>4, FieldsOf DEF AllBut
<1>6. s.readEpoch = 1 /\ ReadOnce(s)
  BY <1>0, <1>1 DEF Sound, Core, Epochs, ReadFin
<1>7. r.type \in {"APP", "ALERT"}
  BY <1>2, <1>6 DEF ReadOnce
<1>8. r.type = "APP" => Unread(t, r.rseq)
  BY <1>2, <1>4, <1>5, <1>6 DEF ReadOnce, Unread
<1>9. Ready(mode, e, t, p, r)
  BY <1>5, <1>6, <1>7, <1>8 DEF Ready, IsHandshake
<1>10. ~Writing(t) /\ t.failed = "no"
  BY <1>1, <1>5 DEF Writing
<1>11. Sound(mode, e, Process(e, t, r), p) /\ Onward(t, Process(e, t, r))
  BY <1>0, <1>2, <1>4, <1>9, <1>10, ProcessSound
<1>12. Onward(s, Process(e, t, r))
  BY <1>4, <1>11 DEF Onward
<1> QED
  BY <1>3, <1>11, <1>12, Both, BecomeSound DEF s, p

(* A datagram arrives.                                                     *)
LEMMA ReceiveStep ==
  ASSUME IInv, NEW e \in Endpoints, Receive(e)
  PROVE  IInv'
<1> DEFINE s == conn[e]
           p == conn[Peer(e)]
           ns == net[e]
<1>0. /\ Sound(mode, e, s, p) /\ Sound(mode, Peer(e), p, s) /\ mode \in ModeSpace
      /\ ns \in Seq(Records) /\ \A i \in DOMAIN ns : Arrives(mode, Peer(e), p, ns[i])
  BY Both
<1>1. PICK i \in DOMAIN ns, copy \in BOOLEAN :
        LET cost == (IF i = 1 THEN 0 ELSE 1) + (IF copy THEN 1 ELSE 0)
        IN /\ Alive(e) /\ Blocked(s)
           /\ faults + cost <= MaxFaults
           /\ Become(e, GetRecord(e, s, ns[i]), IF copy THEN ns ELSE RemoveAt(ns, i))
           /\ faults' = faults + cost
  BY DEF Receive
<1> DEFINE left == IF copy THEN ns ELSE RemoveAt(ns, i)
           g == GetRecord(e, s, ns[i])
<1>2. s.failed = "no" /\ ~Writing(s) /\ Become(e, g, left)
  BY <1>1 DEF Alive, Blocked, Reading
<1>3. faults' \in 0 .. MaxFaults
  <2> DEFINE cost == (IF i = 1 THEN 0 ELSE 1) + (IF copy THEN 1 ELSE 0)
  <2>1. cost \in Nat
    OBVIOUS
  <2>2. faults + cost <= MaxFaults /\ faults' = faults + cost
    BY <1>1
  <2> HIDE DEF cost
  <2> QED
    BY <2>1, <2>2, Both
<1> HIDE DEF s, p, ns
<1>4. left \in Seq(Records) /\ \A j \in DOMAIN left : Arrives(mode, Peer(e), p, left[j])
  BY <1>0, Removed
<1>5. ns[i] \in Records /\ Arrives(mode, Peer(e), p, ns[i])
  BY <1>0, ElementOfSeq, LenProperties
<1>6. Sound(mode, e, g, p) /\ Onward(s, g)
  BY <1>0, <1>2, <1>5, GetRecordSound
<1> HIDE DEF g, left
<1> QED
  BY <1>2, <1>3, <1>4, <1>6, BecomeSound DEF s, p

(* A timer expires.                                                        *)
LEMMA TimeoutStep ==
  ASSUME IInv, NEW e \in Endpoints, Timeout(e)
  PROVE  IInv'
<1>1. Become(e, CheckedRetransmit(conn[e]), net[e])
  BY DEF Timeout
<1>2. faults' \in 0 .. MaxFaults
  <2> DEFINE early == \/ \E q \in Endpoints : net[q] # <<>>
                      \/ conn[Peer(e)].timer /\ conn[Peer(e)].tries < conn[e].tries
  <2>1. (early => faults < MaxFaults) /\ faults' = IF early THEN faults + 1 ELSE faults
    BY DEF Timeout
  <2> HIDE DEF early
  <2>2. CASE early
    BY <2>1, <2>2, Both
  <2>3. CASE ~early
    BY <2>1, <2>3, Both
  <2> QED
    BY <2>2, <2>3
<1>3. /\ Sound(mode, e, CheckedRetransmit(conn[e]), conn[Peer(e)])
      /\ Onward(conn[e], CheckedRetransmit(conn[e]))
  BY Both, CheckedRetransmitSound
<1> QED
  BY <1>1, <1>2, <1>3, Both, BecomeSound

(* SSL_write.                                                              *)
LEMMA WriteAppStep ==
  ASSUME IInv, NEW e \in Endpoints, WriteApp(e)
  PROVE  IInv'
<1> DEFINE s == conn[e]
           p == conn[Peer(e)]
           d == [type |-> "APP", seq |-> 0, epoch |-> s.writeEpoch, digest |-> <<>>]
           ms == <<d>>
           t == Put(s, ms)
           yes == TRUE
           u == [t EXCEPT !.wrote = yes]
<1>0. Sound(mode, e, s, p) /\ s \in SSL
  BY Both
<1>1. Become(e, u, net[e]) /\ faults' \in 0 .. MaxFaults /\ s.st = "OK"
  BY Both DEF WriteApp, InInit
<1>2. s.writeEpoch = 1
  BY <1>0, <1>1 DEF Sound, Core, Epochs, WroteFin
<1>3. d \in Kept /\ d.type = "APP" /\ d.epoch = 1
  BY <1>2, NoneIn DEF Kept, Types
<1> HIDE DEF d
<1>4. ms \in Seq(Kept) /\ DOMAIN ms = {1} /\ ms[1] = d
  BY <1>3
<1> HIDE DEF ms
<1>5. \A i \in DOMAIN ms : Arrives(mode, e, s, ms[i])
  BY <1>3, <1>4 DEF Arrives, Good, Reached, IsHandshake
<1>6. /\ Core(mode, e, t, p) /\ Placed(mode, e, t) /\ Onward(s, t)
  BY <1>0, <1>4, <1>5, PutSound DEF Sound
<1>7. t \in SSL
  BY <1>6 DEF Core
<1> HIDE DEF t, s, p
<1>8. yes \in BOOLEAN
  OBVIOUS
<1> HIDE DEF yes
<1>9. u \in SSL /\ AllBut(t, u, {"wrote"})
  BY <1>7, <1>8 DEF SSL, AllBut
<1> HIDE DEF u
<1>10. /\ CoreSame(t, u) /\ PlaceSame(t, u) /\ u.failed = t.failed /\ u.st = t.st
       /\ u.writeEpoch = t.writeEpoch /\ u.wbio = t.wbio
  BY <1>7, <1>9, FieldsOf DEF AllBut, CoreSame, PlaceSame
<1>11. Blameless(mode, u) /\ Writes(mode, e, u)
  BY <1>6, <1>10 DEF Core, Blameless, Writes, Arrives, Reached
<1>12. Core(mode, e, u, p) /\ Onward(t, u)
  BY <1>6, <1>9, <1>10, <1>11, CoreFrame
<1>13. Placed(mode, e, u)
  BY <1>6, <1>10, PlaceFrame
<1>14. Onward(s, u)
  BY <1>6, <1>12 DEF Onward
<1> QED
  BY <1>1, <1>12, <1>13, <1>14, Both, BecomeSound DEF Sound, s, p

(* A datagram is lost.                                                     *)
LEMMA LoseStep ==
  ASSUME IInv, NEW e \in Endpoints, Lose(e)
  PROVE  IInv'
<1>1. PICK i \in DOMAIN net[e] : net' = [net EXCEPT ![e] = RemoveAt(net[e], i)]
  BY DEF Lose
<1> DEFINE left == RemoveAt(net[e], i)
<1>2. /\ left \in Seq(Records)
      /\ \A j \in DOMAIN left : \E k \in DOMAIN net[e] : left[j] = net[e][k]
  BY Both, Removed
<1>3. mode' = mode /\ conn' = conn /\ faults' = faults + 1 /\ faults < MaxFaults
  BY DEF Lose
<1>4. net' = [net EXCEPT ![e] = left]
  BY <1>1
<1> HIDE DEF left
<1>5. /\ net' \in [Endpoints -> Seq(Records)] /\ net'[e] = left
      /\ \A x \in Endpoints : x # e => net'[x] = net[x]
  BY <1>2, <1>4 DEF IInv
<1>6. \A x \in Endpoints : \A j \in DOMAIN net'[x] : \E k \in DOMAIN net[x] : net'[x][j] = net[x][k]
  BY <1>2, <1>5
<1>7. faults' \in 0 .. MaxFaults
  BY <1>3, Both
<1>8. \A x \in Endpoints : \A j \in DOMAIN net'[x] :
        Arrives(mode, Peer(x), conn[Peer(x)], net'[x][j])
  BY <1>6 DEF IInv
<1> QED
  BY <1>3, <1>5, <1>7, <1>8 DEF IInv

(* Two fresh SSL objects.                                                  *)
LEMMA FreshIs ==
  ASSUME NEW st \in {"CW_CLNT_HELLO", "SR_CLNT_HELLO"}
  PROVE  LET s == Fresh(st)
         IN /\ s \in SSL /\ s.st = st /\ s.failed = "no" /\ s.sendCookie = FALSE
            /\ s.readSeq = 0 /\ s.nextSeq = 0 /\ s.buffered = {} /\ s.sent = <<>>
            /\ s.readEpoch = 0 /\ s.writeEpoch = 0 /\ s.unprocessed = {} /\ s.ccs = FALSE
            /\ s.transcript = <<>> /\ s.appQueue = {} /\ s.read = <<>> /\ s.wbio = <<>>
<1> DEFINE none == <<>>
           wseq == [ep \in 0 .. 1 |-> 0]
           nr == NoRecords
           why == "no"
           zero == 0
           no == FALSE
           nil == {}
           s == [st |-> st, failed |-> why, sendCookie |-> no,
                 readSeq |-> zero, nextSeq |-> zero, buffered |-> nil, sent |-> none,
                 readEpoch |-> zero, writeEpoch |-> zero, wseq |-> wseq,
                 bitmap |-> nr, nextBitmap |-> nr, unprocessed |-> nil,
                 ccs |-> no, peerFin |-> none, transcript |-> none,
                 timer |-> no, tries |-> zero, appQueue |-> nil, wrote |-> no, read |-> none,
                 wbio |-> none]
<1>1. Fresh(st) = s
  BY DEF Fresh
<1>2. none \in Seq(Kept) /\ none \in Seq(Types) /\ none \in Seq(Nat) /\ none \in Seq(Records)
  BY NoneIn
<1>3. /\ wseq \in [0 .. 1 -> Nat] /\ nr \in Bitmaps /\ why \in Reasons /\ zero \in Nat
      /\ zero \in 0 .. 1 /\ no \in BOOLEAN /\ nil \in SUBSET Records /\ st \in States
  BY DEF NoRecords, Bitmaps, Reasons, States
<1>4. why = "no" /\ zero = 0 /\ no = FALSE /\ nil = {} /\ none = <<>>
  OBVIOUS
<1> HIDE DEF none, wseq, nr, why, zero, no, nil
<1>5. s \in SSL
  BY <1>2, <1>3 DEF SSL
<1>6. /\ s.st = st /\ s.failed = why /\ s.sendCookie = no
      /\ s.readSeq = zero /\ s.nextSeq = zero /\ s.buffered = nil /\ s.sent = none
      /\ s.readEpoch = zero /\ s.writeEpoch = zero /\ s.unprocessed = nil /\ s.ccs = no
      /\ s.transcript = none /\ s.appQueue = nil /\ s.read = none /\ s.wbio = none
  OBVIOUS
<1> HIDE DEF s
<1> QED
  BY <1>1, <1>4, <1>5, <1>6

(* A fresh SSL object is sound, whatever its peer.                         *)
LEMMA FreshSound ==
  ASSUME NEW md \in ModeSpace, NEW e \in Endpoints, NEW s, NEW p,
         s = Fresh(IF e = "client" THEN "CW_CLNT_HELLO" ELSE "SR_CLNT_HELLO")
  PROVE  s \in SSL /\ Sound(md, e, s, p) /\ s.wbio = <<>>
<1> DEFINE st == IF e = "client" THEN "CW_CLNT_HELLO" ELSE "SR_CLNT_HELLO"
<1>1. st \in {"CW_CLNT_HELLO", "SR_CLNT_HELLO"}
  OBVIOUS
<1>2. /\ s \in SSL /\ s.st = st /\ s.failed = "no" /\ s.sendCookie = FALSE
      /\ s.readSeq = 0 /\ s.nextSeq = 0 /\ s.buffered = {} /\ s.sent = <<>>
      /\ s.readEpoch = 0 /\ s.writeEpoch = 0 /\ s.unprocessed = {} /\ s.ccs = FALSE
      /\ s.transcript = <<>> /\ s.appQueue = {} /\ s.read = <<>> /\ s.wbio = <<>>
  BY <1>1, FreshIs
<1>3. DOMAIN <<>> = {}
  OBVIOUS
<1>4. s.st \in StatesOf(md, e)
  BY <1>2 DEF StatesOf, ClientStates, ServerStates
<1>5. Epochs(md, e, s)
  BY <1>2 DEF Epochs, WroteFin, ReadFin
<1>6. SentOk(md, e, s)
  BY <1>2, <1>3 DEF SentOk
<1>7. ReadOnce(s)
  BY <1>2, <1>3 DEF ReadOnce
<1>8. Blameless(md, s) /\ Writes(md, e, s)
  BY <1>2, <1>3 DEF Blameless, Writes
<1>9. Peers(md, e, s, p)
  BY <1>2 DEF Peers, Answered
<1>10. Numbers(md, e, s)
  BY <1>2 DEF Numbers, One
<1>11. Timers(s)
  BY <1>2 DEF Timers
<1>12. Transcript(md, e, s)
  BY <1>2 DEF Transcript
<1> QED
  BY <1>2, <1>4, <1>5, <1>6, <1>7, <1>8, <1>9, <1>10, <1>11, <1>12 DEF Sound, Core, Placed

(* The invariant holds initially.                                          *)
LEMMA InitSound == Init => IInv
<1> SUFFICES ASSUME Init PROVE IInv
  OBVIOUS
<1>1. /\ mode \in Modes /\ mode \in ModeSpace /\ faults \in 0 .. MaxFaults
      /\ net = [e \in Endpoints |-> <<>>]
      /\ conn = [e \in Endpoints |-> Fresh(IF e = "client" THEN "CW_CLNT_HELLO"
                                                           ELSE "SR_CLNT_HELLO")]
  BY DtlsAssumption DEF Init
<1>2. \A e \in Endpoints : conn[e] \in SSL /\ conn[e].wbio = <<>>
                           /\ Sound(mode, e, conn[e], conn[Peer(e)])
  BY <1>1, FreshSound
<1>3. conn \in [Endpoints -> SSL]
  BY <1>1, <1>2
<1>4. net \in [Endpoints -> Seq(Records)] /\ \A e \in Endpoints : DOMAIN net[e] = {}
  BY <1>1, NoneIn
<1> QED
  BY <1>1, <1>2, <1>3, <1>4 DEF IInv

(* The invariant is kept.                                                  *)
LEMMA NextSound == IInv /\ [Next]_vars => IInv'
<1> SUFFICES ASSUME IInv, [Next]_vars PROVE IInv'
  OBVIOUS
<1>1. CASE UNCHANGED vars
  BY <1>1 DEF vars, IInv
<1>2. CASE Over
  BY <1>2 DEF Over, vars, IInv
<1>3. ASSUME NEW e \in Endpoints, Step(e) PROVE IInv'
  BY <1>3, SendFlightStep, TakeBufferedStep, TakeUnprocessedStep, TakeAppStep, ReceiveStep,
     TimeoutStep, WriteAppStep, LoseStep DEF Step
<1> QED
  BY <1>1, <1>2, <1>3 DEF Next

(* Whatever the network does, each endpoint of a handshake of any kind is  *)
(* where the peer's messages can have brought it (ssl3_connect,            *)
(* ssl3_accept).                                                           *)
THEOREM HandshakeInv == Spec => []IInv
BY InitSound, NextSound, PTL DEF Spec

------------------------------------------------------------------------------
(* What follows.                                                           *)

(* The members of a sequence.                                              *)
LEMMA Members ==
  ASSUME NEW S, NEW s \in Seq(S)
  PROVE  ToSet(s) \subseteq S /\ \A x \in ToSet(s) : \E i \in DOMAIN s : x = s[i]
BY LenProperties, ElementOfSeq DEF ToSet

(* The members of a longer sequence.                                       *)
LEMMA InAppended ==
  ASSUME NEW S, NEW s \in Seq(S), NEW a \in S
  PROVE  ToSet(s) \subseteq ToSet(Append(s, a)) /\ a \in ToSet(Append(s, a))
BY LenProperties, AppendProperties DEF ToSet

(* The variables keep their types (struct ssl_st).                         *)
THEOREM TypesHold == Spec => []TypeOK
<1>1. IInv => TypeOK
  <2> SUFFICES ASSUME IInv PROVE TypeOK
    OBVIOUS
  <2>1. ASSUME NEW e \in Endpoints
        PROVE  /\ conn[e].st \in States
               /\ {conn[e].readSeq, conn[e].nextSeq, conn[e].tries} \subseteq Nat
               /\ {conn[e].readEpoch, conn[e].writeEpoch} \subseteq 0 .. 1
               /\ conn[e].buffered \cup conn[e].unprocessed \cup ToSet(net[e]) \subseteq Records
               /\ conn[e].transcript \in Seq(Types) /\ conn[e].wbio = <<>>
    <3>1. conn[e] \in SSL /\ net[e] \in Seq(Records) /\ conn[e].wbio = <<>>
      BY DEF IInv
    <3>2. ToSet(net[e]) \subseteq Records
      BY <3>1, Members
    <3> QED
      BY <3>1, <3>2 DEF SSL
  <2> QED
    BY <2>1 DEF IInv, TypeOK
<1> QED
  BY <1>1, HandshakeInv, PTL

(* Endpoints that have completed the handshake computed the same           *)
(* transcript (dtls1_get_message, dtls1_do_write).                         *)
THEOREM TranscriptsHold == Spec => []TranscriptsAgree
<1>1. IInv => TranscriptsAgree
  <2> SUFFICES ASSUME IInv, \A e \in Endpoints : ~InInit(conn[e])
               PROVE  conn["client"].transcript = conn["server"].transcript
    BY DEF TranscriptsAgree
  <2>1. ASSUME NEW e \in Endpoints PROVE conn[e].transcript = Everything(mode)
    BY DEF IInv, Sound, Placed, Transcript, InInit
  <2> QED
    BY <2>1 DEF Endpoints
<1> QED
  BY <1>1, HandshakeInv, PTL

(* A message is sent under the epoch it was first sent in                  *)
(* (dtls1_retransmit_message).                                             *)
THEOREM EpochsHold == Spec => []EpochsKept
<1>1. IInv => EpochsKept
  <2> SUFFICES ASSUME IInv, NEW e \in Endpoints, NEW r \in ToSet(net[e])
               PROVE  /\ r.epoch = 1 => r.type \in {"FIN", "APP", "ALERT"}
                      /\ r.epoch = 0 => r.type \notin {"FIN", "APP"}
    BY DEF EpochsKept
  <2>1. net[e] \in Seq(Records)
    BY DEF IInv
  <2>2. PICK i \in DOMAIN net[e] : r = net[e][i]
    BY <2>1, Members
  <2>3. Good(mode, Peer(e), r)
    BY <2>2 DEF IInv, Arrives
  <2> QED
    BY <2>3 DEF Good
<1> QED
  BY <1>1, HandshakeInv, PTL

(* The handshake never waits for nothing (dtls1_start_timer,               *)
(* dtls1_stop_timer).                                                      *)
THEOREM TimersHold == Spec => []SomeoneRetransmits
<1>1. IInv => SomeoneRetransmits
  <2> SUFFICES ASSUME IInv,
                      \A e \in Endpoints : Alive(e) /\ Blocked(conn[e]) /\ ~conn[e].timer
               PROVE  \A e \in Endpoints : ~InInit(conn[e])
    BY DEF SomeoneRetransmits
  <2> DEFINE c == conn["client"]
             s == conn["server"]
  <2>0. "client" \in Endpoints /\ "server" \in Endpoints /\ Peer("client") = "server"
        /\ Peer("server") = "client"
    BY DEF Endpoints, Peer
  <2>1. Sound(mode, "client", c, s) /\ Sound(mode, "server", s, c)
    BY <2>0 DEF IInv
  <2>2. c.failed = "no" /\ s.failed = "no" /\ ~Writing(c) /\ ~Writing(s) /\ ~c.timer /\ ~s.timer
    BY <2>0 DEF Alive, Blocked, Reading
  <2> HIDE DEF c, s
  <2>3. Timers(c) /\ Timers(s)
    BY <2>1, <2>2 DEF Sound, Placed
  <2>4. c.st \in ClientStates(mode) /\ s.st \in ServerStates(mode)
    BY <2>1 DEF Sound, Core, StatesOf
  <2>5. c.st \in {"CR_CERT_REQ", "CR_SRVR_DONE", "OK"}
    <3>1. c.st \in {"CW_CLNT_HELLO", "CR_SRVR_HELLO", "CR_FINISHED", "OK", "CW_CHANGE", "CR_CERT",
                    "CR_CERT_REQ", "CW_CERT", "CR_SRVR_DONE", "CR_SESSION_TICKET"}
      BY <2>4 DEF ClientStates
    <3> QED
      BY <2>2, <2>3, <3>1 DEF Timers, Writing
  <2>6. s.st \in {"SR_CLNT_HELLO", "OK"}
    <3>1. s.st \in {"SR_CLNT_HELLO", "SW_SRVR_HELLO", "OK", "SW_HELLO_VERIFY", "SR_FINISHED",
                    "SR_CERT", "SR_KEY_EXCH", "SR_CERT_VRFY", "SW_CHANGE"}
      BY <2>4 DEF ServerStates
    <3> QED
      BY <2>2, <2>3, <3>1 DEF Timers, Writing
  <2>7. s.st = "OK"
    BY <2>1, <2>5, <2>6 DEF Sound, Core, Peers, Answered, Helloed
  <2>8. s.readEpoch = 1
    BY <2>1, <2>7 DEF Sound, Core, Epochs, ReadFin
  <2>9. c.writeEpoch = 1
    BY <2>1, <2>8 DEF Sound, Core, Peers
  <2>10. WroteFin(mode, "client", c.st)
    BY <2>1, <2>9 DEF Sound, Core, Epochs
  <2>11. c.st = "OK"
    BY <2>5, <2>10 DEF WroteFin
  <2> QED
    BY <2>7, <2>11 DEF c, s, InInit, Endpoints
<1> QED
  BY <1>1, HandshakeInv, PTL

(* A datagram of application data is read once (dtls1_record_replay_check, *)
(* dtls1_reset_read_seq_numbers).                                          *)
THEOREM ReadOnceHolds == Spec => []DataReadOnce
<1>1. IInv => DataReadOnce
  <2> SUFFICES ASSUME IInv, NEW e \in Endpoints PROVE IsInjective(conn[e].read)
    BY DEF DataReadOnce
  <2>1. ReadOnce(conn[e])
    BY DEF IInv, Sound, Core
  <2> QED
    BY <2>1 DEF ReadOnce, IsInjective
<1> QED
  BY <1>1, HandshakeInv, PTL

(* An endpoint that reads under the new keys has taken what its peer wrote *)
(* before, in a handshake with neither client certificate nor a ticket for *)
(* a resumed session (ssl3_read_change_cipher_spec).                       *)
THEOREM CcsHolds ==
  ASSUME \A md \in Modes : ~md.cert /\ ~(md.hit /\ md.ticket)
  PROVE  Spec => []CcsInOrder
<1>1. IInv => CcsInOrder
  <2> SUFFICES ASSUME IInv, NEW e \in Endpoints, conn[e].readEpoch = 1, conn[e].failed = "no",
                      InInit(conn[e]), NEW m \in ToSet(conn[Peer(e)].sent),
                      m.epoch = 0, m.type # "CCS"
               PROVE  m.type \in ToSet(conn[e].transcript)
    BY DEF CcsInOrder
  <2> DEFINE s == conn[e]
             p == conn[Peer(e)]
  <2>0. /\ Sound(mode, e, s, p) /\ Sound(mode, Peer(e), p, s) /\ s \in SSL /\ p \in SSL
        /\ mode \in ModeSpace /\ ~mode.cert /\ ~(mode.hit /\ mode.ticket)
    BY Both, PeerOfPeer DEF IInv
  <2>1. p.writeEpoch = 1
    BY <2>0 DEF Sound, Core, Peers
  <2>2. PICK i \in DOMAIN p.sent : m = p.sent[i]
    BY <2>0, Members DEF SSL
  <2>3. Good(mode, Peer(e), m) /\ m.type \in LastFlight(mode, Peer(e))
    BY <2>0, <2>1, <2>2 DEF Sound, Core, SentOk
  <2>4. m.type # "FIN" /\ Says(mode, Peer(e), m.type)
    BY <2>3 DEF Good, IsHandshake, LastFlight
  <2>5. /\ s.transcript \in Seq(Types) /\ Transcript(mode, e, s)
        /\ s.st \in StatesOf(mode, e) /\ (CcsOk(s) \/ ReadFin(s.st)) /\ s.st # "OK"
    BY <2>0 DEF Sound, Core, Placed, SSL, Epochs, InInit
  <2> HIDE DEF s, p
  <2>6. CASE e = "client"
    <3>1. Peer(e) = "server"
      BY <2>6 DEF Peer
    <3>2. CASE mode.hit
      <4>1. m.type = "SH"
        BY <2>0, <2>3, <2>4, <3>1, <3>2 DEF Says, LastFlight
      <4>2. s.st \in {"CR_FINISHED", "CW_CHANGE"}
        BY <2>5, <2>6, <3>2 DEF StatesOf, ClientStates, CcsOk, ReadFin
      <4>3. s.transcript \in {ServerHello(mode), HitServerFin(mode)}
        BY <2>5, <2>6, <3>2, <4>2 DEF Transcript
      <4>4. HitTicket(mode) = ServerHello(mode)
        BY <2>0, <3>2 DEF HitTicket, Grown
      <4>5. "SH" \in ToSet(ServerHello(mode)) /\ "SH" \in ToSet(HitServerFin(mode))
        <5>1. /\ Hello(mode) \in Seq(Types) /\ ServerHello(mode) \in Seq(Types)
              /\ "SH" \in Types /\ "FIN" \in Types
          BY <2>0, Scripts DEF Types
        <5>2. /\ ServerHello(mode) = Append(Hello(mode), "SH")
              /\ HitServerFin(mode) = Append(ServerHello(mode), "FIN")
          BY <4>4 DEF ServerHello, HitServerFin
        <5>3. "SH" \in ToSet(ServerHello(mode))
          BY <5>1, <5>2, InAppended
        <5>4. ToSet(ServerHello(mode)) \subseteq ToSet(HitServerFin(mode))
          BY <5>1, <5>2, InAppended
        <5> QED
          BY <5>3, <5>4
      <4> QED
        BY <4>1, <4>3, <4>5 DEF s
    <3>3. CASE ~mode.hit
      <4>1. m.type = "NST" /\ mode.ticket
        BY <2>3, <2>4, <3>1, <3>3 DEF Says, LastFlight
      <4>2. s.st = "CR_FINISHED"
        BY <2>0, <2>5, <2>6, <3>3 DEF StatesOf, ClientStates, CcsOk, ReadFin
      <4>3. s.transcript = Append(ClientFin(mode), "NST")
        BY <2>5, <2>6, <3>3, <4>1, <4>2 DEF Transcript, NewTicket, Grown
      <4>4. "NST" \in ToSet(s.transcript)
        BY <2>0, <4>3, Scripts, InAppended DEF Types
      <4> QED
        BY <4>1, <4>4 DEF s
    <3> QED
      BY <3>2, <3>3
  <2>7. CASE e = "server"
    <3>1. m.type = "CKE" /\ ~mode.hit
      BY <2>0, <2>3, <2>4, <2>7 DEF Peer, Says, LastFlight
    <3>2. s.st \in {"SR_CERT_VRFY", "SW_CHANGE"}
      BY <2>0, <2>5, <2>7, <3>1 DEF StatesOf, ServerStates, CcsOk, ReadFin
    <3>3. s.transcript \in {KeyExchange(mode), ClientFin(mode)}
      BY <2>5, <2>7, <3>2 DEF Transcript
    <3>4. Verified(mode) = KeyExchange(mode)
      BY <2>0 DEF Verified, Grown
    <3>5. "CKE" \in ToSet(KeyExchange(mode)) /\ "CKE" \in ToSet(ClientFin(mode))
      <4>1. /\ ClientCert(mode) \in Seq(Types) /\ KeyExchange(mode) \in Seq(Types)
            /\ "CKE" \in Types /\ "FIN" \in Types
        BY <2>0, Scripts DEF Types
      <4>2. /\ KeyExchange(mode) = Append(ClientCert(mode), "CKE")
            /\ ClientFin(mode) = Append(KeyExchange(mode), "FIN")
        BY <3>4 DEF KeyExchange, ClientFin
      <4>3. "CKE" \in ToSet(KeyExchange(mode))
        BY <4>1, <4>2, InAppended
      <4>4. ToSet(KeyExchange(mode)) \subseteq ToSet(ClientFin(mode))
        BY <4>1, <4>2, InAppended
      <4> QED
        BY <4>3, <4>4
    <3> QED
      BY <3>1, <3>3, <3>5 DEF s
  <2> QED
    BY <2>6, <2>7 DEF Endpoints
<1> QED
  BY <1>1, HandshakeInv, PTL

\* Before it has completed, an endpoint only gives up when its peer does or when it has
\* retransmitted too often.
OnlyTimeouts ==
  \A e \in Endpoints :
    InInit(conn[e]) => conn[e].failed \in {"no", "PEER_ALERT", "READ_TIMEOUT_EXPIRED"}

(* However many datagrams are lost, duplicated or reordered, no message is *)
(* fatal to a full handshake without a client certificate                  *)
(* (dtls1_get_message_fragment, ssl3_read_change_cipher_spec).             *)
THEOREM OnlyTimeoutsHolds ==
  ASSUME \A md \in Modes : Plain(md)
  PROVE  Spec => []OnlyTimeouts
<1>1. IInv => OnlyTimeouts
  BY DEF IInv, Sound, Core, Blameless, OnlyTimeouts, InInit
<1> QED
  BY <1>1, HandshakeInv, PTL
=============================================================================
