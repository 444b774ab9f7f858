-------------------------------- MODULE Dtls --------------------------------
(***************************************************************************)
(* The DTLS 1.2 handshake of the vendored LibreSSL: a client running       *)
(* ssl3_connect (ssl_clnt.c) and a server running ssl3_accept              *)
(* (ssl_srvr.c) over datagrams that are lost, duplicated and reordered.    *)
(* Message sequencing and retransmission come from d1_both.c and d1_lib.c, *)
(* records, epochs and replay windows from d1_pkt.c.                       *)
(*                                                                         *)
(* An SSL object is a record of the fields of struct ssl_st the handshake  *)
(* depends on.  Each handler is an operator from SSL object to SSL object  *)
(* that collects what it writes in wbio; an action runs one handler of one *)
(* endpoint and hands wbio to the network.                                 *)
(*                                                                         *)
(* Data: a handshake message is its type; a Finished carries the           *)
(* transcript it was computed over in place of its digest.  Messages fit   *)
(* into one record, and a datagram carries one record: so retransmissions  *)
(* are sent, which flush after each message, and flights larger than the   *)
(* MTU.                                                                    *)
(***************************************************************************)
EXTENDS Naturals, Sequences, FiniteSets, SequencesExt

CONSTANTS
  Modes,          \* the handshakes to explore, records of ModeSpace
  Window,         \* sizeof(bitmap->map) * 8
  TmoAlertCount,  \* DTLS1_TMO_ALERT_COUNT
  Writers,        \* the endpoints whose application sends a datagram
  MaxFaults       \* bound on the datagrams lost, delivered twice or overtaking others
                  \* and the timeouts that fire early, together

\* hit: the server finds the session in its cache; cert: it asks for a client
\* certificate; ticket: it issues a session ticket; cookie: whether it demands a
\* cookie, in SSL_accept or from DTLSv1_listen.
ModeSpace == [hit: BOOLEAN, cert: BOOLEAN, ticket: BOOLEAN,
              cookie: {"none", "accept", "listen"}]

ASSUME DtlsAssumption ==
  /\ Modes \subseteq ModeSpace
  /\ {Window, TmoAlertCount} \subseteq Nat \ {0}
  /\ Writers \subseteq {"client", "server"}
  /\ MaxFaults \in Nat

VARIABLES
  mode,     \* the handshake being run
  conn,     \* the two SSL objects
  net,      \* net[e]: the datagrams on their way to e, oldest first
  faults    \* how many faults there have been

vars == <<mode, conn, net, faults>>

Endpoints == {"client", "server"}
Peer(e) == IF e = "client" THEN "server" ELSE "client"

------------------------------------------------------------------------------
(* The SSL object. *)

NoRecords == [max |-> 0, map |-> {}]

Fresh(st) ==
  [st |-> st, failed |-> "no", sendCookie |-> FALSE,
   readSeq |-> 0, nextSeq |-> 0, buffered |-> {}, sent |-> <<>>,
   readEpoch |-> 0, writeEpoch |-> 0, wseq |-> [ep \in 0 .. 1 |-> 0],
   bitmap |-> NoRecords, nextBitmap |-> NoRecords, unprocessed |-> {},
   ccs |-> FALSE, peerFin |-> <<>>, transcript |-> <<>>,
   timer |-> FALSE, tries |-> 0, appQueue |-> {}, wrote |-> FALSE, read |-> <<>>,
   wbio |-> <<>>]

\* The server is inside DTLSv1_listen: sequence numbers stand still.
Listening(s) == mode.cookie = "listen" /\ s.st \in {"SR_CLNT_HELLO", "SW_HELLO_VERIFY"}

InInit(s) == s.st # "OK"

\* Mutant of CcsOk: the client also takes it while the NewSessionTicket is missing.
CcsAnywhere(s) == s.st \in {"CR_SESSION_TICKET", "CR_FINISHED", "SR_CERT_VRFY", "SR_FINISHED"}

\* The handshake waits for a message that the peer's ChangeCipherSpec precedes.
CcsOk(s) == s.st \in {"CR_FINISHED", "SR_CERT_VRFY", "SR_FINISHED"}

\* s->s3->hs.cipher is set by the ServerHello, sent or received.
CipherChosen(s) == s.st \notin {"CR_SRVR_HELLO", "SR_CLNT_HELLO"}

\* dtls1_stop_timer also empties the retransmission queue.
StopTimer(s) == [s EXCEPT !.timer = FALSE, !.tries = 0, !.sent = <<>>]

\* The end of a handshake: sequence numbers start again.
ToState(s, st) ==
  IF st = "OK" THEN [s EXCEPT !.st = st, !.readSeq = 0, !.nextSeq = 0]
               ELSE [s EXCEPT !.st = st]

------------------------------------------------------------------------------
(* Writing. *)

\* do_dtls1_write for each of the messages ms: seal a record with the next sequence
\* number of its epoch.
Put(s, ms) ==
  LET before(i) == {j \in 1 .. i - 1 : ms[j].epoch = ms[i].epoch}
  IN [s EXCEPT
        !.wbio = @ \o [i \in DOMAIN ms |->
                         [type |-> ms[i].type, seq |-> ms[i].seq, epoch |-> ms[i].epoch,
                          digest |-> ms[i].digest,
                          rseq |-> s.wseq[ms[i].epoch] + Cardinality(before(i))]],
        !.wseq = [ep \in DOMAIN @ |->
                    @[ep] + Cardinality({i \in DOMAIN ms : ms[i].epoch = ep})]]

\* A fatal alert ends the connection.
Fail(s, why) ==
  [Put(s, <<[type |-> "ALERT", seq |-> 0, epoch |-> s.writeEpoch, digest |-> <<>>]>>)
     EXCEPT !.failed = why]

When(b, type) == IF b THEN <<type>> ELSE <<>>

\* Write the messages hs, then a CCS and a Finished if it is the end of what there is
\* to say, and keep them all, each with the epoch it was written in, for
\* retransmission.  A CCS takes no sequence number, is not part of the transcript,
\* and is followed by the switch to the next epoch.
Write(s, hs, finish) ==
  LET said == s.transcript \o hs
      kept(type, n, ep, digest) ==
        [type |-> type, seq |-> s.nextSeq + n, epoch |-> ep, digest |-> digest]
      last == IF finish THEN <<kept("CCS", Len(hs), s.writeEpoch, <<>>),
                               kept("FIN", Len(hs), s.writeEpoch + 1, said)>>
                        ELSE <<>>
      ms == [i \in DOMAIN hs |-> kept(hs[i], i - 1, s.writeEpoch, <<>>)] \o last
  IN [Put(s, ms) EXCEPT
        !.sent = @ \o ms,
        !.transcript = said \o When(finish, "FIN"),
        !.writeEpoch = IF finish THEN @ + 1 ELSE @,
        !.nextSeq = IF Listening(s) THEN @ ELSE @ + Len(hs) + (IF finish THEN 1 ELSE 0)]

\* Mutant of Retransmit: under the keys of today.
RetransmitInCurrentEpoch(s) ==
  Put(s, [i \in DOMAIN s.sent |-> [s.sent[i] EXCEPT !.epoch = s.writeEpoch]])

\* Mutant of Retransmit: a retransmitted message enters the transcript again.
RetransmitRecorded(s) ==
  LET types == [i \in DOMAIN s.sent |-> s.sent[i].type]
  IN [Put(s, s.sent) EXCEPT !.transcript = @ \o SelectSeq(types, LAMBDA x : x # "CCS")]

\* dtls1_retransmit_buffered_messages: everything kept, in the epoch it was first
\* written in.
Retransmit(s) == Put(s, s.sent)

\* dtls1_check_timeout_num, then what its callers do with the answer.
CheckedRetransmit(s) ==
  IF s.tries + 1 > TmoAlertCount
  THEN [s EXCEPT !.tries = @ + 1, !.failed = "READ_TIMEOUT_EXPIRED"]
  ELSE Retransmit([s EXCEPT !.tries = @ + 1])

\* What the state machines write from one flush to the next: the messages, whether
\* CCS and Finished follow, whether the timer is started, and the state after
\* SSL3_ST_xW_FLUSH.
Flt(msgs, finish, timer, next) ==
  [msgs |-> msgs, finish |-> finish, timer |-> timer, next |-> next]
Ticket == When(mode.ticket, "NST")

Flight(s) ==
  CASE s.st = "CW_CLNT_HELLO" ->
         Flt(<<IF s.sendCookie THEN "CHC" ELSE "CH">>, FALSE, TRUE, "CR_SRVR_HELLO")
    [] s.st = "CW_CERT" ->
         Flt(When(mode.cert, "CERT") \o <<"CKE">> \o When(mode.cert, "CVFY"), TRUE, TRUE,
             IF mode.ticket THEN "CR_SESSION_TICKET" ELSE "CR_FINISHED")
    [] s.st = "CW_CHANGE" -> Flt(<<>>, TRUE, FALSE, "OK")
    [] s.st = "SW_HELLO_VERIFY" -> Flt(<<"HVR">>, FALSE, FALSE, "SR_CLNT_HELLO")
    [] s.st = "SW_SRVR_HELLO" /\ mode.hit -> Flt(<<"SH">> \o Ticket, TRUE, TRUE, "SR_FINISHED")
    [] s.st = "SW_SRVR_HELLO" /\ ~mode.hit ->
         Flt(<<"SH", "CERT">> \o When(mode.cert, "CREQ") \o <<"SHD">>, FALSE, TRUE,
             IF mode.cert THEN "SR_CERT" ELSE "SR_KEY_EXCH")
    [] s.st = "SW_CHANGE" -> Flt(Ticket, TRUE, FALSE, "OK")

Writing(s) == s.st \in {"CW_CLNT_HELLO", "CW_CERT", "CW_CHANGE", "SW_HELLO_VERIFY",
                        "SW_SRVR_HELLO", "SW_CHANGE"}

\* Mutant of WriteFlight: the client starts its timer for the ClientHello only.
WriteFlightUntimed(s) ==
  LET f == Flight(s)
      t == [s EXCEPT !.timer = @ \/ (f.timer /\ s.st # "CW_CERT"),
                     !.transcript = IF s.st = "CW_CLNT_HELLO" THEN <<>> ELSE @]
      w == Write(t, f.msgs, f.finish)
  IN ToState(IF s.st = "SW_HELLO_VERIFY" THEN [w EXCEPT !.transcript = <<>>] ELSE w, f.next)

\* Write a flight.  Every ClientHello and every HelloVerifyRequest restarts the
\* transcript.
WriteFlight(s) ==
  LET f == Flight(s)
      t == [s EXCEPT !.timer = @ \/ f.timer,
                     !.transcript = IF s.st = "CW_CLNT_HELLO" THEN <<>> ELSE @]
      w == Write(t, f.msgs, f.finish)
  IN ToState(IF s.st = "SW_HELLO_VERIFY" THEN [w EXCEPT !.transcript = <<>>] ELSE w, f.next)

------------------------------------------------------------------------------
(* Handshake messages. *)

\* In which state which message is taken, and the state that follows.
Moves ==
  {<<"CR_SRVR_HELLO", "SH", IF mode.hit THEN "CR_FINISHED" ELSE "CR_CERT">>,
   <<"CR_CERT", "CERT", "CR_CERT_REQ">>,
   <<"CR_CERT_REQ", "CREQ", "CR_SRVR_DONE">>,
   <<"CR_CERT_REQ", "SHD", "CW_CERT">>, <<"CR_SRVR_DONE", "SHD", "CW_CERT">>,
   <<"CR_SESSION_TICKET", "NST", "CR_FINISHED">>,
   <<"SR_CERT", "CERT", "SR_KEY_EXCH">>,
   <<"SR_KEY_EXCH", "CKE", "SR_CERT_VRFY">>}

\* The messages whose arrival stops the timer: the client's wait for a
\* HelloVerifyRequest ends with the Certificate, its wait for the flight with
\* the ServerHelloDone.
StopsTimer(s, m) == <<s.st, m.type>> \in {<<"CR_CERT", "CERT">>, <<"CR_CERT_REQ", "SHD">>,
                                          <<"CR_SRVR_DONE", "SHD">>}

\* ssl3_get_client_finished, ssl3_get_server_finished
Finish(s, m) ==
  LET next == CASE s.st = "CR_FINISHED" -> IF mode.hit THEN "CW_CHANGE" ELSE "OK"
                [] OTHER -> IF mode.hit THEN "OK" ELSE "SW_CHANGE"
  IN IF ~s.ccs THEN Fail(s, "GOT_A_FIN_BEFORE_A_CCS")
     ELSE IF m.digest # s.peerFin THEN Fail(s, "DIGEST_CHECK_FAILED")
     ELSE ToState(StopTimer([s EXCEPT !.ccs = FALSE]), next)

\* ssl3_get_client_hello and the cookie exchange around it; DTLSv1_listen also
\* answers under the record number of the request.
GetClientHello(s, m) ==
  LET t == StopTimer(IF Listening(s) THEN [s EXCEPT !.wseq[0] = m.rseq] ELSE s)
  IN IF mode.cookie # "none" /\ m.type = "CH" THEN [t EXCEPT !.st = "SW_HELLO_VERIFY"]
     ELSE IF mode.cookie = "listen"
          THEN [t EXCEPT !.st = "SW_SRVR_HELLO", !.readSeq = 2, !.nextSeq = 1]
          ELSE [t EXCEPT !.st = "SW_SRVR_HELLO"]

\* dtls1_get_message has the message the handshake waits for.
Consume(s, m) ==
  LET t == [s EXCEPT !.transcript = Append(@, m.type),
                     !.readSeq = IF Listening(s) THEN @ ELSE @ + 1]
  IN CASE s.st = "SR_CLNT_HELLO" /\ m.type \in {"CH", "CHC"} -> GetClientHello(t, m)
       [] s.st = "CR_SRVR_HELLO" /\ m.type = "HVR" /\ ~s.sendCookie ->
            [StopTimer(t) EXCEPT !.st = "CW_CLNT_HELLO", !.sendCookie = TRUE]
       [] s.st = "SR_CERT_VRFY" /\ m.type = "CVFY" ->
            IF s.ccs THEN Fail(t, "CCS_RECEIVED_EARLY") ELSE [t EXCEPT !.st = "SR_FINISHED"]
       [] s.st = "SR_CERT_VRFY" /\ m.type = "FIN" /\ mode.cert ->
            Fail(t, "MISSING_VERIFY_MESSAGE")
       [] CcsOk(s) /\ m.type = "FIN" /\ ~(s.st = "SR_CERT_VRFY" /\ mode.cert) -> Finish(t, m)
       [] \E mv \in Moves : mv[1] = s.st /\ mv[2] = m.type ->
            LET mv == CHOOSE mv \in Moves : mv[1] = s.st /\ mv[2] = m.type
            IN [(IF StopsTimer(s, m) THEN StopTimer(t) ELSE t) EXCEPT !.st = mv[3]]
       [] OTHER -> Fail(t, "UNEXPECTED_MESSAGE")

\* dtls1_process_out_of_seq_message: keep a message of the near future, once.
OutOfSeq(s, m) ==
  IF \/ m.seq <= s.readSeq
     \/ m.seq > s.readSeq + 10
     \/ \E b \in s.buffered : b.seq = m.seq
     \/ s.readSeq = 0 /\ m.type = "FIN"
  THEN s
  ELSE [s EXCEPT !.buffered = @ \cup {m}]

\* dtls1_get_message_fragment
GetFragment(s, m) ==
  IF m.seq # s.readSeq /\ ~(Listening(s) /\ m.seq = 1) THEN OutOfSeq(s, m)
                                                       ELSE Consume(s, m)

------------------------------------------------------------------------------
(* Records. *)

\* Mutant of Unseen: the newest record may come again.
UnseenOrNewest(b, n) == n >= b.max \/ (b.max - n < Window /\ n \notin b.map)

\* dtls1_record_replay_check and dtls1_record_bitmap_update
Unseen(b, n) == n > b.max \/ (b.max - n < Window /\ n \notin b.map)
Mark(b, n) ==
  IF n > b.max THEN [max |-> n, map |-> {k \in b.map : n - k < Window} \cup {n}]
  ELSE IF b.max - n < Window THEN [b EXCEPT !.map = @ \cup {n}] ELSE b

\* Mutant of ReadCcs: one that comes too early is fatal, as over TCP.
ReadCcsStrict(s) ==
  IF ~CipherChosen(s) \/ ~CcsOk(s) THEN Fail(s, "CCS_RECEIVED_EARLY")
  ELSE [s EXCEPT !.ccs = TRUE, !.readEpoch = @ + 1, !.peerFin = s.transcript,
                 !.bitmap = s.nextBitmap, !.nextBitmap = NoRecords]

\* Mutant of ReadCcs: the next epoch is counted from the one written in.
ReadCcsFromWrite(s) ==
  IF ~CipherChosen(s) THEN Fail(s, "CCS_RECEIVED_EARLY")
  ELSE IF ~CcsOk(s) THEN s
  ELSE [s EXCEPT !.ccs = TRUE, !.readEpoch = s.writeEpoch + 1, !.peerFin = s.transcript,
                 !.bitmap = s.nextBitmap, !.nextBitmap = NoRecords]

\* ssl3_read_change_cipher_spec
ReadCcs(s) ==
  IF ~CipherChosen(s) THEN Fail(s, "CCS_RECEIVED_EARLY")
  ELSE IF ~CcsOk(s) THEN s
  ELSE [s EXCEPT !.ccs = TRUE, !.readEpoch = @ + 1, !.peerFin = s.transcript,
                 !.bitmap = s.nextBitmap, !.nextBitmap = NoRecords]

\* Mutant of UnexpectedHandshake: a stale Finished is dropped.
UnexpectedDropped(e, s, m) ==
  IF m.type = "FIN" /\ e = "server" THEN s ELSE Fail(s, "UNEXPECTED_MESSAGE")

\* dtls1_read_handshake_unexpected: a handshake record reaches SSL_read.
UnexpectedHandshake(e, s, m) ==
  IF m.type = "FIN" /\ e = "server" THEN CheckedRetransmit(s)
                                    ELSE Fail(s, "UNEXPECTED_MESSAGE")

IsHandshake(m) == m.type \notin {"CCS", "APP", "ALERT"}

\* dtls1_read_bytes, once a record of the current epoch is there.
Process(e, s, m) ==
  IF Listening(s) /\ ~IsHandshake(m) THEN s
  ELSE IF s.ccs /\ ~IsHandshake(m) THEN [s EXCEPT !.appQueue = @ \cup {m}]
  ELSE CASE m.type = "ALERT" -> [s EXCEPT !.failed = "PEER_ALERT"]
         [] m.type = "CCS" -> ReadCcs(s)
         [] m.type = "APP" /\ ~InInit(s) -> [s EXCEPT !.read = Append(@, m.rseq)]
         [] m.type = "APP" /\ InInit(s) -> Fail(s, "UNEXPECTED_RECORD")
         [] IsHandshake(m) /\ InInit(s) -> GetFragment(s, m)
         [] IsHandshake(m) /\ ~InInit(s) -> UnexpectedHandshake(e, s, m)

\* dtls1_get_record: drop by epoch, drop by replay window, keep for the next
\* epoch, or process.
GetRecord(e, s, m) ==
  LET next == m.epoch = s.readEpoch + 1 /\ m.type \notin {"CCS", "APP"}
      hello == Listening(s) /\ m.type \in {"CH", "CHC"}
  IN IF m.epoch = s.readEpoch
     THEN IF ~hello /\ ~Unseen(s.bitmap, m.rseq) THEN s
          ELSE Process(e, [s EXCEPT !.bitmap = Mark(@, m.rseq)], m)
     ELSE IF next /\ InInit(s) /\ ~Listening(s) /\ Unseen(s.nextBitmap, m.rseq)
     THEN [s EXCEPT !.unprocessed = @ \cup {m}, !.nextBitmap = Mark(@, m.rseq)]
     ELSE s

------------------------------------------------------------------------------
(* Actions: what endpoint e does next.  A thread first writes what it has to, *)
(* then takes what it kept, and only then reads the network.                  *)

Alive(e) == conn[e].failed = "no"

\* Endpoint e becomes s; what it wrote is on its way, and `left` is what remains
\* on the way to e.
Become(e, s, left) ==
  /\ conn' = [conn EXCEPT ![e] = [s EXCEPT !.wbio = <<>>]]
  /\ net' = [net EXCEPT ![e] = left, ![Peer(e)] = @ \o s.wbio]
  /\ UNCHANGED mode

\* dtls1_retrieve_buffered_fragment: the head of the queue, if it is its turn.
TurnOf(s) == {b \in s.buffered : b.seq = s.readSeq /\ \A c \in s.buffered : b.seq <= c.seq}
HasBuffered(s) == ~Writing(s) /\ InInit(s) /\ TurnOf(s) # {}

\* dtls1_process_buffered_record: their epoch has come.
HasUnprocessed(s) == s.readEpoch = 1 /\ s.unprocessed # {}

\* dtls1_retrieve_buffered_rcontent, in SSL_ST_OK only
HasAppQueue(s) == ~InInit(s) /\ s.appQueue # {}

Reading(s) == ~Writing(s) /\ ~HasBuffered(s) /\ ~HasAppQueue(s)
Blocked(s) == Reading(s) /\ ~HasUnprocessed(s)

\* The lowest of a priority queue of records.
Lowest(rs) == CHOOSE r \in rs : \A q \in rs : r.rseq <= q.rseq

\* ssl3_connect or ssl3_accept writes until it flushes.
SendFlight(e) ==
  /\ Alive(e) /\ Writing(conn[e])
  /\ Become(e, WriteFlight(conn[e]), net[e])
  /\ UNCHANGED faults

\* A message that came too early is next.
TakeBuffered(e) ==
  /\ Alive(e) /\ HasBuffered(conn[e])
  /\ LET b == CHOOSE b \in TurnOf(conn[e]) : TRUE
     IN Become(e, Consume([conn[e] EXCEPT !.buffered = @ \ {b}], b), net[e])
  /\ UNCHANGED faults

\* A record of the epoch that has begun was kept from before.
TakeUnprocessed(e) ==
  /\ Alive(e) /\ Reading(conn[e]) /\ HasUnprocessed(conn[e])
  /\ LET r == Lowest(conn[e].unprocessed)
     IN Become(e, Process(e, [conn[e] EXCEPT !.unprocessed = @ \ {r}], r), net[e])
  /\ UNCHANGED faults

\* SSL_read returns application data that came between CCS and Finished.
TakeApp(e) ==
  /\ Alive(e) /\ HasAppQueue(conn[e])
  /\ LET r == Lowest(conn[e].appQueue)
     IN Become(e, Process(e, [conn[e] EXCEPT !.appQueue = @ \ {r}], r), net[e])
  /\ UNCHANGED faults

\* A datagram arrives; it may have overtaken others, and the network may keep a
\* copy of it.
Receive(e) ==
  \E i \in DOMAIN net[e], copy \in BOOLEAN :
    LET cost == (IF i = 1 THEN 0 ELSE 1) + (IF copy THEN 1 ELSE 0)
    IN /\ Alive(e) /\ Blocked(conn[e])
       /\ faults + cost <= MaxFaults
       /\ Become(e, GetRecord(e, conn[e], net[e][i]),
                 IF copy THEN net[e] ELSE RemoveAt(net[e], i))
       /\ faults' = faults + cost

\* dtls1_handle_timeout.  A timer runs out when nothing is on its way to anybody,
\* the shorter of two first (both double from one second), or early.
Timeout(e) ==
  LET p == Peer(e)
      early == \/ \E q \in Endpoints : net[q] # <<>>
               \/ conn[p].timer /\ conn[p].tries < conn[e].tries
  IN /\ Alive(e) /\ Reading(conn[e]) /\ conn[e].timer
     /\ early => faults < MaxFaults
     /\ Become(e, CheckedRetransmit(conn[e]), net[e])
     /\ faults' = IF early THEN faults + 1 ELSE faults

\* SSL_write, once
WriteApp(e) ==
  /\ e \in Writers /\ Alive(e) /\ ~InInit(conn[e]) /\ ~conn[e].wrote
  /\ LET d == [type |-> "APP", seq |-> 0, epoch |-> conn[e].writeEpoch, digest |-> <<>>]
     IN Become(e, [Put(conn[e], <<d>>) EXCEPT !.wrote = TRUE], net[e])
  /\ UNCHANGED faults

\* The network loses a datagram.
Lose(e) ==
  /\ faults < MaxFaults
  /\ \E i \in DOMAIN net[e] : net' = [net EXCEPT ![e] = RemoveAt(@, i)]
  /\ faults' = faults + 1
  /\ UNCHANGED <<mode, conn>>

\* Both applications have what they wanted, or a connection is gone.
Over ==
  /\ \/ \E e \in Endpoints : ~Alive(e)
     \/ \A e \in Endpoints : ~InInit(conn[e]) /\ net[e] = <<>>
  /\ UNCHANGED vars

Init ==
  /\ mode \in Modes
  /\ conn = [e \in Endpoints |-> Fresh(IF e = "client" THEN "CW_CLNT_HELLO"
                                                       ELSE "SR_CLNT_HELLO")]
  /\ net = [e \in Endpoints |-> <<>>]
  /\ faults = 0

Step(e) ==
  \/ SendFlight(e) \/ TakeBuffered(e) \/ TakeUnprocessed(e) \/ TakeApp(e)
  \/ Receive(e) \/ Timeout(e) \/ WriteApp(e) \/ Lose(e)

Next == (\E e \in Endpoints : Step(e)) \/ Over

\* Each thread keeps running, what is on its way and not lost arrives, and a
\* timer that runs expires.
Fairness ==
  \A e \in Endpoints :
    /\ WF_vars(SendFlight(e)) /\ WF_vars(TakeBuffered(e))
    /\ WF_vars(TakeUnprocessed(e)) /\ WF_vars(TakeApp(e))
    /\ WF_vars(Receive(e)) /\ WF_vars(Timeout(e))

Spec == Init /\ [][Next]_vars /\ Fairness

------------------------------------------------------------------------------
(* Properties. *)

States == {"CW_CLNT_HELLO", "CR_SRVR_HELLO", "CR_CERT", "CR_CERT_REQ", "CR_SRVR_DONE",
           "CW_CERT", "CR_SESSION_TICKET", "CR_FINISHED", "CW_CHANGE", "OK",
           "SR_CLNT_HELLO", "SW_HELLO_VERIFY", "SW_SRVR_HELLO", "SR_CERT", "SR_KEY_EXCH",
           "SR_CERT_VRFY", "SR_FINISHED", "SW_CHANGE"}
Types == {"CH", "CHC", "HVR", "SH", "CERT", "CREQ", "SHD", "CKE", "CVFY", "NST", "CCS",
          "FIN", "APP", "ALERT"}
Records == [type : Types, seq : Nat, epoch : 0 .. 1, rseq : Nat, digest : Seq(Types)]

\* The variables keep their types.
TypeOK ==
  /\ mode \in Modes
  /\ \A e \in Endpoints :
       /\ conn[e].st \in States
       /\ {conn[e].readSeq, conn[e].nextSeq, conn[e].tries} \subseteq Nat
       /\ {conn[e].readEpoch, conn[e].writeEpoch} \subseteq 0 .. 1
       /\ conn[e].buffered \cup conn[e].unprocessed \cup ToSet(net[e]) \subseteq Records
       /\ conn[e].transcript \in Seq(Types) /\ conn[e].wbio = <<>>
  /\ faults \in 0 .. MaxFaults

\* Losing, duplicating and reordering datagrams never breaks a handshake: no
\* endpoint fails before it has completed (dtls1_get_message_fragment,
\* dtls1_get_record, ssl3_read_change_cipher_spec).
LossIsTolerated ==
  \A e \in Endpoints : conn[e].failed \notin {"no", "PEER_ALERT"} => ~InInit(conn[e])

\* When both endpoints have completed they computed the same transcript: every
\* message was taken once, in the order it was written, and a retransmission was
\* not recorded again (dtls1_get_message, dtls1_do_write).
TranscriptsAgree ==
  (\A e \in Endpoints : ~InInit(conn[e])) => conn["client"].transcript = conn["server"].transcript

\* A message is always sent under the epoch it was first sent in, however often
\* and however late it is retransmitted: only Finished, application data and
\* alerts are protected (dtls1_retransmit_message).
EpochsKept ==
  \A e \in Endpoints : \A r \in ToSet(net[e]) :
    /\ r.epoch = 1 => r.type \in {"FIN", "APP", "ALERT"}
    /\ r.epoch = 0 => r.type \notin {"FIN", "APP"}

\* The handshake never waits for nothing: while it is not complete and no datagram
\* is in flight, somebody has something to do or a timer runs
\* (dtls1_start_timer and dtls1_stop_timer in ssl3_connect and ssl3_accept).
SomeoneRetransmits ==
  \/ \E e \in Endpoints : ~Alive(e) \/ net[e] # <<>> \/ ~Blocked(conn[e]) \/ conn[e].timer
  \/ \A e \in Endpoints : ~InInit(conn[e])

\* A datagram of application data is read at most once, although the network
\* duplicates it and the replay window changes with the epoch
\* (dtls1_record_replay_check, dtls1_reset_read_seq_numbers).
DataReadOnce == \A e \in Endpoints : IsInjective(conn[e].read)

\* An endpoint that reads under the new keys has taken every message its peer
\* wrote before the ChangeCipherSpec (ssl3_read_change_cipher_spec).
CcsInOrder ==
  \A e \in Endpoints :
    conn[e].readEpoch = 1 /\ conn[e].failed = "no" /\ InInit(conn[e]) =>
      \A m \in ToSet(conn[Peer(e)].sent) :
        m.epoch = 0 /\ m.type # "CCS" => m.type \in ToSet(conn[e].transcript)

\* No endpoint answers a stale retransmission with a fatal alert
\* (dtls1_read_handshake_unexpected).
StaleIsHarmless == \A e \in Endpoints : conn[e].failed # "UNEXPECTED_MESSAGE"

\* With finitely many losses every handshake completes (dtls1_handle_timeout).
HandshakeCompletes == <>(\A e \in Endpoints : ~InInit(conn[e]))
=============================================================================
