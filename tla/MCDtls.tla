------------------------------- MODULE MCDtls -------------------------------
(* Bounded instances of Dtls. *)
EXTENDS Dtls

Full == [hit |-> FALSE, cert |-> FALSE, ticket |-> FALSE, cookie |-> "none"]

\* A full handshake, one that also issues a ticket, and one behind DTLSv1_listen.
SoundModes == {Full, [Full EXCEPT !.ticket = TRUE], [Full EXCEPT !.cookie = "listen"]}

\* A full handshake with a client certificate.
CertModes == {[Full EXCEPT !.cert = TRUE]}

\* A resumed session.
HitModes == {[Full EXCEPT !.hit = TRUE]}

\* A full handshake with the cookie exchange done by SSL_accept.
CookieModes == {[Full EXCEPT !.cookie = "accept"]}
=============================================================================
