-------------------------- MODULE MCTLSConnection --------------------------
(* TLSConnection with a handshake that ends on either side.                *)
EXTENDS TLSConnection, TLC

Turn2(who, n, what) == [by |-> who, units |-> n, of |-> what]

\* The server speaks last (TLS 1.2), or the client does (TLS 1.3) and its
\* request comes in two parts and is answered.
MCSessions ==
    { << Turn2("peer", 2, "handshake"), Turn2("server", 3, "handshake"),
         Turn2("peer", 1, "handshake"), Turn2("server", 1, "handshake") >>,
      << Turn2("peer", 1, "handshake"), Turn2("server", 1, "handshake"),
         Turn2("peer", 1, "handshake"), Turn2("peer", 1, "more"),
         Turn2("peer", 1, "ask"), Turn2("server", 3, "reply") >> }
=============================================================================
