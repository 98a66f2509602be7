----------------------------- MODULE MCNextWifi -----------------------------
(* Constants of the model-checking runs of NextWifi.                       *)
EXTENDS NextWifi

Two == {0, 1}

\* A program that sends and is answered, while networking is switched.
Talk == [symbols |-> {"START", "SEND", "LF"}, detaches |-> TRUE, udp |-> FALSE, maxIncoming |-> 2]
\* Lines that end with CR, LF or both, are too long, or are cut by resets.
Lines == [symbols |-> {"RST", "ECHO0", "ECHO1", "CLOSE", "x", "CR", "LF"},
          detaches |-> FALSE, udp |-> FALSE, maxIncoming |-> 0]
\* Two connections that share the receive FIFO.
Packets == [symbols |-> {"START", "MUX1", "LF"}, detaches |-> FALSE,
            udp |-> FALSE, maxIncoming |-> 1]
\* A program that only opens a connection, and a peer that sends datagrams,
\* longer than the room that is left too.
Datagrams == [symbols |-> {"START", "LF"}, detaches |-> FALSE, udp |-> TRUE,
              maxIncoming |-> 3]
AllSessions == {Talk, Lines, Packets, Datagrams}
=============================================================================
