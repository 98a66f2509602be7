------------------------------ MODULE MCNextSd ------------------------------
(* Constants of the model-checking run of NextSd.                          *)
EXTENDS NextSd

Reader == [commands |-> {12, 17, 18}, maxUnread |-> 6]
Writer == [commands |-> {12, 24, 25}, maxUnread |-> 2]
\* Reads, streams and writes, each begun while another goes on.
Mixer == [commands |-> {12, 17, 18, 25}, maxUnread |-> 1]
\* Every command but those that transfer blocks.
Asker == [commands |-> {0, 1, 8, 9, 10, 13, 16, 41, 51, 55, 58, 59, 99},
          maxUnread |-> 2]

AllHosts == {Reader, Writer, Mixer, Asker}
=============================================================================
