----------------------------- MODULE MCNetStream ----------------------------
EXTENDS NetStream

\* Two packets under way to the acceptor may overtake each other.
MCMaxPackets == [e \in Ends |-> IF e = "acceptor" THEN 2 ELSE 1]
MCMaxBytes == [e \in Ends |-> IF e = "requester" THEN 2 ELSE 1]
MCCalls == {<<2, FALSE>>, <<1, TRUE>>}

\* The faults of each end; a request times out at the requester only, and is
\* given up at the acceptor only.
Timeouts == {<<"unanswered", "requester">>, <<"unconfirmed", "acceptor">>, <<"silent", "requester">>}
MCFaults == Timeouts \cup {<<"ended", "acceptor">>, <<"no route", "requester">>}

OnePacket == [e \in Ends |-> 1]
OneByte == [e \in Ends |-> 1]
OneCalls == {<<1, FALSE>>, <<1, TRUE>>}
=============================================================================
