----------------------------- MODULE MCWsRelay ------------------------------
EXTENDS WsRelay

\* "in" takes raw connections and dials out over WebSocket, "mid" takes and
\* dials WebSockets.
MCWsSides == [r \in Relay |-> IF r = "in" THEN {"remote"} ELSE Side]

Script(c, r, raw) ==
    [x \in Relay |-> [s \in Side |->
        IF x = "in" THEN (IF s = "client" THEN raw ELSE <<>>)
        ELSE IF s = "client" THEN c ELSE r]]

\* Both directions at once, two frames to sniff at, two that may come with the
\* handshake response, a frame too large for the connection's buffer, and a raw
\* stream.
MCScripts ==
    {Script(<<"small">>, <<"small">>, <<>>),
     Script(<<"big", "small">>, <<>>, <<>>),
     Script(<<"small", "big">>, <<>>, <<>>),
     Script(<<>>, <<"small", "small">>, <<>>),
     Script(<<"huge">>, <<"huge">>, <<>>),
     Script(<<>>, <<>>, <<"small", "big">>)}
=============================================================================
