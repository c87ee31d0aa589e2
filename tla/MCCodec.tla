------------------------------ MODULE MCCodec ------------------------------
(* Codec on a small instance: see the MCCodec*.cfg files. *)
EXTENDS Codec

LineFeed == <<"LF">>
CarriageReturn == <<"CR", "LF">>
Field(key, value) == [key |-> <<key>>, value |-> value]

AFrame(command, headers, body, eol) ==
    [command |-> command, headers |-> headers, body |-> body, eol |-> eol]

\* One of each kind, with both line endings, values that need escaping or
\* must not be escaped, bodies with and without a length, and two that are
\* frames but no messages.
SomeFrames == {
    AFrame("MESSAGE", <<Field("destination", <<"ESC", "n">>), Field("message-id", <<":", "LF">>),
                        Field("subscription", << >>), Field("destination", <<"x">>)>>,
           <<"x">>, LineFeed),
    AFrame("MESSAGE", <<Field("subscription", <<"x">>), Field("message-id", <<"ESC">>),
                        Field("destination", <<"x">>), Field("ack", <<"CR">>)>>,
           <<"NUL", "LF", "NUL">>, CarriageReturn),
    AFrame("CONNECTED", <<Field("version", <<"ESC", "n", ":">>)>>, << >>, LineFeed),
    AFrame("RECEIPT", <<Field("receipt-id", <<"x", "ESC", "ESC", "c">>)>>, << >>, CarriageReturn),
    AFrame("ERROR", <<Field("trace", <<":">>)>>, <<"LF", "x">>, LineFeed),
    AFrame("ERROR", <<Field("content-length", <<"0">>)>>, << >>, LineFeed),
    AFrame("ERROR", <<Field("content-length", <<"x">>), Field("content-length", <<"1">>)>>,
           <<"x", "LF">>, LineFeed),
    AFrame("RECEIPT", <<Field("message", <<"x">>)>>, << >>, LineFeed),
    AFrame("BEGIN", << >>, << >>, LineFeed)}

\* No line ending behind the command, a header without a colon, a carriage
\* return inside a header, and a body longer than its length.
SomeJunk == {
    <<"ERROR", ":">>,
    <<"ERROR", "LF", "x", "LF">>,
    <<"ERROR", "LF", "message", ":", "x", "CR", "x">>,
    <<"ERROR", "LF", "content-length", ":", "1", "LF", "LF", "x", "x">>}
=============================================================================
