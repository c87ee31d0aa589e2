----------------------------- MODULE MCOutbound -----------------------------
(* Outbound on a small instance: see the MCOutbound*.cfg files. *)
EXTENDS Outbound

H(key, value) == [key |-> <<key>>, value |-> value]

\* Texts that need escaping, look escaped, or are empty.
Odd == <<":", "LF", "ESC", "n">>
Texts == {<<"x">>, Odd, << >>}

\* Headers of the application's own, by names the frame may have already, and
\* an ack mode and a pair of intervals that come as text.
SomeSubscribers ==
    [destination |-> Texts, id |-> {<<"x">>, Odd}, ack |-> DOMAIN AckText,
     headers |-> {<< >>, <<H("name", Odd), H("id", <<"y">>)>>, <<H("ack", <<"client">>)>>}]

\* CONNECT has no escapes: its texts have no line endings.
SomeConnectors ==
    [server |-> {"a", "b"}, virtualhost |-> {<<"x">>, <<"ESC", "n", ":">>},
     login |-> {<<"x">>}, passcode |-> {<<":", "ESC", "c">>},
     headers |-> {<<H("client-id", <<"ESC">>), H("login", <<"y">>)>>,
                  <<H("heart-beat", <<"3", ",", "1">>), H("host", <<"y">>)>>},
     use_tls |-> {TRUE}, tls_server_name |-> {"b"}, max_frame_size |-> {1},
     heartbeat |-> {<<0, 2>>, <<1, 0>>}, auto_heartbeat |-> {FALSE}]

\* One of every kind, with and without what is optional, and SENDs with bodies
\* that are empty, hold line feeds and NULs, and come with a length; an
\* extra header given twice.
SomeMessages ==
    {Plain(kind, [k \in names |-> {t}]) : kind \in {"Begin", "Commit", "Abort"},
        names \in {{"transaction"}}, t \in Texts}
    \cup {Plain(kind, [k \in names |-> {t}]) : kind \in {"Ack", "Nack"},
            names \in {{"id"}, {"id", "transaction"}}, t \in Texts}
    \cup {Plain("Unsubscribe", [id |-> {t}]) : t \in Texts}
    \cup {Plain("Disconnect", [receipt |-> r]) : r \in {{}, {<<"x">>}}}
    \cup {[Plain("Send", [destination |-> {<<"x">>}, transaction |-> t])
            EXCEPT !.headers = h, !.body = b, !.extra_headers = e] :
            t \in {{}, {Odd}},
            h \in {<< >>, <<H("type", Odd), H("transaction", <<"y">>)>>},
            b \in {{}, {<< >>}, {<<"LF", "x">>}, {<<"NUL", "LF", "NUL">>}},
            e \in {<< >>, <<H("type", <<"z">>), H("priority", Odd)>>}}
    \cup {[Plain("Send", [destination |-> {<<"x">>}])
            EXCEPT !.headers = <<H("content-length", <<"1">>)>>, !.body = {<<"NUL">>}]}
    \cup {[Plain("Send", [destination |-> {<<"x">>}])
            EXCEPT !.headers = <<H("ack", <<"x">>)>>, !.body = {<<"NUL", "x">>},
                   !.extra_headers = <<H("content-length", <<"2">>), H("heart-beat", <<"x">>)>>]}
    \cup {[Plain("Disconnect", [receipt |-> {}])
            EXCEPT !.extra_headers = <<H("x", <<"1">>), H("x", <<"2">>)>>]}
=============================================================================
