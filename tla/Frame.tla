------------------------------- MODULE Frame -------------------------------
(***************************************************************************)
(* Frames on the wire (src/src/frame.rs): how one is written, how the      *)
(* parser reads one from bytes that may be incomplete, and what            *)
(* to_server_msg makes of it. No state: Codec runs these operators over a  *)
(* stream, Messages adds the client's own messages.                        *)
(*                                                                         *)
(* A byte string is a sequence of symbols: one for each byte that means    *)
(* something to the parser (CR, LF, NUL, ":" and ESC, the backslash), and  *)
(* one for each run of bytes that does not, a name or a number say. A cut  *)
(* inside such a run leaves the parser where a cut behind it does. Lengths *)
(* are counted in symbols.                                                 *)
(***************************************************************************)
EXTENDS Naturals, Sequences, SequencesExt, Selection

-----------------------------------------------------------------------------
(* Encoding *)

\* CONNECT and CONNECTED are the frames whose headers are not escaped.
HeadersAreEscaped(command) == command \notin {"CONNECT", "CONNECTED", "STOMP"}

EscapeOf(b) ==
    CASE b = "CR"  -> <<"ESC", "r">>
      [] b = "LF"  -> <<"ESC", "n">>
      [] b = ":"   -> <<"ESC", "c">>
      [] b = "ESC" -> <<"ESC", "ESC">>
      [] OTHER     -> <<b>>

Escape(v) == FlattenSeq([i \in DOMAIN v |-> EscapeOf(v[i])])

Numerals == <<"0", "1", "2", "3", "4">>

HasKey(headers, key) == \E i \in DOMAIN headers : headers[i].key = key

\* to_frame of a SEND: content-length is added to a body that holds a NUL,
\* unless the sender set it. Servers follow the same rule.
WithLength(f) ==
    IF Contains(f.body, "NUL") /\ ~HasKey(f.headers, <<"content-length">>)
    THEN [f EXCEPT !.headers = Append(@, [key |-> <<"content-length">>,
                                          value |-> <<Numerals[Len(f.body) + 1]>>])]
    ELSE f

\* Names and values as write_escaped puts them on the wire.
Escaped(f) ==
    [i \in DOMAIN f.headers |->
        IF HeadersAreEscaped(f.command)
        THEN [key |-> Escape(f.headers[i].key), value |-> Escape(f.headers[i].value)]
        ELSE f.headers[i]]

\* Frame::serialize. It ends its lines with LF; a server may also use CR LF.
Serialize(f) ==
    LET line(h) == h.key \o <<":">> \o h.value \o f.eol
    IN  <<f.command>> \o f.eol
        \o FlattenSeq([i \in DOMAIN f.headers |-> line(Escaped(f)[i])])
        \o f.eol \o f.body \o <<"NUL">>

-----------------------------------------------------------------------------
(* Parsing: a parser is given the bytes and where to start, and finds what  *)
(* it wants, or wants more bytes, or fails.                                 *)

More == [is |-> "more"]
Bad == [is |-> "bad"]
Found(at) == [is |-> "ok", at |-> at]

\* The first place from i on that holds one of stops, or the end.
FirstOf(s, i, stops) == Min({j \in i..Len(s) : s[j] \in stops} \cup {Len(s) + 1})

\* line_ending: LF, or CR LF.
LineEnding(s, i) ==
    IF i > Len(s) THEN More
    ELSE CASE s[i] = "LF"               -> Found(i + 1)
           [] s[i] = "CR" /\ i = Len(s) -> More
           [] s[i] = "CR" /\ i < Len(s) /\ s[i + 1] = "LF" -> Found(i + 2)
           [] OTHER                     -> Bad

NotAlpha == {"CR", "LF", "NUL", ":", "ESC"} \cup {Numerals[i] : i \in DOMAIN Numerals}

\* A line ending, if there is one, is passed over.
Opt(s, i) == IF LineEnding(s, i).is = "ok" THEN LineEnding(s, i).at ELSE i

\* The command: a run of letters on a line of its own.
ParseCommand(s) ==
    LET i == Opt(s, 1)
        end == LineEnding(s, i + 1)
    IN  IF i > Len(s) THEN More
        ELSE IF s[i] \in NotAlpha THEN Bad
        ELSE IF end.is # "ok" THEN end
        ELSE [is |-> "ok", at |-> end.at, command |-> s[i]]

\* parse_header: a name that is not empty, a colon, and the rest of the line.
ParseHeader(s, i) ==
    LET c == FirstOf(s, i, {":", "CR", "LF"})
        e == FirstOf(s, c + 1, {"CR", "LF"})
    IN  IF c > Len(s) THEN More
        ELSE IF c = i \/ s[c] # ":" THEN Bad
        ELSE LineEnding(s, e)

\* The header parse_header finds at i.
HeaderAt(s, i) ==
    LET c == FirstOf(s, i, {":"})
    IN  [key |-> SubSeq(s, i, c - 1),
         value |-> SubSeq(s, c + 1, FirstOf(s, c + 1, {"CR", "LF"}) - 1)]

\* Headers are taken as long as there are some; then comes an empty line.
ParseHeaders(s, start) ==
    LET from[i \in 1..(Len(s) + 1)] ==
            LET h == ParseHeader(s, i)
                end == LineEnding(s, i)
                rest == from[h.at]
            IN  CASE h.is = "more" -> More
                  [] h.is = "bad"  ->
                       IF end.is # "ok" THEN end
                       ELSE [is |-> "ok", at |-> end.at, headers |-> << >>]
                  [] OTHER ->
                       IF rest.is # "ok" THEN rest
                       ELSE [is |-> "ok", at |-> rest.at,
                             headers |-> <<HeaderAt(s, i)>> \o rest.headers]
    IN  from[start]

\* get_content_length: the first such header, if its value is a number.
ContentLength(headers) ==
    LET first == SelectInSeq(headers, LAMBDA h : h.key = <<"content-length">>)
    IN  IF first = 0 THEN {} ELSE {n \in 0..4 : headers[first].value = <<Numerals[n + 1]>>}

\* Where the body that starts at i ends: by content-length, or at a NUL.
BodyEnd(s, i, headers) ==
    IF ContentLength(headers) = {}
    THEN FirstOf(s, i, {"NUL"})
    ELSE i + (CHOOSE n \in ContentLength(headers) : TRUE)

\* The command and the headers are there: the body, the NUL behind it, and a
\* line ending if it has come along. An empty body without content-length is
\* no body.
ParseBody(s, start, command, headers) ==
    LET e == BodyEnd(s, start, headers)
        body == SubSeq(s, start, e - 1)
    IN  IF e > Len(s) THEN More
        ELSE IF s[e] # "NUL" THEN Bad
        ELSE [is |-> "ok", at |-> Opt(s, e + 1),
              frame |-> [command |-> command, headers |-> headers,
                         body |-> IF body = << >> /\ ContentLength(headers) = {}
                                  THEN {} ELSE {body}]]

ParseFrame(s) ==
    LET command == ParseCommand(s)
        headers == ParseHeaders(s, command.at)
    IN  CASE command.is # "ok" -> command
          [] command.is = "ok" /\ headers.is # "ok" -> headers
          [] OTHER -> ParseBody(s, headers.at, command.command, headers.headers)

-----------------------------------------------------------------------------
(* Messages *)

UnescapeOf(b) ==
    CASE b = "r"   -> <<"CR">>
      [] b = "n"   -> <<"LF">>
      [] b = "c"   -> <<":">>
      [] b = "ESC" -> <<"ESC">>
      [] OTHER     -> <<"ESC", b>>

\* Fault: every escaped byte is replaced where it stands, so that the second
\* half of an escaped backslash can begin another escape.
UnescapeOverlapping(v) ==
    LET from[i \in 1..(Len(v) + 1)] ==
            IF i > Len(v) THEN << >>
            ELSE IF v[i] = "ESC" /\ i < Len(v) /\ v[i + 1] # "ESC"
                 THEN UnescapeOf(v[i + 1]) \o from[i + 2]
                 ELSE <<v[i]>> \o from[i + 1]
    IN  from[1]

\* unescape_header_value: a sequence that is not defined stays as it is.
Unescape(v) ==
    LET from[i \in 1..(Len(v) + 1)] ==
            IF i > Len(v) THEN << >>
            ELSE IF v[i] = "ESC" /\ i < Len(v)
                 THEN UnescapeOf(v[i + 1]) \o from[i + 2]
                 ELSE <<v[i]>> \o from[i + 1]
    IN  from[1]

\* Values are unescaped, in all but CONNECT and CONNECTED; names never are.
Unescaped(f) ==
    [i \in DOMAIN f.headers |->
        IF HeadersAreEscaped(f.command)
        THEN [f.headers[i] EXCEPT !.value = Unescape(@)]
        ELSE f.headers[i]]

\* fetch_header: of every name the first value, if there is one.
Fetch(headers, name) ==
    IF HasKey(headers, <<name>>)
    THEN {headers[SelectInSeq(headers, LAMBDA h : h.key = <<name>>)].value}
    ELSE {}

\* The headers with names that are none of the expected ones.
Others(headers, names) ==
    Selected(headers, {i \in DOMAIN headers : \A k \in names : headers[i].key # <<k>>})

\* The headers a message of each kind is read from, and those it must have.
Expected ==
    [CONNECTED |-> {"version", "session", "server", "heart-beat"},
     MESSAGE   |-> {"destination", "message-id", "subscription", "ack"},
     RECEIPT   |-> {"receipt-id"},
     ERROR     |-> {"message"}]
Required ==
    [CONNECTED |-> {"version"},
     MESSAGE   |-> {"destination", "message-id", "subscription"},
     RECEIPT   |-> {"receipt-id"},
     ERROR     |-> {}]

\* The frames that are messages of some kind.
IsMessage(command, headers) ==
    command \in DOMAIN Expected /\ \A k \in Required[command] : HasKey(headers, <<k>>)

\* A message from its headers, as they were meant and as the wire has them:
\* the expected fields, in a MESSAGE the list of all headers, and as extra
\* headers, raw, the ones not expected. Only MESSAGE and ERROR have a body.
MessageOf(command, headers, raw, body) ==
    [command |-> command,
     fields |-> [k \in Expected[command] |-> Fetch(headers, k)],
     headers |-> IF command = "MESSAGE" THEN headers ELSE << >>,
     body |-> IF command \in {"MESSAGE", "ERROR"} THEN body ELSE {},
     extra_headers |-> Others(raw, Expected[command])]

\* to_server_msg, for a frame that is a message.
ToServerMsg(f) == MessageOf(f.command, Unescaped(f), f.headers, f.body)
=============================================================================
