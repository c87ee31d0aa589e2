------------------------------- MODULE Codec -------------------------------
(***************************************************************************)
(* ClientCodec::decode (src/src/client.rs) and the parser it calls,        *)
(* parse_frame and to_server_msg (src/src/frame.rs), under FramedRead: the *)
(* bytes of the server's frames and heart-beats arrive cut anywhere, and   *)
(* stop anywhere when the server goes away. Frame says what bytes are.     *)
(***************************************************************************)
EXTENDS Frame

CONSTANTS
    Frames,    \* the frames the server may send
    Junk,      \* byte strings that are no frame, from their last byte on
    MaxItems,  \* bound: frames, heart-beats and junk in one connection
    MaxFrame   \* max_frame_size

\* What can be written as a frame at all.
Framed == [command : STRING \ NotAlpha,
           headers : Seq([key : Seq(STRING), value : Seq(STRING)]),
           body : Seq(STRING), eol : {<<"LF">>, <<"CR", "LF">>}]

\* What a server may write, as STOMP has it: the parser does not unescape
\* names, so they need no escape; a value that is not escaped stays on its
\* line; and content-length, where it is there and a number, is right.
Legible(f) ==
    /\ \A i \in DOMAIN f.headers :
        LET h == f.headers[i]
        IN  /\ h.key # << >> /\ Escape(h.key) = h.key
            /\ ~HeadersAreEscaped(f.command) =>
                   \A j \in DOMAIN h.value : h.value[j] \notin {"CR", "LF"}
    /\ \/ ContentLength(f.headers) = {Len(f.body)}
       \/ ContentLength(f.headers) = {} /\ \A j \in DOMAIN f.body : f.body[j] # "NUL"

ASSUME CodecAssumption ==
    /\ \A f \in Frames : {f, WithLength(f)} \subseteq Framed /\ Legible(WithLength(f))
    /\ \A j \in Junk :
        /\ j \in Seq(STRING) /\ j # << >> /\ j[1] \notin {"CR", "LF"}
        /\ ParseFrame(j) = Bad
        /\ \A k \in 1..(Len(j) - 1) : ParseFrame(SubSeq(j, 1, k)) = More
    /\ MaxItems \in Nat /\ MaxFrame \in Nat

VARIABLES
    script,   \* history: what the server sends, item by item
    transit,  \* the bytes of it that have not been read
    read,     \* history: how many have
    buf,      \* FramedRead's read buffer
    out,      \* the messages the stream has yielded
    pc        \* FramedRead: reading, decoding, or how the stream ended

vars == <<script, transit, read, buf, out, pc>>

-----------------------------------------------------------------------------
(* The stream *)

\* What the server sends: frames, heart-beats, and things that are neither.
Items == {[kind |-> "frame", frame |-> f, bytes |-> Serialize(WithLength(f))] : f \in Frames}
         \cup [kind : {"beat"}, bytes : {<<"LF">>, <<"CR", "LF">>}]
         \cup [kind : {"junk"}, bytes : Junk]

Bytes(items) == FlattenSeq([i \in DOMAIN items |-> items[i].bytes])

\* The server's bytes are all on their way: which of them have arrived is for
\* Read to say, and which never will for Close.
Init ==
    /\ script \in UNION {[1..n -> Items] : n \in 0..MaxItems}
    /\ transit = Bytes(script) /\ read = 0
    /\ buf = << >> /\ out = << >> /\ pc = "reading"

\* poll_read_buf: any number of bytes.
Read ==
    /\ pc = "reading"
    /\ \E k \in 1..Len(transit) :
        /\ buf' = buf \o SubSeq(transit, 1, k)
        /\ transit' = SubSeq(transit, k + 1, Len(transit))
        /\ read' = read + k
    /\ pc' = "decoding"
    /\ UNCHANGED <<script, out>>

\* The server goes away; the bytes that have not arrived never will.
Close ==
    /\ pc = "reading" /\ transit # << >>
    /\ transit' = << >>
    /\ UNCHANGED <<script, read, buf, out, pc>>

\* Fault: heart-beats are left to the parser, which passes over one.
DropBeatsNone(s) == s

\* The newlines in front of a frame are heart-beats.
DropBeats(s) ==
    SubSeq(s, SelectInSeq(Append(s, "NUL"), LAMBDA b : b \notin {"CR", "LF"}), Len(s))

\* Fault: the bound is tested before the bytes are parsed.
OutcomeBounded(s) ==
    IF Len(s) > MaxFrame THEN [is |-> "too long"] ELSE ParseFrame(s)

\* What decode makes of the buffer: a frame that is not complete is given up
\* once it is over the bound.
Outcome(s) ==
    LET p == ParseFrame(s)
    IN  IF s = << >> THEN More
        ELSE IF p.is = "more" /\ Len(s) > MaxFrame THEN [is |-> "too long"] ELSE p

\* decode: a message, nothing yet, or an error, which ends the stream. The
\* bytes of a frame are consumed also when it is no message.
Decode ==
    LET s == DropBeats(buf)
        p == Outcome(s)
    IN  /\ pc = "decoding"
        /\ \/ /\ p.is = "ok" /\ IsMessage(p.frame.command, p.frame.headers)
              /\ out' = Append(out, ToServerMsg(p.frame))
              /\ buf' = SubSeq(s, p.at, Len(s))
              /\ UNCHANGED pc
           \/ /\ p.is = "ok" /\ ~IsMessage(p.frame.command, p.frame.headers)
              /\ buf' = SubSeq(s, p.at, Len(s)) /\ pc' = "no message"
              /\ UNCHANGED out
           \/ /\ p.is = "more"
              /\ buf' = s /\ pc' = "reading"
              /\ UNCHANGED out
           \/ /\ p.is \in {"bad", "too long"}
              /\ buf' = s /\ pc' = p.is
              /\ UNCHANGED out
        /\ UNCHANGED <<script, transit, read>>

\* Fault: what is left in the buffer is dropped in silence.
EndSilent ==
    /\ pc = "reading" /\ transit = << >>
    /\ pc' = "end"
    /\ UNCHANGED <<script, transit, read, buf, out>>

\* decode_eof: the end of the stream, clean if nothing is left in the buffer.
End ==
    /\ pc = "reading" /\ transit = << >>
    /\ pc' = IF buf = << >> THEN "end" ELSE "torn"
    /\ UNCHANGED <<script, transit, read, buf, out>>

Next == Read \/ Close \/ Decode \/ End

Spec == Init /\ [][Next]_vars

-----------------------------------------------------------------------------
(* Properties *)

\* What becomes of an item: a message, nothing, or the end of the stream.
Fate(item) ==
    CASE item.kind = "junk" -> "bad"
      [] item.kind = "beat" -> "dropped"
      [] OTHER -> IF IsMessage(item.frame.command, item.frame.headers)
                  THEN "message" ELSE "no message"

\* The message that was meant, read off the frame before it was encoded.
Meant(item) ==
    LET f == WithLength(item.frame)
    IN  MessageOf(f.command, f.headers, Escaped(f),
                  IF f.body = << >> /\ ContentLength(f.headers) = {} THEN {} ELSE {f.body})

\* The items that have been read to their last byte, up to the first one
\* that ends the stream.
Whole ==
    LET n == Cardinality({i \in DOMAIN script : Len(Bytes(SubSeq(script, 1, i))) <= read})
        fatal == SelectInSubSeq(script, 1, n, LAMBDA x : Fate(x) \in {"bad", "no message"})
    IN  SubSeq(script, 1, IF fatal = 0 THEN n ELSE fatal)

Messages(items) ==
    LET m == Selected(items, {i \in DOMAIN items : Fate(items[i]) = "message"})
    IN  [i \in DOMAIN m |-> Meant(m[i])]

\* The bytes read so far end inside an item, not between two.
Inside == \A i \in 0..Len(script) : Len(Bytes(SubSeq(script, 1, i))) # read

\* However the bytes are cut, the stream yields the messages that were sent,
\* no more and in order, each as soon as its last byte is there (decode):
\* before FramedRead waits for more, it has handed out all there is.
CutsAreInvisible ==
    /\ IsPrefix(out, Messages(Whole))
    /\ pc # "decoding" => out = Messages(Whole)

\* The stream fails on what is no frame or no message, and on nothing else:
\* not on heart-beats, on CR LF, on a NUL in a body or on an odd header.
FailsOnlyOnJunk ==
    pc \in {"bad", "no message"} => Whole # << >> /\ Fate(Whole[Len(Whole)]) = pc

\* The end of the stream is reported as clean exactly when no frame was cut
\* off by it: nothing is dropped in silence.
TornIsReported ==
    pc \in {"end", "torn"} =>
        (pc = "torn" <=> Inside /\ script[Len(Whole) + 1].kind # "beat")

\* The bound does what it is for and no more: a stream that waits for more
\* bytes holds no more than the bound, and a frame within the bound is never
\* given up for its size, whatever is in the buffer around it.
BoundIsFair ==
    /\ pc = "reading" => Len(buf) <= MaxFrame
    /\ pc = "too long" =>
        Len(Whole) < Len(script) /\ Len(script[Len(Whole) + 1].bytes) > MaxFrame
=============================================================================
