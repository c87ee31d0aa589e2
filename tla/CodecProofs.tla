---------------------------- MODULE CodecProofs ----------------------------
(***************************************************************************)
(* Proofs about Codec, for every set of frames a server may write, every   *)
(* script of them and every bound: however the bytes are cut, the stream   *)
(* hands out what was sent. They rest on what Lemmas says of the parser.   *)
(***************************************************************************)
EXTENDS Codec, Lemmas, FiniteSetTheorems

-----------------------------------------------------------------------------
(* The inductive invariant *)

Newline == {"CR", "LF"}

\* Where the i-th item of a script ends.
EndOf(sc, i) == Len(Bytes(SubSeq(sc, 1, i)))

\* The bytes of w behind the first c, up to the r-th.
Slice(w, c, r) == SubSeq(w, c + 1, r)

\* The first n items have been read and dealt with, and none ended the stream.
Handed(sc, rd, ot, n) ==
    /\ n \in 0..Len(sc) /\ EndOf(sc, n) <= rd
    /\ ot = Messages(SubSeq(sc, 1, n))
    /\ \A i \in 1..n : Fate(sc[i]) \in {"message", "dropped"}

\* The buffer holds the bytes from c on; between the n-th item and c there
\* were only heart-beats.
Holding(sc, rd, bf, ot, n, c) ==
    /\ Handed(sc, rd, ot, n)
    /\ c \in EndOf(sc, n)..rd
    /\ \A j \in (EndOf(sc, n) + 1)..c : Bytes(sc)[j] \in Newline
    /\ bf = Slice(Bytes(sc), c, rd)

\* There is nothing to be handed out: the next item is not complete, and what
\* there is of it, unless it is a heart-beat, is what the buffer holds.
Waits(sc, rd, bf, ot, n, c) ==
    /\ Holding(sc, rd, bf, ot, n, c)
    /\ n < Len(sc) => rd < EndOf(sc, n + 1)
    /\ bf = << >> \/ (c = EndOf(sc, n) /\ Bytes(sc)[c + 1] \notin Newline)

\* The item behind the first n, which is complete, has ended the stream.
Stopped(sc, rd, ot, n, fate) ==
    /\ Handed(sc, rd, ot, n) /\ n < Len(sc) /\ EndOf(sc, n + 1) <= rd
    /\ fate \in {"bad", "no message"} /\ Fate(sc[n + 1]) = fate

Waiting == {"reading", "end", "torn", "too long"}

StreamInv ==
    /\ script \in Seq(Items) /\ read \in 0..Len(Bytes(script))
    /\ transit \in {<< >>, Slice(Bytes(script), read, Len(Bytes(script)))}
    /\ pc \in {"decoding", "bad", "no message"} \cup Waiting

DecodeInv ==
    /\ pc = "decoding" =>
         \E n \in 0..Len(script), c \in 0..read : Holding(script, read, buf, out, n, c)
    /\ pc \in Waiting =>
         \E n \in 0..Len(script), c \in 0..read : Waits(script, read, buf, out, n, c)
    /\ pc \in {"bad", "no message"} =>
         \E n \in 0..Len(script) : Stopped(script, read, out, n, pc)

BufferInv ==
    /\ pc = "reading" => Len(buf) <= MaxFrame
    /\ pc = "too long" => Len(buf) > MaxFrame
    /\ pc = "end" => buf = << >>
    /\ pc = "torn" => buf # << >>

Inv == StreamInv /\ DecodeInv /\ BufferInv

-----------------------------------------------------------------------------
(* What the server sends *)

LEMMA FramedIs ==
    ASSUME NEW g \in Framed
    PROVE  /\ g.command \in Symbols \ NotAlpha /\ g.headers \in Seq(Headers)
           /\ g.body \in Seq(Symbols) /\ g.eol \in Eols
           /\ DOMAIN g.headers = 1..Len(g.headers)
           /\ DOMAIN g.body = 1..Len(g.body)
           /\ \A i \in DOMAIN g.headers : DOMAIN g.headers[i].value = 1..Len(g.headers[i].value)
<1> DEFINE H == [key : Seq(STRING), value : Seq(STRING)]
<1>1. /\ g.command \in STRING \ NotAlpha /\ g.headers \in Seq(H) /\ g.body \in Seq(STRING)
      /\ g.eol \in Eols
    BY DEF Framed, Eols
<1>2. /\ Len(g.headers) \in Nat /\ DOMAIN g.headers = 1..Len(g.headers)
      /\ \A i \in 1..Len(g.headers) : g.headers[i] \in H
    BY <1>1, LenProperties, ElementOfSeq
<1>3. \A i \in 1..Len(g.headers) : /\ g.headers[i] \in Headers
                                   /\ g.headers[i].value \in Seq(STRING)
    BY <1>2, StringsAreSymbols DEF Headers
<1>4. g.headers \in Seq(Headers)
  <2>1. g.headers = [i \in 1..Len(g.headers) |-> g.headers[i]]
    <3>1. PICK hs : hs = g.headers
        OBVIOUS
    <3>2. hs \in Seq(H)
        BY <1>1, <3>1
    <3> HIDE DEF H
    <3>3. hs = [i \in 1..Len(hs) |-> hs[i]]
        BY <3>2, LenProperties
    <3> QED  BY <3>1, <3>3
  <2>2. g.headers \in [1..Len(g.headers) -> Headers]
      BY <1>3, <2>1
  <2> QED  BY <1>2, <2>2, SMTT(30)
<1>5. DOMAIN g.body = 1..Len(g.body)
    BY <1>1, LenProperties
<1>6. \A i \in DOMAIN g.headers : DOMAIN g.headers[i].value = 1..Len(g.headers[i].value)
    BY <1>2, <1>3, LenProperties
<1> QED  BY <1>1, <1>2, <1>4, <1>5, <1>6, StringsAreSymbols

\* A frame of the server's, with its length if it needs one, can be sent and
\* read back, and the length makes a message of nothing that was none.
LEMMA FrameIs ==
    ASSUME NEW f \in Frames
    PROVE  /\ Sendable(WithLength(f)) /\ Delimited(Escaped(WithLength(f)), WithLength(f).body)
           /\ WithLength(f).command = f.command
           /\ IsMessage(f.command, WithLength(f).headers) <=> IsMessage(f.command, f.headers)
<1>1. PICK g : g = WithLength(f)
    OBVIOUS
<1>2. f \in Framed /\ g \in Framed /\ Legible(g)
    BY <1>1, CodecAssumption
<1>3. /\ g.headers \in Seq(Headers) /\ g.body \in Seq(Symbols)
      /\ DOMAIN g.headers = 1..Len(g.headers) /\ DOMAIN g.body = 1..Len(g.body)
      /\ \A i \in DOMAIN g.headers : DOMAIN g.headers[i].value = 1..Len(g.headers[i].value)
    BY <1>2, FramedIs
<1>4. Sendable(g)
  <2>1. ASSUME NEW i \in DOMAIN g.headers
        PROVE  /\ g.headers[i].key # << >> /\ Escape(g.headers[i].key) = g.headers[i].key
               /\ ~HeadersAreEscaped(g.command) =>
                    \A j \in 1..Len(g.headers[i].value) : g.headers[i].value[j] \notin {"CR", "LF"}
      BY <1>2, <1>3 DEF Legible
  <2> QED  BY <1>2, <2>1, FramedIs DEF Sendable
<1>5. Delimited(Escaped(g), g.body)
    BY <1>2, <1>3, <1>4, ContentLengthKept DEF Legible, Delimited
<1>6. g = f \/ /\ g.command = f.command
               /\ g.headers = Append(f.headers, [key |-> <<"content-length">>,
                                                 value |-> <<Numerals[Len(f.body) + 1]>>])
  <2>1. f = [command |-> f.command, headers |-> f.headers, body |-> f.body, eol |-> f.eol]
      BY <1>2 DEF Framed
  <2> QED  BY <1>1, <2>1 DEF WithLength
<1>7. ASSUME NEW h, g.headers = Append(f.headers, h), h.key = <<"content-length">>, NEW k,
             k # "content-length"
      PROVE  HasKey(g.headers, <<k>>) <=> HasKey(f.headers, <<k>>)
  <2>1. <<k>> # <<"content-length">>
      BY <1>7
  <2>2. f.headers \in Seq(Headers) /\ DOMAIN f.headers = 1..Len(f.headers) /\ Len(f.headers) \in Nat
      BY <1>2, FramedIs, LenProperties
  <2>3. /\ DOMAIN g.headers = 1..(Len(f.headers) + 1)
        /\ \A i \in 1..Len(f.headers) : g.headers[i] = f.headers[i]
        /\ g.headers[Len(f.headers) + 1] = h
    <3>1. PICK T : f.headers \in Seq(T) /\ h \in T
      <4> DEFINE T == Headers \cup {h}
      <4>1. h \in T /\ \A i \in 1..Len(f.headers) : f.headers[i] \in T
          BY <2>2, ElementOfSeq
      <4>2. f.headers = [i \in 1..Len(f.headers) |-> f.headers[i]]
          BY <2>2
      <4> HIDE DEF T
      <4>3. f.headers \in [1..Len(f.headers) -> T]
          BY <4>1, <4>2
      <4>4. f.headers \in Seq(T)
          BY <2>2, <4>3
      <4> QED  BY <4>1, <4>4
    <3>2. /\ Append(f.headers, h) \in Seq(T) /\ Len(Append(f.headers, h)) = Len(f.headers) + 1
          /\ \A i \in 1..Len(f.headers) : Append(f.headers, h)[i] = f.headers[i]
          /\ Append(f.headers, h)[Len(f.headers) + 1] = h
        BY <3>1, AppendProperties
    <3> QED  BY <1>3, <1>7, <3>2
  <2>4. \A i \in 1..(Len(f.headers) + 1) : i \in 1..Len(f.headers) \/ i = Len(f.headers) + 1
      BY <2>2
  <2>5. \A i \in 1..Len(f.headers) : i \in 1..(Len(f.headers) + 1)
      BY <2>2
  <2> QED  BY <1>7, <2>1, <2>2, <2>3, <2>4, <2>5 DEF HasKey
<1>8. \A c \in DOMAIN Expected : \A k \in Required[c] : k # "content-length"
    BY DEF Expected, Required
<1>9. IsMessage(f.command, g.headers) <=> IsMessage(f.command, f.headers)
  <2>1. CASE g = f
      BY <2>1
  <2>2. CASE g.headers = Append(f.headers, [key |-> <<"content-length">>,
                                            value |-> <<Numerals[Len(f.body) + 1]>>])
    <3>1. PICK h : h = [key |-> <<"content-length">>, value |-> <<Numerals[Len(f.body) + 1]>>]
        OBVIOUS
    <3>2. g.headers = Append(f.headers, h) /\ h.key = <<"content-length">>
        BY <2>2, <3>1
    <3>3. \A k : k # "content-length" => (HasKey(g.headers, <<k>>) <=> HasKey(f.headers, <<k>>))
        BY <1>7, <3>2
    <3> QED  BY <1>8, <3>3 DEF IsMessage
  <2> QED  BY <1>6, <2>1, <2>2
<1>10. g.command = f.command
    BY <1>6
<1> QED  BY <1>1, <1>4, <1>5, <1>9, <1>10

\* The items, one kind after the other.
LEMMA ItemKinds ==
    ASSUME NEW x \in Items
    PROVE  \/ /\ x.kind = "frame" /\ x.frame \in Frames
              /\ x.bytes = Serialize(WithLength(x.frame))
           \/ x.kind = "beat" /\ x.bytes \in Eols
           \/ x.kind = "junk" /\ x.bytes \in Junk
BY DEF Items, Eols

LEMMA ItemIs ==
    ASSUME NEW x \in Items
    PROVE  /\ x.bytes \in Seq(Symbols) /\ Len(x.bytes) \in Nat \ {0}
           /\ x.kind = "beat" => \A j \in 1..Len(x.bytes) : x.bytes[j] \in Newline
           /\ x.kind # "beat" => x.bytes[1] \notin Newline
           /\ x.kind = "beat" <=> Fate(x) = "dropped"
<1>1. CASE x.kind = "frame" /\ x.frame \in Frames /\ x.bytes = Serialize(WithLength(x.frame))
  <2>1. PICK f \in Frames : f = x.frame
      BY <1>1
  <2>2. PICK g : g = WithLength(f)
      OBVIOUS
  <2>3. Sendable(g)
      BY <2>2, FrameIs
  <2>4. Wellformed(g)
      BY <2>3, SendableIs
  <2>5. /\ Serialize(g) \in Seq(Symbols) /\ Serialize(g)[1] = g.command
        /\ HoldsAt(Serialize(g), 1, g.eol)
      BY <2>4, SerializePlaces
  <2>6. Len(Serialize(g)) \in Nat \ {0}
    <3>1. Len(g.eol) \in Nat
        BY <2>4, EolIs DEF Wellformed
    <3>2. 1 + Len(g.eol) <= Len(Serialize(g)) /\ Len(Serialize(g)) \in Nat
        BY <2>5, LenProperties DEF HoldsAt
    <3> QED  BY <3>1, <3>2
  <2>7. g.command \notin Newline
      BY <2>4 DEF Wellformed, NotAlpha, Newline
  <2>8. Fate(x) # "dropped"
      BY <1>1 DEF Fate
  <2> QED  BY <1>1, <2>1, <2>2, <2>5, <2>6, <2>7, <2>8
<1>2. CASE x.kind = "beat" /\ x.bytes \in Eols
  <2>1. Fate(x) = "dropped"
      BY <1>2 DEF Fate
  <2>2. x.bytes \in Seq(Symbols) /\ Len(x.bytes) \in Nat \ {0}
      BY <1>2, EolIs
  <2>3. \A j \in 1..Len(x.bytes) : x.bytes[j] \in Newline
    <3>1. CASE x.bytes = <<"LF">>
        BY <3>1 DEF Newline
    <3>2. CASE x.bytes = <<"CR", "LF">>
      <4>1. Len(x.bytes) = 2 /\ x.bytes[1] = "CR" /\ x.bytes[2] = "LF"
          BY <3>2
      <4>2. \A j \in 1..2 : j = 1 \/ j = 2
          OBVIOUS
      <4> QED  BY <4>1, <4>2 DEF Newline
    <3> QED  BY <1>2, <3>1, <3>2 DEF Eols
  <2> QED  BY <1>2, <2>1, <2>2, <2>3
<1>3. CASE x.kind = "junk" /\ x.bytes \in Junk
  <2>1. Fate(x) = "bad"
      BY <1>3 DEF Fate
  <2>2. x.bytes \in Seq(STRING) /\ x.bytes # << >> /\ x.bytes[1] \notin {"CR", "LF"}
      BY <1>3, CodecAssumption
  <2>3. x.bytes \in Seq(Symbols)
      BY <2>2, StringsAreSymbols
  <2>4. Len(x.bytes) \in Nat \ {0}
      BY <2>2, <2>3, LenProperties, EmptySeq
  <2> QED  BY <1>3, <2>1, <2>2, <2>3, <2>4 DEF Newline
<1> QED  BY <1>1, <1>2, <1>3, ItemKinds

\* Part of an item makes the parser ask for more.
LEMMA PartOfItem ==
    ASSUME NEW x \in Items, x.kind # "beat", NEW w \in Seq(Symbols), w # << >>,
           Extends(w, x.bytes), Len(w) < Len(x.bytes)
    PROVE  ParseFrame(w) = More
<1>1. CASE x.kind = "frame" /\ x.frame \in Frames /\ x.bytes = Serialize(WithLength(x.frame))
  <2>1. PICK f \in Frames : f = x.frame
      BY <1>1
  <2>2. PICK g : g = WithLength(f)
      OBVIOUS
  <2>3. Sendable(g) /\ Delimited(Escaped(g), g.body)
      BY <2>2, FrameIs
  <2>4. Wellformed(g)
      BY <2>3, SendableIs
  <2> QED  BY <1>1, <2>1, <2>2, <2>3, <2>4, FrameInStream
<1>2. CASE x.kind = "junk" /\ x.bytes \in Junk
  <2>1. PICK j \in Junk : j = x.bytes
      BY <1>2
  <2>2. \A k \in 1..(Len(j) - 1) : ParseFrame(SubSeq(j, 1, k)) = More
      BY CodecAssumption
  <2>3. j \in Seq(Symbols) /\ Len(j) \in Nat /\ Len(w) \in Nat \ {0}
      BY <2>1, ItemIs, LenProperties, EmptySeq
  <2>4. Len(w) \in 1..(Len(j) - 1) /\ Len(w) <= Len(w) /\ Len(w) \in Int /\ 1 \in Nat \ {0}
      BY <2>1, <2>3
  <2>5. SubSeq(j, 1, Len(w)) = SubSeq(w, 1, Len(w))
      BY <2>1, <2>3, <2>4, SubSeqStable, SMTT(30)
  <2>6. SubSeq(w, 1, Len(w)) = w
      BY SubSeqFull
  <2> QED  BY <2>2, <2>4, <2>5, <2>6
<1> QED  BY <1>1, <1>2, ItemKinds

\* All of it makes the parser decide, whatever comes behind it.
LEMMA WholeItem ==
    ASSUME NEW x \in Items, x.kind # "beat", NEW w \in Seq(Symbols), w # << >>,
           Extends(x.bytes, w)
    PROVE  \/ Fate(x) = "bad" /\ ParseFrame(w) = Bad
           \/ /\ Fate(x) = "message" /\ ParseFrame(w).is = "ok"
              /\ IsMessage(ParseFrame(w).frame.command, ParseFrame(w).frame.headers)
              /\ ToServerMsg(ParseFrame(w).frame) = Meant(x)
              /\ ParseFrame(w).at = Opt(w, Len(x.bytes) + 1)
           \/ /\ Fate(x) = "no message" /\ ParseFrame(w).is = "ok"
              /\ ~IsMessage(ParseFrame(w).frame.command, ParseFrame(w).frame.headers)
<1>1. CASE x.kind = "frame" /\ x.frame \in Frames /\ x.bytes = Serialize(WithLength(x.frame))
  <2>1. PICK f \in Frames : f = x.frame
      BY <1>1
  <2>2. PICK g : g = WithLength(f)
      OBVIOUS
  <2>3. /\ Sendable(g) /\ Delimited(Escaped(g), g.body) /\ g.command = f.command
        /\ IsMessage(f.command, g.headers) <=> IsMessage(f.command, f.headers)
      BY <2>2, FrameIs
  <2>4. Wellformed(g)
      BY <2>3, SendableIs
  <2>5. /\ ParseFrame(w).is = "ok" /\ ParseFrame(w).frame = Parsed(g)
        /\ ParseFrame(w).at = Opt(w, Len(Serialize(g)) + 1)
      BY <1>1, <2>1, <2>2, <2>3, <2>4, FrameInStream
  <2>6. /\ IsMessage(g.command, Escaped(g)) <=> IsMessage(g.command, g.headers)
        /\ ToServerMsg(Parsed(g)) =
             MessageOf(g.command, g.headers, Escaped(g),
                       IF g.body = << >> /\ ContentLength(g.headers) = {} THEN {} ELSE {g.body})
      BY <2>3, ReadBack
  <2>7. Parsed(g).command = g.command /\ Parsed(g).headers = Escaped(g)
      BY DEF Parsed
  <2>8. Meant(x) = ToServerMsg(Parsed(g))
      BY <2>1, <2>2, <2>6 DEF Meant
  <2>9. Fate(x) = IF IsMessage(f.command, f.headers) THEN "message" ELSE "no message"
      BY <1>1, <2>1 DEF Fate
  <2>10. IsMessage(ParseFrame(w).frame.command, ParseFrame(w).frame.headers) <=> IsMessage(f.command, f.headers)
      BY <2>3, <2>5, <2>6, <2>7
  <2>11. Len(Serialize(g)) = Len(x.bytes)
      BY <1>1, <2>1, <2>2
  <2> QED  BY <2>5, <2>8, <2>9, <2>10, <2>11
<1>2. CASE x.kind = "junk" /\ x.bytes \in Junk
  <2>1. PICK j \in Junk : j = x.bytes
      BY <1>2
  <2>2. ParseFrame(j) = Bad /\ j # << >> /\ j[1] \notin {"CR", "LF"}
      BY CodecAssumption
  <2>3. Bad # More /\ Bad.is # "ok"
      BY VerdictsAre
  <2>4. j \in Seq(Symbols) /\ Extends(j, w)
      BY <2>1, ItemIs
  <2>5. ParseFrame(w) = Bad
      BY <2>2, <2>3, <2>4, ParserIsStable
  <2>6. Fate(x) = "bad"
      BY <1>2 DEF Fate
  <2> QED  BY <2>5, <2>6
<1> QED  BY <1>1, <1>2, ItemKinds

-----------------------------------------------------------------------------
(* Where the items stand in the stream *)

LEMMA Prefix ==
    ASSUME NEW S, NEW sc \in Seq(S), NEW n \in 0..Len(sc)
    PROVE  /\ SubSeq(sc, 1, n) \in Seq(S) /\ Len(SubSeq(sc, 1, n)) = n
           /\ \A i \in 1..n : SubSeq(sc, 1, n)[i] = sc[i]
<1>1. Len(sc) \in Nat /\ \A i \in 1..n : sc[i] \in S
    BY LenProperties, ElementOfSeq
<1>2. /\ SubSeq(sc, 1, n) \in Seq(S)
      /\ Len(SubSeq(sc, 1, n)) = IF 1 <= n THEN n - 1 + 1 ELSE 0
      /\ \A i \in 1..(n - 1 + 1) : SubSeq(sc, 1, n)[i] = sc[1 + i - 1]
    BY <1>1, SubSeqProperties
<1>3. Len(SubSeq(sc, 1, n)) = n
    BY <1>1, <1>2
<1>4. \A i \in 1..n : i \in 1..(n - 1 + 1) /\ 1 + i - 1 = i
    BY <1>1
<1> QED  BY <1>2, <1>3, <1>4

ItemPlaces(at, sc) ==
    /\ at[0] = 0 /\ at[Len(sc)] = Len(Bytes(sc))
    /\ \A i \in 0..Len(sc) : at[i] \in Nat
    /\ \A i \in 1..Len(sc) : /\ at[i] = at[i - 1] + Len(sc[i].bytes)
                             /\ HoldsAt(Bytes(sc), at[i - 1], sc[i].bytes)

LEMMA BytesPlaces ==
    ASSUME NEW sc \in Seq(Items)
    PROVE  Bytes(sc) \in Seq(Symbols) /\ \E at : ItemPlaces(at, sc)
<1> DEFINE seqs == [i \in DOMAIN sc |-> sc[i].bytes]
<1>1. Len(sc) \in Nat /\ DOMAIN sc = 1..Len(sc) /\ \A i \in 1..Len(sc) : sc[i] \in Items
    BY LenProperties, ElementOfSeq
<1>2. \A i \in 1..Len(sc) : seqs[i] = sc[i].bytes /\ seqs[i] \in Seq(Symbols)
    BY <1>1, ItemIs
<1>3. seqs \in Seq(Seq(Symbols)) /\ Len(seqs) = Len(sc)
  <2>1. seqs \in [1..Len(sc) -> Seq(Symbols)]
      BY <1>1, <1>2
  <2> HIDE DEF seqs
  <2> QED  BY <1>1, <2>1
<1>4. Bytes(sc) = FlattenSeq(seqs)
    BY DEF Bytes
<1> HIDE DEF seqs
<1>5. FlattenSeq(seqs) \in Seq(Symbols) /\ \E at : Places(at, FlattenSeq(seqs), seqs)
    BY <1>3, AllPlaces
<1>6. PICK at : Places(at, Bytes(sc), seqs)
    BY <1>4, <1>5
<1>7. ItemPlaces(at, sc)
    BY <1>1, <1>2, <1>3, <1>6 DEF Places, ItemPlaces
<1> QED  BY <1>4, <1>5, <1>7

LEMMA EndsAre ==
    ASSUME NEW sc \in Seq(Items)
    PROVE  /\ Bytes(sc) \in Seq(Symbols) /\ Len(Bytes(sc)) \in Nat /\ Len(sc) \in Nat
           /\ EndOf(sc, 0) = 0 /\ EndOf(sc, Len(sc)) = Len(Bytes(sc))
           /\ \A i \in 0..Len(sc) : EndOf(sc, i) \in Nat
           /\ \A i \in 1..Len(sc) : /\ EndOf(sc, i) = EndOf(sc, i - 1) + Len(sc[i].bytes)
                                    /\ HoldsAt(Bytes(sc), EndOf(sc, i - 1), sc[i].bytes)
<1>1. PICK at : ItemPlaces(at, sc)
    BY BytesPlaces
<1>2. Len(sc) \in Nat
    BY LenProperties
<1>3. ASSUME NEW n \in 0..Len(sc) PROVE EndOf(sc, n) = at[n]
  <2>1. PICK p : p = SubSeq(sc, 1, n)
      OBVIOUS
  <2>2. p \in Seq(Items) /\ Len(p) = n /\ \A i \in 1..n : p[i] = sc[i]
      BY <2>1, Prefix
  <2>3. PICK pt : ItemPlaces(pt, p)
      BY <2>2, BytesPlaces
  <2> DEFINE S == {k \in 0..n : pt[k] = at[k]}
  <2>4. 0 \in S
      BY <1>1, <2>3 DEF ItemPlaces
  <2>5. ASSUME NEW k \in 0..(n - 1), k \in S PROVE k + 1 \in S
    <3>1. PICK i : i = k + 1
        OBVIOUS
    <3>2. i \in 1..n /\ i \in 1..Len(sc) /\ i - 1 = k /\ i \in 0..n
        BY <1>2, <3>1
    <3>3. pt[i] = pt[k] + Len(p[i].bytes)
        BY <2>2, <2>3, <3>2 DEF ItemPlaces
    <3>4. at[i] = at[k] + Len(sc[i].bytes)
        BY <1>1, <3>2 DEF ItemPlaces
    <3>5. p[i] = sc[i] /\ pt[k] = at[k]
        BY <2>2, <2>5, <3>2
    <3>6. pt[i] = at[i]
        BY <3>3, <3>4, <3>5
    <3> QED  BY <3>1, <3>2, <3>6
  <2> HIDE DEF S
  <2>6. n \in S
    <3>1. n \in Nat /\ n \in 0..n
        BY <1>2
    <3> QED  BY <2>4, <2>5, <3>1, Induction
  <2>7. pt[n] = at[n]
      BY <2>6 DEF S
  <2>8. pt[n] = Len(Bytes(p))
      BY <2>2, <2>3 DEF ItemPlaces
  <2> QED  BY <2>1, <2>7, <2>8 DEF EndOf
<1>4. 0 \in 0..Len(sc) /\ Len(sc) \in 0..Len(sc) /\ \A i \in 1..Len(sc) : i \in 0..Len(sc) /\ i - 1 \in 0..Len(sc)
    BY <1>2
<1>5. EndOf(sc, 0) = 0 /\ EndOf(sc, Len(sc)) = Len(Bytes(sc)) /\ \A i \in 0..Len(sc) : EndOf(sc, i) \in Nat
    BY <1>1, <1>3, <1>4 DEF ItemPlaces
<1>6. ASSUME NEW i \in 1..Len(sc)
      PROVE  /\ EndOf(sc, i) = EndOf(sc, i - 1) + Len(sc[i].bytes)
             /\ HoldsAt(Bytes(sc), EndOf(sc, i - 1), sc[i].bytes)
  <2>1. PICK h : h = i - 1
      OBVIOUS
  <2>2. h \in 0..Len(sc) /\ i \in 0..Len(sc)
      BY <1>4, <2>1
  <2>3. EndOf(sc, h) = at[h] /\ EndOf(sc, i) = at[i]
      BY <1>3, <2>2
  <2>4. at[i] = at[h] + Len(sc[i].bytes) /\ HoldsAt(Bytes(sc), at[h], sc[i].bytes)
      BY <1>1, <2>1 DEF ItemPlaces
  <2> QED  BY <2>1, <2>3, <2>4
<1> QED  BY <1>2, <1>5, <1>6, BytesPlaces, LenProperties

\* The same, seen from the item before.
LEMMA NextItem ==
    ASSUME NEW sc \in Seq(Items), NEW n \in 0..Len(sc), n < Len(sc)
    PROVE  /\ n + 1 \in 1..Len(sc) /\ sc[n + 1] \in Items
           /\ EndOf(sc, n) \in Nat /\ EndOf(sc, n + 1) \in Nat
           /\ Len(sc[n + 1].bytes) \in Nat \ {0}
           /\ EndOf(sc, n + 1) = EndOf(sc, n) + Len(sc[n + 1].bytes)
           /\ EndOf(sc, n + 1) <= Len(Bytes(sc))
           /\ HoldsAt(Bytes(sc), EndOf(sc, n), sc[n + 1].bytes)
<1>0. Len(sc) \in Nat /\ Len(Bytes(sc)) \in Nat
    BY EndsAre
<1>1. PICK i : i = n + 1
    OBVIOUS
<1>2. i \in 1..Len(sc) /\ i \in 0..Len(sc) /\ i - 1 = n
    BY <1>0, <1>1
<1>3. /\ EndOf(sc, i) = EndOf(sc, n) + Len(sc[i].bytes)
      /\ HoldsAt(Bytes(sc), EndOf(sc, n), sc[i].bytes)
      /\ EndOf(sc, n) \in Nat /\ EndOf(sc, i) \in Nat
    BY <1>2, EndsAre
<1>4. sc[i] \in Items
    BY <1>2, ElementOfSeq
<1>5. Len(sc[i].bytes) \in Nat \ {0}
    BY <1>4, ItemIs
<1>6. EndOf(sc, i) <= Len(Bytes(sc))
  <2>1. EndOf(sc, n) + Len(sc[i].bytes) <= Len(Bytes(sc))
      BY <1>3 DEF HoldsAt
  <2> QED  BY <1>3, <2>1
<1> QED  BY <1>1, <1>2, <1>3, <1>4, <1>5, <1>6

LEMMA EndsGrow ==
    ASSUME NEW sc \in Seq(Items), NEW i \in 0..Len(sc), NEW j \in 0..Len(sc), i < j
    PROVE  EndOf(sc, i) < EndOf(sc, j)
<1> DEFINE N == Len(sc)
           S == {k \in 0..N : \A h \in 0..N : h < k => EndOf(sc, h) < EndOf(sc, k)}
<1>0. N \in Nat
    BY EndsAre
<1>1. 0 \in S
    BY <1>0
<1>2. ASSUME NEW n \in 0..(N - 1), n \in S PROVE n + 1 \in S
  <2>1. n \in 0..N /\ n < N /\ n + 1 \in 0..N
      BY <1>0
  <2>2. /\ EndOf(sc, n) \in Nat /\ Len(sc[n + 1].bytes) \in Nat \ {0}
        /\ EndOf(sc, n + 1) = EndOf(sc, n) + Len(sc[n + 1].bytes)
      BY <2>1, NextItem
  <2>3. EndOf(sc, n) < EndOf(sc, n + 1) /\ EndOf(sc, n + 1) \in Nat
      BY <2>2
  <2>4. ASSUME NEW h \in 0..N, h < n + 1 PROVE EndOf(sc, h) < EndOf(sc, n + 1)
    <3>1. CASE h = n
        BY <2>3, <3>1
    <3>2. CASE h # n
      <4>1. h < n
          BY <2>4, <3>2
      <4>2. EndOf(sc, h) < EndOf(sc, n) /\ EndOf(sc, h) \in Nat
          BY <1>2, <4>1, EndsAre
      <4> QED  BY <2>2, <2>3, <4>2
    <3> QED  BY <3>1, <3>2
  <2> QED  BY <2>1, <2>4
<1> HIDE DEF S
<1>3. j \in S
  <2> HIDE DEF N
  <2>1. \A k \in 0..N : k \in S
      BY <1>0, <1>1, <1>2, Induction
  <2> QED  BY <2>1 DEF N
<1> QED  BY <1>3 DEF S

\* How many items end by d.
LEMMA LastEnd ==
    ASSUME NEW sc \in Seq(Items), NEW d \in 0..Len(Bytes(sc))
    PROVE  \E m \in 0..Len(sc) : EndOf(sc, m) <= d /\ (m < Len(sc) => d < EndOf(sc, m + 1))
<1> DEFINE N == Len(sc)
           S == {i \in 0..N : i = N \/ d < EndOf(sc, i + 1)}
<1>0. N \in Nat /\ d \in Nat /\ EndOf(sc, 0) = 0
    BY EndsAre
<1>1. S \subseteq Nat /\ S # {}
  <2>1. N \in S
      BY <1>0
  <2> QED  BY <2>1
<1>2. PICK m \in S : \A n \in S : m <= n
  <2> HIDE DEF S
  <2> QED  BY <1>1, LeastElement
<1>3. EndOf(sc, m) <= d
  <2>1. CASE m = 0
      BY <1>0, <2>1
  <2>2. CASE m # 0
    <3>1. PICK l : l = m - 1
        OBVIOUS
    <3>2. l \in 0..N /\ l # N /\ l + 1 = m /\ ~(m <= l) /\ m \in 0..N
        BY <1>0, <2>2, <3>1
    <3>3. l \notin S
        BY <1>2, <3>2
    <3>4. ~(d < EndOf(sc, m))
        BY <3>2, <3>3
    <3>5. EndOf(sc, m) \in Nat
        BY <3>2, EndsAre
    <3> QED  BY <1>0, <3>4, <3>5
  <2> QED  BY <2>1, <2>2
<1>4. m \in 0..N /\ (m < N => d < EndOf(sc, m + 1))
    BY <1>0
<1> QED  BY <1>3, <1>4

-----------------------------------------------------------------------------
(* The messages of a script *)

Picked(items) == Selected(items, {i \in DOMAIN items : Fate(items[i]) = "message"})
Meanings == {Meant(x) : x \in Items}

LEMMA PickedStep ==
    ASSUME NEW sc \in Seq(Items), NEW n \in 0..Len(sc), n < Len(sc)
    PROVE  Picked(SubSeq(sc, 1, n + 1)) =
               IF Fate(sc[n + 1]) = "message" THEN Append(Picked(SubSeq(sc, 1, n)), sc[n + 1])
               ELSE Picked(SubSeq(sc, 1, n))
<1>0. Len(sc) \in Nat
    BY LenProperties
<1>1. PICK k : k = n + 1
    OBVIOUS
<1>2. k \in 0..Len(sc) /\ k \in 1..k
    BY <1>0, <1>1
<1>3. PICK s, t : s = SubSeq(sc, 1, n) /\ t = SubSeq(sc, 1, k)
    OBVIOUS
<1>4. /\ s \in Seq(Items) /\ Len(s) = n /\ \A i \in 1..n : s[i] = sc[i]
      /\ t \in Seq(Items) /\ Len(t) = k /\ \A i \in 1..k : t[i] = sc[i]
    BY <1>2, <1>3, Prefix
<1> DEFINE D == {i \in DOMAIN s : Fate(s[i]) = "message"}
           E == {i \in DOMAIN t : Fate(t[i]) = "message"}
<1>5. DOMAIN s = 1..n /\ DOMAIN t = 1..k
    BY <1>4, LenProperties
<1>6. \A i \in 1..n : i \in 1..k
    BY <1>0, <1>1
<1>7. \A i \in 1..n : t[i] = s[i] /\ (i \in E <=> i \in D)
    BY <1>4, <1>5, <1>6
<1>8. k \in E <=> Fate(sc[k]) = "message"
    BY <1>2, <1>4, <1>5
<1>9. t[k] = sc[k]
    BY <1>2, <1>4
<1>10. Picked(s) = Selected(s, D) /\ Picked(t) = Selected(t, E)
    BY DEF Picked
<1> HIDE DEF D, E
<1>11. Len(s) \in Nat /\ Len(t) = Len(s) + 1 /\ \A i \in 1..Len(s) : t[i] = s[i] /\ (i \in E <=> i \in D)
    BY <1>0, <1>1, <1>4, <1>7
<1>12. Selected(t, E) = IF Len(t) \in E THEN Append(Selected(s, D), t[Len(t)]) ELSE Selected(s, D)
    BY <1>11, SelectedAppend
<1> QED  BY <1>1, <1>3, <1>4, <1>8, <1>9, <1>10, <1>12

LEMMA PickedType ==
    ASSUME NEW sc \in Seq(Items), NEW n \in 0..Len(sc)
    PROVE  Picked(SubSeq(sc, 1, n)) \in Seq(Items)
<1> DEFINE N == Len(sc)
           S == {k \in 0..N : Picked(SubSeq(sc, 1, k)) \in Seq(Items)}
<1>0. N \in Nat
    BY LenProperties
<1>1. 0 \in S
  <2>1. 0 \in 0..Len(sc)
      BY <1>0
  <2>2. Len(SubSeq(sc, 1, 0)) = 0
      BY <2>1, Prefix
  <2>3. Picked(SubSeq(sc, 1, 0)) = << >>
      BY <2>2, SelectedEmpty DEF Picked
  <2>4. << >> \in Seq(Items)
      BY EmptySeq
  <2>5. Picked(SubSeq(sc, 1, 0)) \in Seq(Items)
      BY <2>3, <2>4
  <2> QED  BY <2>1, <2>5
<1>2. ASSUME NEW k \in 0..(N - 1), k \in S PROVE k + 1 \in S
  <2>1. k \in 0..Len(sc) /\ k < Len(sc) /\ k + 1 \in 0..N /\ k + 1 \in 1..Len(sc)
      BY <1>0
  <2>2. sc[k + 1] \in Items
      BY <2>1, NextItem
  <2>3. PICK p, q : p = Picked(SubSeq(sc, 1, k)) /\ q = Picked(SubSeq(sc, 1, k + 1))
      OBVIOUS
  <2>4. q = p \/ q = Append(p, sc[k + 1])
      BY <2>1, <2>3, PickedStep
  <2>5. p \in Seq(Items)
      BY <1>2, <2>3
  <2>6. q \in Seq(Items)
      BY <2>2, <2>4, <2>5, AppendProperties
  <2> QED  BY <2>1, <2>3, <2>6
<1> HIDE DEF S
<1>3. n \in S
  <2> HIDE DEF N
  <2>1. \A k \in 0..N : k \in S
      BY <1>0, <1>1, <1>2, Induction
  <2> QED  BY <2>1 DEF N
<1> QED  BY <1>3 DEF S

LEMMA MeantSeq ==
    ASSUME NEW m \in Seq(Items)
    PROVE  /\ [i \in DOMAIN m |-> Meant(m[i])] \in Seq(Meanings)
           /\ Len([i \in DOMAIN m |-> Meant(m[i])]) = Len(m)
           /\ \A i \in 1..Len(m) : [j \in DOMAIN m |-> Meant(m[j])][i] = Meant(m[i])
<1> DEFINE o == [i \in DOMAIN m |-> Meant(m[i])]
<1>1. Len(m) \in Nat /\ DOMAIN m = 1..Len(m) /\ \A i \in 1..Len(m) : m[i] \in Items
    BY LenProperties, ElementOfSeq
<1>2. \A i \in 1..Len(m) : o[i] = Meant(m[i]) /\ o[i] \in Meanings
    BY <1>1 DEF Meanings
<1>3. o \in [1..Len(m) -> Meanings]
    BY <1>1, <1>2
<1> HIDE DEF o
<1>4. o \in Seq(Meanings) /\ Len(o) = Len(m)
    BY <1>1, <1>3
<1> QED  BY <1>2, <1>4 DEF o

LEMMA MessagesStep ==
    ASSUME NEW sc \in Seq(Items), NEW n \in 0..Len(sc), n < Len(sc)
    PROVE  Messages(SubSeq(sc, 1, n + 1)) =
               IF Fate(sc[n + 1]) = "message"
               THEN Append(Messages(SubSeq(sc, 1, n)), Meant(sc[n + 1]))
               ELSE Messages(SubSeq(sc, 1, n))
<1>1. PICK m, k : m = Picked(SubSeq(sc, 1, n)) /\ k = Picked(SubSeq(sc, 1, n + 1))
    OBVIOUS
<1>2. k = IF Fate(sc[n + 1]) = "message" THEN Append(m, sc[n + 1]) ELSE m
    BY <1>1, PickedStep
<1>3. m \in Seq(Items) /\ sc[n + 1] \in Items
    BY <1>1, PickedType, NextItem
<1>4. /\ Messages(SubSeq(sc, 1, n)) = [i \in DOMAIN m |-> Meant(m[i])]
      /\ Messages(SubSeq(sc, 1, n + 1)) = [i \in DOMAIN k |-> Meant(k[i])]
    BY <1>1 DEF Messages, Picked
<1>5. CASE Fate(sc[n + 1]) # "message"
    BY <1>2, <1>4, <1>5
<1>6. CASE Fate(sc[n + 1]) = "message"
  <2>1. PICK x : x = sc[n + 1]
      OBVIOUS
  <2>2. k = Append(m, x) /\ x \in Items
      BY <1>2, <1>3, <1>6, <2>1
  <2>3. /\ k \in Seq(Items) /\ Len(k) = Len(m) + 1 /\ Len(m) \in Nat
        /\ \A i \in 1..Len(m) : k[i] = m[i]
        /\ k[Len(m) + 1] = x
      BY <1>3, <2>2, AppendProperties, LenProperties
  <2> DEFINE a == [i \in DOMAIN m |-> Meant(m[i])]
             b == [i \in DOMAIN k |-> Meant(k[i])]
  <2>4. /\ a \in Seq(Meanings) /\ Len(a) = Len(m) /\ \A i \in 1..Len(m) : a[i] = Meant(m[i])
      BY <1>3, MeantSeq
  <2>5. /\ b \in Seq(Meanings) /\ Len(b) = Len(k) /\ \A i \in 1..Len(k) : b[i] = Meant(k[i])
      BY <2>3, MeantSeq
  <2> HIDE DEF a, b
  <2>6. Meant(x) \in Meanings
      BY <2>2 DEF Meanings
  <2>7. PICK c : c = Append(a, Meant(x))
      OBVIOUS
  <2>8. /\ c \in Seq(Meanings) /\ Len(c) = Len(m) + 1
        /\ \A i \in 1..Len(m) : c[i] = a[i]
        /\ c[Len(m) + 1] = Meant(x)
      BY <2>4, <2>6, <2>7, AppendProperties
  <2>9. ASSUME NEW i \in 1..(Len(m) + 1) PROVE b[i] = c[i]
    <3>1. CASE i = Len(m) + 1
        BY <2>3, <2>5, <2>8, <3>1
    <3>2. CASE i \in 1..Len(m)
        BY <2>3, <2>4, <2>5, <2>8, <3>2
    <3> QED  BY <2>3, <3>1, <3>2
  <2>10. b = c
      BY <2>3, <2>5, <2>8, <2>9, SeqEqual
  <2>11. [i \in DOMAIN k |-> Meant(k[i])] = Append([i \in DOMAIN m |-> Meant(m[i])], Meant(x))
      BY <2>7, <2>10 DEF a, b
  <2> QED  BY <1>4, <1>6, <2>1, <2>11
<1> QED  BY <1>5, <1>6

LEMMA MessagesType ==
    ASSUME NEW sc \in Seq(Items), NEW n \in 0..Len(sc)
    PROVE  Messages(SubSeq(sc, 1, n)) \in Seq(Meanings)
<1>1. PICK m : m = Picked(SubSeq(sc, 1, n)) /\ m \in Seq(Items)
    BY PickedType
<1>2. Messages(SubSeq(sc, 1, n)) = [i \in DOMAIN m |-> Meant(m[i])]
    BY <1>1 DEF Messages, Picked
<1> QED  BY <1>1, <1>2, MeantSeq

LEMMA NoMessagesYet == ASSUME NEW sc \in Seq(Items) PROVE Messages(SubSeq(sc, 1, 0)) = << >>
<1>1. Len(sc) \in Nat /\ 0 \in 0..Len(sc)
    BY LenProperties
<1>2. Len(SubSeq(sc, 1, 0)) = 0
    BY <1>1, Prefix
<1>3. Picked(SubSeq(sc, 1, 0)) = << >>
    BY <1>2, SelectedEmpty DEF Picked
<1>4. Messages(SubSeq(sc, 1, 0)) = [i \in DOMAIN << >> |-> Meant(<< >>[i])]
    BY <1>3 DEF Messages, Picked
<1>5. DOMAIN << >> = {}
    OBVIOUS
<1> QED  BY <1>4, <1>5

LEMMA ExtendsIsPrefix ==
    ASSUME NEW B, NEW a \in Seq(B), NEW b \in Seq(B), Extends(a, b)
    PROVE  IsPrefix(a, b)
<1>1. PICK one, l : one = 1 /\ l = Len(a)
    OBVIOUS
<1>2. one \in Nat \ {0} /\ l \in Int /\ l <= Len(a)
    BY <1>1, LenProperties
<1>3. SubSeq(b, one, l) = SubSeq(a, one, l)
    BY <1>2, SubSeqStable
<1> QED  BY <1>1, <1>3 DEF IsPrefix, Extends

\* More items, more messages: what was handed out stays as it is.
LEMMA MessagesGrow ==
    ASSUME NEW sc \in Seq(Items), NEW n \in 0..Len(sc), NEW k \in 0..Len(sc), n <= k
    PROVE  IsPrefix(Messages(SubSeq(sc, 1, n)), Messages(SubSeq(sc, 1, k)))
<1> DEFINE N == Len(sc)
           M(j) == Messages(SubSeq(sc, 1, j))
           S == {j \in 0..N : n <= j => Extends(M(n), M(j))}
<1>0. N \in Nat
    BY LenProperties
<1>00. \A j \in 0..N : M(j) \in Seq(Meanings) /\ Len(M(j)) \in Nat
    BY MessagesType, LenProperties
<1>01. Extends(M(n), M(n))
    BY <1>00 DEF Extends
<1>1. 0 \in S
  <2>1. 0 \in 0..N /\ (n <= 0 => n = 0)
      BY <1>0
  <2> HIDE DEF M
  <2> QED  BY <1>01, <2>1
<1>2. ASSUME NEW j \in 0..(N - 1), j \in S PROVE j + 1 \in S
  <2>1. j \in 0..Len(sc) /\ j < Len(sc) /\ j + 1 \in 0..N
      BY <1>0
  <2>2. CASE n <= j
    <3>1. Extends(M(n), M(j))
        BY <1>2, <2>2
    <3>2. M(j + 1) = M(j) \/ M(j + 1) = Append(M(j), Meant(sc[j + 1]))
        BY <2>1, MessagesStep
    <3>3. Meant(sc[j + 1]) \in Meanings
        BY <2>1, NextItem DEF Meanings
    <3>4. PICK a, b, c, x : a = M(n) /\ b = M(j) /\ c = M(j + 1) /\ x = Meant(sc[j + 1])
        OBVIOUS
    <3>5. /\ Extends(a, b) /\ (c = b \/ c = Append(b, x)) /\ x \in Meanings
          /\ b \in Seq(Meanings) /\ Len(b) \in Nat
        BY <1>00, <2>1, <3>1, <3>2, <3>3, <3>4
    <3>6. /\ Len(Append(b, x)) = Len(b) + 1
          /\ \A i \in 1..Len(b) : Append(b, x)[i] = b[i]
        BY <3>5, AppendProperties
    <3>7. Extends(a, c)
      <4>1. Len(a) \in Nat /\ Len(a) <= Len(b) /\ \A i \in 1..Len(a) : b[i] = a[i] /\ i \in 1..Len(b)
          BY <3>5 DEF Extends
      <4> QED  BY <3>5, <3>6, <4>1 DEF Extends
    <3> HIDE DEF M
    <3> QED  BY <2>1, <3>4, <3>7
  <2>3. CASE ~(n <= j)
    <3>1. n <= j + 1 => n = j + 1
        BY <1>0, <2>3
    <3> HIDE DEF M
    <3> QED  BY <1>01, <2>1, <3>1
  <2> QED  BY <2>2, <2>3
<1> HIDE DEF S
<1>3. k \in S
  <2> HIDE DEF N
  <2>1. \A j \in 0..N : j \in S
      BY <1>0, <1>1, <1>2, Induction
  <2> QED  BY <2>1 DEF N
<1>4. Extends(M(n), M(k))
    BY <1>3 DEF S
<1>5. PICK a, b : a = M(n) /\ b = M(k)
    OBVIOUS
<1>6. Extends(a, b) /\ a \in Seq(Meanings) /\ b \in Seq(Meanings) /\ Len(a) \in Nat
    BY <1>00, <1>4, <1>5
<1>7. IsPrefix(a, b)
    BY <1>6, ExtendsIsPrefix
<1> QED  BY <1>5, <1>7

-----------------------------------------------------------------------------
(* What the buffer holds *)

IsSlice(s, w, c, r) ==
    /\ Len(s) = r - c /\ \A k \in 1..(r - c) : s[k] = w[c + k]
    /\ s = << >> <=> c = r

LEMMA SliceIs ==
    ASSUME NEW S, NEW w \in Seq(S), NEW r \in Nat, NEW c \in Nat, c <= r, r <= Len(w)
    PROVE  Slice(w, c, r) \in Seq(S) /\ IsSlice(Slice(w, c, r), w, c, r)
<1>0. Len(w) \in Nat /\ \A i \in 1..Len(w) : w[i] \in S
    BY LenProperties, ElementOfSeq
<1>1. PICK lo, s : lo = c + 1 /\ s = SubSeq(w, lo, r)
    OBVIOUS
<1>2. lo \in Int /\ r \in Int /\ r - lo + 1 = r - c /\ \A i \in lo..r : w[i] \in S
    BY <1>0, <1>1
<1>3. /\ s \in Seq(S) /\ Len(s) = IF lo <= r THEN r - lo + 1 ELSE 0
      /\ \A i \in 1..(r - lo + 1) : s[i] = w[lo + i - 1]
    BY <1>1, <1>2, SubSeqProperties
<1>4. Len(s) = r - c
    BY <1>0, <1>1, <1>3
<1>5. \A k \in 1..(r - c) : lo + k - 1 = c + k
    BY <1>0, <1>1
<1>6. s = << >> <=> c = r
  <2>1. Len(s) = 0 <=> c = r
      BY <1>0, <1>4
  <2>2. Len(s) = 0 <=> s = << >>
      BY <1>3, EmptySeq
  <2> QED  BY <2>1, <2>2
<1>7. IsSlice(s, w, c, r)
    BY <1>2, <1>3, <1>4, <1>5, <1>6 DEF IsSlice
<1> QED  BY <1>1, <1>3, <1>7 DEF Slice

LEMMA SliceOfSlice ==
    ASSUME NEW S, NEW w \in Seq(S), NEW r \in Nat, NEW c \in Nat, c <= r, r <= Len(w),
           NEW d \in Nat, c <= d, d <= r
    PROVE  SubSeq(Slice(w, c, r), d - c + 1, Len(Slice(w, c, r))) = Slice(w, d, r)
<1> DEFINE i == d - c + 1
<1>0. Len(w) \in Nat
    BY LenProperties
<1>1. PICK s, l : s = Slice(w, c, r) /\ l = Len(s)
    OBVIOUS
<1>2. s \in Seq(S) /\ l = r - c /\ \A k \in 1..(r - c) : s[k] = w[c + k]
  <2>1. Slice(w, c, r) \in Seq(S) /\ IsSlice(Slice(w, c, r), w, c, r)
      BY SliceIs
  <2> QED  BY <1>1, <2>1 DEF IsSlice
<1>3. i \in Nat \ {0} /\ l \in Int /\ l - i + 1 = r - d
    BY <1>0, <1>2
<1> HIDE DEF i
<1>4. \A k \in i..l : s[k] \in S
  <2>1. \A k \in i..l : k \in 1..Len(s)
      BY <1>1, <1>3
  <2> QED  BY <1>2, <2>1, ElementOfSeq
<1>5. PICK t : t = SubSeq(s, i, l)
    OBVIOUS
<1>6. /\ t \in Seq(S) /\ Len(t) = IF i <= l THEN l - i + 1 ELSE 0
      /\ \A k \in 1..(l - i + 1) : t[k] = s[i + k - 1]
    BY <1>3, <1>4, <1>5, SubSeqProperties
<1>7. Len(t) = r - d
    BY <1>0, <1>2, <1>3, <1>6
<1>8. PICK u : u = Slice(w, d, r)
    OBVIOUS
<1>9. u \in Seq(S) /\ Len(u) = r - d /\ \A k \in 1..(r - d) : u[k] = w[d + k]
  <2>1. Slice(w, d, r) \in Seq(S) /\ IsSlice(Slice(w, d, r), w, d, r)
      BY <1>3, SliceIs
  <2> QED  BY <1>8, <2>1 DEF IsSlice
<1>10. ASSUME NEW k \in 1..(r - d) PROVE t[k] = u[k]
  <2>1. PICK j : j = i + k - 1
      OBVIOUS
  <2>2. j \in 1..(r - c) /\ c + j = d + k /\ k \in 1..(l - i + 1)
      BY <1>0, <1>2, <1>3, <2>1 DEF i
  <2>3. t[k] = s[j]
      BY <1>6, <2>1, <2>2
  <2> QED  BY <1>2, <1>9, <2>2, <2>3
<1>11. t = u
    BY <1>6, <1>7, <1>9, <1>10, SeqEqual
<1> QED  BY <1>1, <1>5, <1>8, <1>11 DEF i

LEMMA SliceConcat ==
    ASSUME NEW S, NEW w \in Seq(S), NEW r \in Nat, NEW q \in Nat, NEW c \in Nat,
           c <= q, q <= r, r <= Len(w)
    PROVE  Slice(w, c, q) \o Slice(w, q, r) = Slice(w, c, r)
<1>0. Len(w) \in Nat /\ q <= Len(w) /\ c <= r
    BY LenProperties
<1>1. PICK x, y, z : x = Slice(w, c, q) /\ y = Slice(w, q, r) /\ z = Slice(w, c, r)
    OBVIOUS
<1>2. x \in Seq(S) /\ Len(x) = q - c /\ \A k \in 1..(q - c) : x[k] = w[c + k]
  <2>1. Slice(w, c, q) \in Seq(S) /\ IsSlice(Slice(w, c, q), w, c, q)
      BY <1>0, SliceIs
  <2> QED  BY <1>1, <2>1 DEF IsSlice
<1>3. y \in Seq(S) /\ Len(y) = r - q /\ \A k \in 1..(r - q) : y[k] = w[q + k]
  <2>1. Slice(w, q, r) \in Seq(S) /\ IsSlice(Slice(w, q, r), w, q, r)
      BY <1>0, SliceIs
  <2> QED  BY <1>1, <2>1 DEF IsSlice
<1>4. z \in Seq(S) /\ Len(z) = r - c /\ \A k \in 1..(r - c) : z[k] = w[c + k]
  <2>1. Slice(w, c, r) \in Seq(S) /\ IsSlice(Slice(w, c, r), w, c, r)
      BY <1>0, SliceIs
  <2> QED  BY <1>1, <2>1 DEF IsSlice
<1>5. /\ x \o y \in Seq(S) /\ Len(x \o y) = Len(x) + Len(y)
      /\ \A k \in 1..(Len(x) + Len(y)) : (x \o y)[k] = IF k <= Len(x) THEN x[k] ELSE y[k - Len(x)]
    BY <1>2, <1>3, ConcatProperties
<1>6. Len(x) + Len(y) = r - c
    BY <1>0, <1>2, <1>3
<1>7. ASSUME NEW k \in 1..(r - c) PROVE (x \o y)[k] = z[k]
  <2>1. CASE k <= q - c
    <3>1. k \in 1..(q - c) /\ k <= Len(x)
        BY <1>0, <1>2, <2>1
    <3> QED  BY <1>2, <1>4, <1>5, <1>6, <3>1
  <2>2. CASE ~(k <= q - c)
    <3>1. PICK j : j = k - (q - c)
        OBVIOUS
    <3>2. j \in 1..(r - q) /\ q + j = c + k /\ j = k - Len(x) /\ ~(k <= Len(x))
        BY <1>0, <1>2, <2>2, <3>1
    <3>3. (x \o y)[k] = y[j]
        BY <1>5, <1>6, <3>2
    <3> QED  BY <1>3, <1>4, <3>2, <3>3
  <2> QED  BY <2>1, <2>2
<1>8. x \o y = z
    BY <1>4, <1>5, <1>6, <1>7, SeqEqual
<1> QED  BY <1>1, <1>8

\* decode drops the newlines in front, all of them.
LEMMA DropBeatsIs ==
    ASSUME NEW w \in Seq(Symbols), NEW r \in Nat, NEW c \in Nat, c <= r, r <= Len(w)
    PROVE  \E d \in c..r : /\ DropBeats(Slice(w, c, r)) = Slice(w, d, r)
                           /\ \A j \in (c + 1)..d : w[j] \in Newline
                           /\ d = r \/ w[d + 1] \notin Newline
<1>0. Len(w) \in Nat
    BY LenProperties
<1>1. PICK s : s = Slice(w, c, r)
    OBVIOUS
<1>2. s \in Seq(Symbols) /\ Len(s) = r - c /\ \A k \in 1..(r - c) : s[k] = w[c + k]
  <2>1. Slice(w, c, r) \in Seq(Symbols) /\ IsSlice(Slice(w, c, r), w, c, r)
      BY SliceIs
  <2> QED  BY <1>1, <2>1 DEF IsSlice
<1>3. PICK t : t = Append(s, "NUL")
    OBVIOUS
<1>4. /\ Len(t) = (r - c) + 1 /\ \A k \in 1..(r - c) : t[k] = s[k]
      /\ t[(r - c) + 1] = "NUL"
  <2>1. "NUL" \in Symbols
      BY DEF Symbols, Marks
  <2> QED  BY <1>2, <1>3, <2>1, AppendProperties
<1> DEFINE I == {k \in 1..Len(t) : t[k] \notin {"CR", "LF"}}
<1>5. I \subseteq Nat /\ (r - c) + 1 \in I
    BY <1>0, <1>4
<1>6. DropBeats(s) = SubSeq(s, Min(I), Len(s))
    BY <1>3, <1>5 DEF DropBeats, SelectInSeq
<1> HIDE DEF I
<1>7. PICK i : i = Min(I) /\ i \in I /\ \A k \in I : i <= k
    BY <1>5, MinIs
<1>8. i \in 1..(r - c + 1) /\ t[i] \notin Newline /\ \A k \in 1..(i - 1) : t[k] \in Newline
  <2>1. i \in 1..((r - c) + 1) /\ t[i] \notin Newline
      BY <1>4, <1>7 DEF I, Newline
  <2>2. ASSUME NEW k \in 1..(i - 1) PROVE t[k] \in Newline
    <3>1. k \in 1..Len(t) /\ ~(i <= k)
        BY <1>0, <1>4, <2>1
    <3>2. k \notin I
        BY <1>7, <3>1
    <3> QED  BY <3>1, <3>2 DEF I, Newline
  <2> QED  BY <1>0, <2>1, <2>2
<1>9. PICK d : d = c + i - 1
    OBVIOUS
<1>10. d \in c..r /\ DropBeats(s) = Slice(w, d, r)
  <2>1. d \in Nat /\ c <= d /\ d <= r /\ d - c + 1 = i
      BY <1>0, <1>8, <1>9
  <2>2. SubSeq(Slice(w, c, r), d - c + 1, Len(Slice(w, c, r))) = Slice(w, d, r)
      BY <2>1, SliceOfSlice
  <2> QED  BY <1>1, <1>6, <1>7, <2>1, <2>2
<1>11. ASSUME NEW j \in (c + 1)..d PROVE w[j] \in Newline
  <2>1. PICK k : k = j - c
      OBVIOUS
  <2>2. k \in 1..(i - 1) /\ k \in 1..(r - c) /\ c + k = j
      BY <1>0, <1>8, <1>9, <2>1
  <2> QED  BY <1>2, <1>4, <1>8, <2>2
<1>12. d = r \/ w[d + 1] \notin Newline
  <2>1. CASE d # r
    <3>1. i \in 1..(r - c) /\ c + i = d + 1
        BY <1>0, <1>8, <1>9, <2>1
    <3> QED  BY <1>2, <1>4, <1>8, <3>1
  <2> QED  BY <2>1
<1> QED  BY <1>1, <1>10, <1>11, <1>12

\* The first byte of an item tells a heart-beat from the rest.
LEMMA FirstByte ==
    ASSUME NEW sc \in Seq(Items), NEW n \in 0..Len(sc), n < Len(sc)
    PROVE  /\ Bytes(sc)[EndOf(sc, n) + 1] \in Newline <=> sc[n + 1].kind = "beat"
           /\ sc[n + 1].kind = "beat" =>
                \A j \in (EndOf(sc, n) + 1)..EndOf(sc, n + 1) : Bytes(sc)[j] \in Newline
<1>1. PICK x, w, e, f : x = sc[n + 1] /\ w = Bytes(sc) /\ e = EndOf(sc, n) /\ f = EndOf(sc, n + 1)
    OBVIOUS
<1>2. /\ x \in Items /\ e \in Nat /\ f = e + Len(x.bytes) /\ Len(x.bytes) \in Nat \ {0}
      /\ HoldsAt(w, e, x.bytes)
    BY <1>1, NextItem
<1>3. \A k \in 1..Len(x.bytes) : w[e + k] = x.bytes[k]
    BY <1>2 DEF HoldsAt
<1>4. w[e + 1] = x.bytes[1]
    BY <1>2, <1>3
<1>5. /\ x.kind = "beat" => \A j \in 1..Len(x.bytes) : x.bytes[j] \in Newline
      /\ x.kind # "beat" => x.bytes[1] \notin Newline
    BY <1>2, ItemIs
<1>6. 1 \in 1..Len(x.bytes)
    BY <1>2
<1>7. ASSUME x.kind = "beat", NEW j \in (e + 1)..f PROVE w[j] \in Newline
  <2>1. PICK k : k = j - e
      OBVIOUS
  <2>2. k \in 1..Len(x.bytes) /\ e + k = j
      BY <1>2, <2>1
  <2> QED  BY <1>3, <1>5, <1>7, <2>2
<1> QED  BY <1>1, <1>4, <1>5, <1>6, <1>7

LEMMA EndsOrdered ==
    ASSUME NEW sc \in Seq(Items), NEW i \in 0..Len(sc), NEW j \in 0..Len(sc), i <= j
    PROVE  EndOf(sc, i) <= EndOf(sc, j)
<1>1. EndOf(sc, i) \in Nat /\ EndOf(sc, j) \in Nat /\ Len(sc) \in Nat
    BY EndsAre
<1>2. CASE i = j
    BY <1>1, <1>2
<1>3. CASE i # j
  <2>1. i < j
      BY <1>1, <1>3
  <2>2. EndOf(sc, i) < EndOf(sc, j)
      BY <2>1, EndsGrow
  <2> QED  BY <1>1, <2>2
<1> QED  BY <1>2, <1>3

-----------------------------------------------------------------------------
(* What decode makes of it *)

\* One more item has been dealt with.
LEMMA HandedNext ==
    ASSUME NEW sc \in Seq(Items), NEW rd \in Nat, NEW ot, NEW n \in 0..Len(sc),
           Handed(sc, rd, ot, n), n < Len(sc), EndOf(sc, n + 1) <= rd
    PROVE  /\ Fate(sc[n + 1]) = "dropped" => Handed(sc, rd, ot, n + 1)
           /\ Fate(sc[n + 1]) = "message" =>
                Handed(sc, rd, Append(ot, Meant(sc[n + 1])), n + 1)
<1>0. Len(sc) \in Nat
    BY EndsAre
<1>1. PICK k : k = n + 1
    OBVIOUS
<1>2. k \in 0..Len(sc) /\ \A i \in 1..k : i \in 1..n \/ i = k
    BY <1>0, <1>1
<1>3. /\ ot = Messages(SubSeq(sc, 1, n))
      /\ \A i \in 1..n : Fate(sc[i]) \in {"message", "dropped"}
    BY DEF Handed
<1>4. Messages(SubSeq(sc, 1, k)) = IF Fate(sc[k]) = "message" THEN Append(ot, Meant(sc[k])) ELSE ot
    BY <1>1, <1>3, MessagesStep
<1>5. EndOf(sc, k) <= rd
    BY <1>1
<1>6. ASSUME Fate(sc[k]) = "dropped" PROVE Handed(sc, rd, ot, k)
    BY <1>2, <1>3, <1>4, <1>5, <1>6 DEF Handed
<1>7. ASSUME Fate(sc[k]) = "message" PROVE Handed(sc, rd, Append(ot, Meant(sc[k])), k)
    BY <1>2, <1>3, <1>4, <1>5, <1>7 DEF Handed
<1> QED  BY <1>1, <1>6, <1>7

\* The newlines that were dropped are whole heart-beats, and perhaps the
\* beginning of one at the very end.
LEMMA Skip ==
    ASSUME NEW sc \in Seq(Items), NEW rd \in 0..Len(Bytes(sc)), NEW ot, NEW n,
           Handed(sc, rd, ot, n), NEW d \in 0..rd, EndOf(sc, n) <= d,
           \A j \in (EndOf(sc, n) + 1)..d : Bytes(sc)[j] \in Newline,
           d = rd \/ Bytes(sc)[d + 1] \notin Newline
    PROVE  \E m \in 0..Len(sc) :
             /\ Handed(sc, rd, ot, m) /\ EndOf(sc, m) <= d
             /\ m < Len(sc) => d < EndOf(sc, m + 1)
             /\ \A j \in (EndOf(sc, m) + 1)..d : Bytes(sc)[j] \in Newline
             /\ d = rd \/ d = EndOf(sc, m)
<1> DEFINE N == Len(sc)
           w == Bytes(sc)
<1>0. /\ N \in Nat /\ Len(w) \in Nat /\ EndOf(sc, N) = Len(w)
      /\ \A i \in 0..N : EndOf(sc, i) \in Nat
    BY EndsAre
<1>1. n \in 0..N
    BY DEF Handed
<1>2. rd \in Nat /\ d \in Nat /\ d <= rd /\ rd <= Len(w) /\ d \in 0..Len(w)
    BY <1>0
<1>3. PICK m \in 0..N : EndOf(sc, m) <= d /\ (m < N => d < EndOf(sc, m + 1))
    BY <1>2, LastEnd
<1>4. n <= m
  <2>1. SUFFICES ASSUME ~(n <= m) PROVE FALSE
      OBVIOUS
  <2>2. PICK k : k = m + 1
      OBVIOUS
  <2>3. m < N /\ k \in 0..N /\ k <= n
      BY <1>0, <1>1, <2>1, <2>2
  <2>4. EndOf(sc, k) <= EndOf(sc, n) /\ d < EndOf(sc, k)
      BY <1>1, <1>3, <2>2, <2>3, EndsOrdered
  <2>5. EndOf(sc, k) \in Nat /\ EndOf(sc, n) \in Nat
      BY <1>0, <1>1, <2>3
  <2> QED  BY <1>2, <2>4, <2>5
<1> DEFINE S == {k \in 0..m : n <= k => Handed(sc, rd, ot, k)}
<1>5. 0 \in S
  <2>1. n <= 0 => n = 0
      BY <1>1
  <2>2. 0 \in 0..m
      BY <1>0
  <2> QED  BY <2>1, <2>2
<1>6. ASSUME NEW k \in 0..(m - 1), k \in S PROVE k + 1 \in S
  <2>1. k \in 0..N /\ k < N /\ k + 1 \in 0..m /\ k + 1 \in 0..N /\ k + 1 <= m
      BY <1>0
  <2>2. CASE n <= k
    <3>1. Handed(sc, rd, ot, k)
        BY <1>6, <2>2
    <3>2. PICK e, f : e = EndOf(sc, k) /\ f = EndOf(sc, k + 1)
        OBVIOUS
    <3>3. EndOf(sc, n) <= e /\ f <= EndOf(sc, m)
        BY <1>1, <2>1, <2>2, <3>2, EndsOrdered
    <3>4. e \in Nat /\ f \in Nat /\ e < f
      <4>1. k < k + 1
          BY <2>1
      <4> QED  BY <1>0, <2>1, <3>2, <4>1, EndsGrow
    <3>5. EndOf(sc, n) \in Nat /\ EndOf(sc, m) \in Nat
        BY <1>0, <1>1
    <3>6. e + 1 \in (EndOf(sc, n) + 1)..d /\ f <= rd
        BY <1>2, <1>3, <3>3, <3>4, <3>5
    <3>7. w[e + 1] \in Newline
        BY <3>6
    <3>8. sc[k + 1].kind = "beat"
        BY <2>1, <3>2, <3>7, FirstByte
    <3>9. Fate(sc[k + 1]) = "dropped"
      <4>1. sc[k + 1] \in Items
          BY <2>1, NextItem
      <4> QED  BY <3>8, <4>1, ItemIs
    <3>10. Handed(sc, rd, ot, k + 1)
        BY <1>2, <2>1, <3>1, <3>2, <3>6, <3>9, HandedNext
    <3> QED  BY <2>1, <3>10
  <2>3. CASE ~(n <= k)
    <3>1. n <= k + 1 => n = k + 1
        BY <1>0, <1>1, <2>3
    <3> QED  BY <2>1, <3>1
  <2> QED  BY <2>2, <2>3
<1> HIDE DEF S
<1>7. m \in S
  <2>1. m \in Nat
      BY <1>0
  <2>2. \A k \in 0..m : k \in S
      BY <1>5, <1>6, <2>1, Induction
  <2> QED  BY <2>1, <2>2
<1>8. Handed(sc, rd, ot, m)
    BY <1>4, <1>7 DEF S
<1>9. ASSUME NEW j \in (EndOf(sc, m) + 1)..d PROVE w[j] \in Newline
  <2>1. EndOf(sc, n) <= EndOf(sc, m)
      BY <1>1, <1>4, EndsOrdered
  <2>2. EndOf(sc, n) \in Nat /\ EndOf(sc, m) \in Nat
      BY <1>0, <1>1
  <2>3. j \in (EndOf(sc, n) + 1)..d
      BY <1>2, <2>1, <2>2
  <2> QED  BY <2>3
<1>10. d = rd \/ d = EndOf(sc, m)
  <2>1. SUFFICES ASSUME d # rd, d # EndOf(sc, m) PROVE FALSE
      OBVIOUS
  <2>2. PICK e : e = EndOf(sc, m) /\ e \in Nat /\ e < d
      BY <1>0, <1>2, <1>3, <2>1
  <2>3. m < N
    <3>1. m # N
        BY <1>0, <1>2, <2>2
    <3> QED  BY <1>0, <3>1
  <2>4. PICK f : f = EndOf(sc, m + 1) /\ f \in Nat /\ d < f
      BY <1>3, <2>3, NextItem
  <2>5. e + 1 \in (EndOf(sc, m) + 1)..d
      BY <1>2, <2>2
  <2>6. w[e + 1] \in Newline
      BY <1>9, <2>5
  <2>7. sc[m + 1].kind = "beat"
      BY <2>2, <2>3, <2>6, FirstByte
  <2>8. d + 1 \in (e + 1)..f
      BY <1>2, <2>2, <2>4
  <2>9. w[d + 1] \in Newline
      BY <2>2, <2>3, <2>4, <2>7, <2>8, FirstByte
  <2> QED  BY <2>1, <2>9
<1> QED  BY <1>3, <1>8, <1>9, <1>10

LEMMA OptIs ==
    ASSUME NEW s, Len(s) \in Nat, NEW i \in Nat \ {0}, i <= Len(s) + 1
    PROVE  Opt(s, i) \in i..(Len(s) + 1) /\ \A j \in i..(Opt(s, i) - 1) : s[j] \in Newline
<1>1. PICK l : l = LineEnding(s, i)
    OBVIOUS
<1>2. CASE i > Len(s)
  <2>1. l = More
      BY <1>1, <1>2 DEF LineEnding
  <2>2. Opt(s, i) = i
      BY <1>1, <2>1, VerdictsAre DEF Opt
  <2> QED  BY <2>2
<1>3. CASE ~(i > Len(s)) /\ s[i] = "LF"
  <2>1. l = Found(i + 1)
      BY <1>1, <1>3 DEF LineEnding
  <2>2. l.is = "ok" /\ l.at = i + 1
      BY <2>1, VerdictsAre
  <2>3. Opt(s, i) = i + 1
      BY <1>1, <2>2 DEF Opt
  <2>4. \A j \in i..((i + 1) - 1) : j = i
      OBVIOUS
  <2> QED  BY <1>3, <2>3, <2>4 DEF Newline
<1>4. CASE i < Len(s) /\ s[i] = "CR" /\ s[i + 1] = "LF"
  <2>1. l = Found(i + 2)
      BY <1>1, <1>4 DEF LineEnding
  <2>2. l.is = "ok" /\ l.at = i + 2
      BY <2>1, VerdictsAre
  <2>3. Opt(s, i) = i + 2
      BY <1>1, <2>2 DEF Opt
  <2>4. \A j \in i..((i + 2) - 1) : j = i \/ j = i + 1
      OBVIOUS
  <2> QED  BY <1>4, <2>3, <2>4 DEF Newline
<1>5. CASE ~(i > Len(s)) /\ s[i] # "LF" /\ ~(i < Len(s) /\ s[i] = "CR" /\ s[i + 1] = "LF")
  <2>1. l = More \/ l = Bad
      BY <1>1, <1>5 DEF LineEnding
  <2>2. Opt(s, i) = i
      BY <1>1, <2>1, VerdictsAre DEF Opt
  <2> QED  BY <2>2
<1> QED  BY <1>2, <1>3, <1>4, <1>5

\* What one call of decode does, s being what it has left in the buffer.
Turn(sc, rd, s, ot, m) ==
    LET p == Outcome(s)
    IN  \/ /\ p.is = "more" /\ Len(s) <= MaxFrame
           /\ \E d \in 0..rd : Waits(sc, rd, s, ot, m, d)
        \/ /\ p.is = "too long" /\ Len(s) > MaxFrame
           /\ \E d \in 0..rd : Waits(sc, rd, s, ot, m, d)
        \/ p.is = "bad" /\ Stopped(sc, rd, ot, m, "bad")
        \/ /\ p.is = "ok" /\ ~IsMessage(p.frame.command, p.frame.headers)
           /\ Stopped(sc, rd, ot, m, "no message")
        \/ /\ p.is = "ok" /\ IsMessage(p.frame.command, p.frame.headers)
           /\ m < Len(sc)
           /\ \E e \in 0..rd : Holding(sc, rd, SubSeq(s, p.at, Len(s)),
                                       Append(ot, ToServerMsg(p.frame)), m + 1, e)

\* There is nothing but heart-beats.
LEMMA NothingThere ==
    ASSUME NEW sc \in Seq(Items), NEW rd \in 0..Len(Bytes(sc)), NEW ot, NEW m \in 0..Len(sc),
           Handed(sc, rd, ot, m), m < Len(sc) => rd < EndOf(sc, m + 1),
           \A j \in (EndOf(sc, m) + 1)..rd : Bytes(sc)[j] \in Newline
    PROVE  Turn(sc, rd, Slice(Bytes(sc), rd, rd), ot, m)
<1>0. /\ rd \in Nat /\ rd <= rd /\ rd <= Len(Bytes(sc)) /\ Bytes(sc) \in Seq(Symbols)
      /\ EndOf(sc, m) \in Nat /\ rd \in 0..rd
    BY EndsAre
<1>1. PICK s : s = Slice(Bytes(sc), rd, rd)
    OBVIOUS
<1>2. s = << >> /\ Len(s) = 0
  <2>1. /\ Slice(Bytes(sc), rd, rd) \in Seq(Symbols)
        /\ IsSlice(Slice(Bytes(sc), rd, rd), Bytes(sc), rd, rd)
      BY <1>0, SliceIs
  <2> QED  BY <1>0, <1>1, <2>1 DEF IsSlice
<1>3. EndOf(sc, m) <= rd /\ rd \in EndOf(sc, m)..rd
  <2>1. EndOf(sc, m) <= rd
      BY DEF Handed
  <2> QED  BY <1>0, <2>1
<1>4. Waits(sc, rd, s, ot, m, rd)
    BY <1>1, <1>2, <1>3 DEF Waits, Holding
<1>5. Outcome(s).is = "more"
    BY <1>2, VerdictsAre DEF Outcome
<1>6. Len(s) <= MaxFrame
    BY <1>2, CodecAssumption
<1> QED  BY <1>0, <1>1, <1>4, <1>5, <1>6 DEF Turn

\* The buffer begins with an item, of which there is only a part.
LEMMA PartThere ==
    ASSUME NEW sc \in Seq(Items), NEW rd \in 0..Len(Bytes(sc)), NEW ot, NEW m \in 0..Len(sc),
           Handed(sc, rd, ot, m), m < Len(sc), NEW d, d = EndOf(sc, m), d < rd,
           rd < EndOf(sc, m + 1), Bytes(sc)[d + 1] \notin Newline
    PROVE  Turn(sc, rd, Slice(Bytes(sc), d, rd), ot, m)
<1>1. PICK s, w, x, b : s = Slice(w, d, rd) /\ w = Bytes(sc) /\ x = sc[m + 1] /\ b = x.bytes
    OBVIOUS
<1>2. /\ x \in Items /\ d \in Nat /\ Len(b) \in Nat \ {0} /\ EndOf(sc, m + 1) = d + Len(b)
      /\ HoldsAt(w, d, b)
    BY <1>1, NextItem
<1>3. w \in Seq(Symbols) /\ Len(w) \in Nat /\ rd \in Nat /\ d <= rd /\ rd <= Len(w)
    BY <1>1, <1>2, EndsAre
<1>4. s \in Seq(Symbols) /\ IsSlice(s, w, d, rd)
  <2>1. Slice(w, d, rd) \in Seq(Symbols) /\ IsSlice(Slice(w, d, rd), w, d, rd)
      BY <1>2, <1>3, SliceIs
  <2> QED  BY <1>1, <2>1
<1>5. Len(s) = rd - d /\ s # << >> /\ \A k \in 1..(rd - d) : s[k] = w[d + k]
    BY <1>2, <1>3, <1>4 DEF IsSlice
<1>6. x.kind # "beat"
    BY <1>1, FirstByte
<1>7. Len(s) < Len(b) /\ Len(s) \in Nat
    BY <1>2, <1>3, <1>5
<1>8. Extends(s, b)
  <2>1. \A k \in 1..Len(b) : w[d + k] = b[k]
      BY <1>2 DEF HoldsAt
  <2>2. \A k \in 1..(rd - d) : k \in 1..Len(b)
      BY <1>2, <1>3, <1>5, <1>7
  <2>3. \A k \in 1..Len(s) : b[k] = s[k]
    <3>1. ASSUME NEW k \in 1..(rd - d) PROVE b[k] = s[k]
        BY <1>5, <2>1, <2>2
    <3> QED  BY <1>5, <3>1
  <2> QED  BY <1>2, <1>7, <2>3 DEF Extends
<1>9. ParseFrame(s) = More
    BY <1>1, <1>2, <1>4, <1>5, <1>6, <1>7, <1>8, PartOfItem
<1>10. Outcome(s) = IF Len(s) > MaxFrame THEN [is |-> "too long"] ELSE More
    BY <1>5, <1>9, VerdictsAre DEF Outcome
<1>11. Waits(sc, rd, s, ot, m, d)
  <2>1. d \in EndOf(sc, m)..rd /\ \A j \in (EndOf(sc, m) + 1)..d : Bytes(sc)[j] \in Newline
      BY <1>2, <1>3
  <2>2. Holding(sc, rd, s, ot, m, d)
      BY <1>1, <2>1 DEF Holding
  <2> QED  BY <2>2 DEF Waits
<1>12. d \in 0..rd
    BY <1>2, <1>3
<1>13. CASE Len(s) > MaxFrame
  <2>1. Outcome(s) = [is |-> "too long"]
      BY <1>10, <1>13
  <2>2. Outcome(s).is = "too long"
    <3>1. PICK q : q = [is |-> "too long"]
        OBVIOUS
    <3>2. q.is = "too long"
        BY <3>1
    <3> QED  BY <2>1, <3>1, <3>2
  <2> QED  BY <1>1, <1>11, <1>12, <1>13, <2>2 DEF Turn
<1>14. CASE ~(Len(s) > MaxFrame)
  <2>1. Outcome(s).is = "more" /\ Len(s) <= MaxFrame
      BY <1>7, <1>10, <1>14, VerdictsAre, CodecAssumption
  <2> QED  BY <1>1, <1>11, <1>12, <2>1 DEF Turn
<1> QED  BY <1>13, <1>14

\* A line ending behind the l-th byte of a slice is passed over.
PassedOver(s, at, w, q, r) ==
    \E e \in q..r : /\ SubSeq(s, at, Len(s)) = Slice(w, e, r)
                   /\ \A j \in (q + 1)..e : w[j] \in Newline

LEMMA Leftover ==
    ASSUME NEW w \in Seq(Symbols), NEW r \in Nat, r <= Len(w), NEW d \in Nat, NEW l \in Nat,
           d + l <= r
    PROVE  PassedOver(Slice(w, d, r), Opt(Slice(w, d, r), l + 1), w, d + l, r)
<1>0. PICK s, at : s = Slice(w, d, r) /\ at = Opt(s, l + 1)
    OBVIOUS
<1>1. d <= r /\ Len(w) \in Nat
    BY LenProperties
<1>2. s \in Seq(Symbols) /\ IsSlice(s, w, d, r)
  <2>1. Slice(w, d, r) \in Seq(Symbols) /\ IsSlice(Slice(w, d, r), w, d, r)
      BY <1>1, SliceIs
  <2> QED  BY <1>0, <2>1
<1>3. Len(s) = r - d /\ Len(s) \in Nat /\ \A k \in 1..(r - d) : s[k] = w[d + k]
    BY <1>1, <1>2 DEF IsSlice
<1>4. PICK i : i = l + 1
    OBVIOUS
<1>5. i \in Nat \ {0} /\ i <= Len(s) + 1
    BY <1>1, <1>3, <1>4
<1>6. at \in i..(Len(s) + 1) /\ \A j \in i..(at - 1) : s[j] \in Newline
    BY <1>0, <1>3, <1>4, <1>5, OptIs
<1>7. at \in Nat /\ l + 1 <= at /\ at <= (r - d) + 1
    BY <1>3, <1>4, <1>5, <1>6
<1>8. PICK e : e = d + at - 1
    OBVIOUS
<1>9. e \in Nat /\ d <= e /\ e <= r /\ e - d + 1 = at /\ e \in (d + l)..r
    BY <1>1, <1>7, <1>8
<1>10. SubSeq(Slice(w, d, r), e - d + 1, Len(Slice(w, d, r))) = Slice(w, e, r)
    BY <1>1, <1>9, SliceOfSlice
<1>11. ASSUME NEW j \in ((d + l) + 1)..e PROVE w[j] \in Newline
  <2>1. PICK k : k = j - d
      OBVIOUS
  <2>2. k \in i..(at - 1) /\ k \in 1..(r - d) /\ d + k = j
      BY <1>1, <1>4, <1>7, <1>8, <1>9, <2>1
  <2> QED  BY <1>3, <1>6, <2>2
<1>12. PassedOver(s, at, w, d + l, r)
    BY <1>0, <1>9, <1>10, <1>11 DEF PassedOver
<1> QED  BY <1>0, <1>12

\* The buffer begins with an item that is complete.
LEMMA WholeThere ==
    ASSUME NEW sc \in Seq(Items), NEW rd \in 0..Len(Bytes(sc)), NEW ot, NEW m \in 0..Len(sc),
           Handed(sc, rd, ot, m), m < Len(sc), NEW d, d = EndOf(sc, m),
           EndOf(sc, m + 1) <= rd, Bytes(sc)[d + 1] \notin Newline
    PROVE  Turn(sc, rd, Slice(Bytes(sc), d, rd), ot, m)
<1>1. PICK s, w, x, b : s = Slice(w, d, rd) /\ w = Bytes(sc) /\ x = sc[m + 1] /\ b = x.bytes
    OBVIOUS
<1>2. /\ x \in Items /\ d \in Nat /\ Len(b) \in Nat \ {0} /\ EndOf(sc, m + 1) = d + Len(b)
      /\ HoldsAt(w, d, b)
    BY <1>1, NextItem
<1>3. w \in Seq(Symbols) /\ Len(w) \in Nat /\ rd \in Nat /\ d <= rd /\ rd <= Len(w)
    BY <1>1, <1>2, EndsAre
<1>4. s \in Seq(Symbols) /\ IsSlice(s, w, d, rd)
  <2>1. Slice(w, d, rd) \in Seq(Symbols) /\ IsSlice(Slice(w, d, rd), w, d, rd)
      BY <1>2, <1>3, SliceIs
  <2> QED  BY <1>1, <2>1
<1>5. /\ Len(s) = rd - d /\ Len(s) \in Nat /\ Len(b) <= Len(s) /\ s # << >>
      /\ \A k \in 1..(rd - d) : s[k] = w[d + k]
    BY <1>2, <1>3, <1>4 DEF IsSlice
<1>6. x.kind # "beat"
    BY <1>1, FirstByte
<1>7. Extends(b, s)
  <2>1. \A k \in 1..Len(b) : w[d + k] = b[k]
      BY <1>2 DEF HoldsAt
  <2>2. \A k \in 1..Len(b) : k \in 1..(rd - d)
      BY <1>2, <1>3, <1>5
  <2> QED  BY <1>2, <1>5, <2>1, <2>2 DEF Extends
<1>8. PICK p : p = ParseFrame(s)
    OBVIOUS
<1>9. \/ Fate(x) = "bad" /\ p = Bad
      \/ /\ Fate(x) = "message" /\ p.is = "ok"
         /\ IsMessage(p.frame.command, p.frame.headers)
         /\ ToServerMsg(p.frame) = Meant(x) /\ p.at = Opt(s, Len(b) + 1)
      \/ /\ Fate(x) = "no message" /\ p.is = "ok"
         /\ ~IsMessage(p.frame.command, p.frame.headers)
    BY <1>1, <1>2, <1>4, <1>5, <1>6, <1>7, <1>8, WholeItem
<1>10. p.is # "more" => Outcome(s) = p
    BY <1>5, <1>8 DEF Outcome
<1>11. CASE Fate(x) = "bad" /\ p = Bad
  <2>1. p.is = "bad" /\ Outcome(s) = p
      BY <1>10, <1>11, VerdictsAre
  <2>2. Stopped(sc, rd, ot, m, "bad")
      BY <1>1, <1>11 DEF Stopped
  <2> QED  BY <1>1, <2>1, <2>2 DEF Turn
<1>12. CASE Fate(x) = "no message" /\ p.is = "ok" /\ ~IsMessage(p.frame.command, p.frame.headers)
  <2>1. Outcome(s) = p
      BY <1>10, <1>12
  <2>2. Stopped(sc, rd, ot, m, "no message")
      BY <1>1, <1>12 DEF Stopped
  <2> QED  BY <1>1, <1>12, <2>1, <2>2 DEF Turn
<1>13. CASE /\ Fate(x) = "message" /\ p.is = "ok" /\ IsMessage(p.frame.command, p.frame.headers)
            /\ ToServerMsg(p.frame) = Meant(x) /\ p.at = Opt(s, Len(b) + 1)
  <2>1. Outcome(s) = p
      BY <1>10, <1>13
  <2>2. PICK l, at : l = Len(b) /\ at = p.at
      OBVIOUS
  <2>3. l \in Nat /\ d + l = EndOf(sc, m + 1) /\ d + l <= rd /\ at = Opt(s, l + 1)
      BY <1>2, <1>13, <2>2
  <2>4. PICK e \in (d + l)..rd : /\ SubSeq(s, at, Len(s)) = Slice(w, e, rd)
                                /\ \A j \in ((d + l) + 1)..e : w[j] \in Newline
    <3>1. PassedOver(Slice(w, d, rd), Opt(Slice(w, d, rd), l + 1), w, d + l, rd)
        BY <1>2, <1>3, <2>3, Leftover
    <3>2. PassedOver(s, at, w, d + l, rd)
        BY <1>1, <2>3, <3>1
    <3> QED  BY <3>2 DEF PassedOver
  <2>6. e \in EndOf(sc, m + 1)..rd /\ \A j \in (EndOf(sc, m + 1) + 1)..e : w[j] \in Newline
      BY <2>3, <2>4
  <2>7. e \in 0..rd
      BY <1>2, <1>3, <2>3, <2>4
  <2>10. Handed(sc, rd, Append(ot, Meant(x)), m + 1)
      BY <1>1, <1>3, <1>13, HandedNext
  <2>11. Holding(sc, rd, SubSeq(s, at, Len(s)), Append(ot, Meant(x)), m + 1, e)
      BY <1>1, <2>4, <2>6, <2>10 DEF Holding
  <2>12. Holding(sc, rd, SubSeq(s, p.at, Len(s)), Append(ot, ToServerMsg(p.frame)), m + 1, e)
      BY <1>13, <2>2, <2>11
  <2> QED  BY <1>1, <1>13, <2>1, <2>7, <2>12 DEF Turn
<1> QED  BY <1>9, <1>11, <1>12, <1>13

LEMMA DecodeIs ==
    ASSUME NEW sc \in Seq(Items), NEW rd \in 0..Len(Bytes(sc)), NEW bf, NEW ot, NEW n, NEW c,
           Holding(sc, rd, bf, ot, n, c)
    PROVE  \E m \in 0..Len(sc) : Turn(sc, rd, DropBeats(bf), ot, m)
<1>1. PICK w : w = Bytes(sc)
    OBVIOUS
<1>2. /\ Handed(sc, rd, ot, n) /\ c \in EndOf(sc, n)..rd /\ bf = Slice(w, c, rd)
      /\ \A j \in (EndOf(sc, n) + 1)..c : w[j] \in Newline
    BY <1>1 DEF Holding
<1>3. n \in 0..Len(sc) /\ EndOf(sc, n) \in Nat /\ EndOf(sc, n) <= rd
  <2>1. n \in 0..Len(sc) /\ EndOf(sc, n) <= rd
      BY <1>2 DEF Handed
  <2> QED  BY <2>1, EndsAre
<1>4. /\ w \in Seq(Symbols) /\ Len(w) \in Nat /\ rd \in Nat /\ rd <= Len(w)
      /\ c \in Nat /\ c <= rd /\ EndOf(sc, n) <= c
    BY <1>1, <1>2, <1>3, EndsAre
<1>5. PICK d \in c..rd : /\ DropBeats(bf) = Slice(w, d, rd)
                         /\ \A j \in (c + 1)..d : w[j] \in Newline
                         /\ d = rd \/ w[d + 1] \notin Newline
  <2>1. \E d \in c..rd : /\ DropBeats(Slice(w, c, rd)) = Slice(w, d, rd)
                         /\ \A j \in (c + 1)..d : w[j] \in Newline
                         /\ d = rd \/ w[d + 1] \notin Newline
      BY <1>4, DropBeatsIs
  <2> QED  BY <1>2, <2>1
<1>6. d \in 0..rd /\ EndOf(sc, n) <= d /\ \A j \in (EndOf(sc, n) + 1)..d : w[j] \in Newline
  <2>1. \A j \in (EndOf(sc, n) + 1)..d : j \in (EndOf(sc, n) + 1)..c \/ j \in (c + 1)..d
      BY <1>3, <1>4
  <2> QED  BY <1>2, <1>3, <1>4, <1>5, <2>1
<1>7. PICK m \in 0..Len(sc) :
             /\ Handed(sc, rd, ot, m) /\ EndOf(sc, m) <= d
             /\ m < Len(sc) => d < EndOf(sc, m + 1)
             /\ \A j \in (EndOf(sc, m) + 1)..d : w[j] \in Newline
             /\ d = rd \/ d = EndOf(sc, m)
    BY <1>1, <1>2, <1>5, <1>6, Skip
<1>8. CASE d = rd
  <2>1. Turn(sc, rd, Slice(Bytes(sc), rd, rd), ot, m)
      BY <1>1, <1>7, <1>8, NothingThere
  <2> QED  BY <1>1, <1>5, <1>8, <2>1
<1>9. CASE d # rd
  <2>1. d = EndOf(sc, m) /\ d < rd /\ w[d + 1] \notin Newline
      BY <1>4, <1>5, <1>7, <1>9
  <2>2. m < Len(sc)
    <3>1. EndOf(sc, Len(sc)) = Len(w) /\ Len(sc) \in Nat
        BY <1>1, EndsAre
    <3>2. m # Len(sc)
        BY <1>4, <2>1, <3>1
    <3> QED  BY <3>1, <3>2
  <2>3. EndOf(sc, m + 1) \in Nat
      BY <2>2, NextItem
  <2>4. CASE rd < EndOf(sc, m + 1)
    <3>1. Turn(sc, rd, Slice(Bytes(sc), d, rd), ot, m)
        BY <1>1, <1>7, <2>1, <2>2, <2>4, PartThere
    <3> QED  BY <1>1, <1>5, <3>1
  <2>5. CASE EndOf(sc, m + 1) <= rd
    <3>1. Turn(sc, rd, Slice(Bytes(sc), d, rd), ot, m)
        BY <1>1, <1>7, <2>1, <2>2, <2>5, WholeThere
    <3> QED  BY <1>1, <1>5, <3>1
  <2> QED  BY <1>4, <2>3, <2>4, <2>5
<1> QED  BY <1>8, <1>9

-----------------------------------------------------------------------------
(* Every step keeps the invariant *)

LEMMA SliceHead ==
    ASSUME NEW S, NEW w \in Seq(S), NEW r \in Nat, NEW c \in Nat, c <= r, r <= Len(w),
           NEW k \in Nat, k <= r - c
    PROVE  SubSeq(Slice(w, c, r), 1, k) = Slice(w, c, c + k)
<1>1. PICK s, q, t : s = Slice(w, c, r) /\ q = c + k /\ t = Slice(w, c, q)
    OBVIOUS
<1>2. Len(w) \in Nat /\ q \in Nat /\ c <= q /\ q <= r /\ q <= Len(w) /\ q - c = k
    BY <1>1, LenProperties
<1>3. s \in Seq(S) /\ IsSlice(s, w, c, r)
  <2>1. Slice(w, c, r) \in Seq(S) /\ IsSlice(Slice(w, c, r), w, c, r)
      BY SliceIs
  <2> QED  BY <1>1, <2>1
<1>4. t \in Seq(S) /\ IsSlice(t, w, c, q)
  <2>1. Slice(w, c, q) \in Seq(S) /\ IsSlice(Slice(w, c, q), w, c, q)
      BY <1>2, SliceIs
  <2> QED  BY <1>1, <2>1
<1>5. Len(s) = r - c /\ \A j \in 1..(r - c) : s[j] = w[c + j]
    BY <1>3 DEF IsSlice
<1>6. Len(t) = k /\ \A j \in 1..k : t[j] = w[c + j]
  <2>1. Len(t) = q - c /\ \A j \in 1..(q - c) : t[j] = w[c + j]
      BY <1>4 DEF IsSlice
  <2> QED  BY <1>2, <2>1
<1>7. k \in 0..Len(s)
    BY <1>2, <1>5
<1>8. PICK u : u = SubSeq(s, 1, k)
    OBVIOUS
<1>9. u \in Seq(S) /\ Len(u) = k /\ \A j \in 1..k : u[j] = s[j]
    BY <1>3, <1>7, <1>8, Prefix
<1>10. ASSUME NEW j \in 1..k PROVE u[j] = t[j]
  <2>1. j \in 1..(r - c)
      BY <1>2
  <2> QED  BY <1>5, <1>6, <1>9, <2>1
<1>11. u = t
    BY <1>4, <1>6, <1>9, <1>10, SeqEqual
<1> QED  BY <1>1, <1>8, <1>11

LEMMA HandedLater ==
    ASSUME NEW sc \in Seq(Items), NEW ot, NEW n, NEW rd \in Nat, NEW r \in Nat, rd <= r,
           Handed(sc, rd, ot, n)
    PROVE  Handed(sc, r, ot, n)
<1>1. n \in 0..Len(sc) /\ EndOf(sc, n) <= rd
    BY DEF Handed
<1>2. EndOf(sc, n) \in Nat
    BY <1>1, EndsAre
<1>3. EndOf(sc, n) <= r
    BY <1>1, <1>2
<1> QED  BY <1>3 DEF Handed

LEMMA HoldingMore ==
    ASSUME NEW sc \in Seq(Items), NEW rd \in Nat, NEW r \in Nat, rd <= r, r <= Len(Bytes(sc)),
           NEW bf, NEW ot, NEW n, NEW c \in Nat, Holding(sc, rd, bf, ot, n, c)
    PROVE  Holding(sc, r, bf \o Slice(Bytes(sc), rd, r), ot, n, c)
<1>1. PICK w : w = Bytes(sc)
    OBVIOUS
<1>2. /\ Handed(sc, rd, ot, n) /\ c \in EndOf(sc, n)..rd /\ bf = Slice(w, c, rd)
      /\ \A j \in (EndOf(sc, n) + 1)..c : w[j] \in Newline
    BY <1>1 DEF Holding
<1>3. Handed(sc, r, ot, n)
    BY <1>2, HandedLater
<1>4. EndOf(sc, n) \in Nat
  <2>1. n \in 0..Len(sc)
      BY <1>2 DEF Handed
  <2> QED  BY <2>1, EndsAre
<1>5. w \in Seq(Symbols) /\ c <= rd /\ r <= Len(w) /\ c \in EndOf(sc, n)..r
    BY <1>1, <1>2, <1>4, EndsAre
<1>6. Slice(w, c, rd) \o Slice(w, rd, r) = Slice(w, c, r)
    BY <1>5, SliceConcat
<1> QED  BY <1>1, <1>2, <1>3, <1>5, <1>6 DEF Holding

LEMMA InvInit == Init => Inv
<1>1. SUFFICES ASSUME Init PROVE Inv
    OBVIOUS
<1>2. script \in Seq(Items)
  <2>1. PICK n \in 0..MaxItems : script \in [1..n -> Items]
      BY <1>1 DEF Init
  <2>2. n \in Nat
      BY CodecAssumption
  <2> QED  BY <2>1, <2>2
<1>3. PICK w : w = Bytes(script)
    OBVIOUS
<1>4. /\ w \in Seq(Symbols) /\ Len(w) \in Nat /\ Len(script) \in Nat /\ EndOf(script, 0) = 0
      /\ 0 \in 0..Len(script)
    BY <1>2, <1>3, EndsAre
<1>5. transit = Slice(w, read, Len(w)) /\ read \in 0..Len(w)
  <2>1. SubSeq(w, 1, Len(w)) = w
      BY <1>4, SubSeqFull
  <2> QED  BY <1>1, <1>3, <1>4, <2>1 DEF Init, Slice
<1>6. Handed(script, read, out, 0)
  <2>1. Messages(SubSeq(script, 1, 0)) = << >>
      BY <1>2, NoMessagesYet
  <2> QED  BY <1>1, <1>4, <2>1 DEF Init, Handed
<1>7. buf = Slice(w, 0, 0) /\ buf = << >> /\ read = 0 /\ Len(buf) = 0
  <2>1. Slice(w, 0, 0) \in Seq(Symbols) /\ IsSlice(Slice(w, 0, 0), w, 0, 0)
      BY <1>4, SliceIs
  <2>2. Slice(w, 0, 0) = << >>
      BY <2>1 DEF IsSlice
  <2> QED  BY <1>1, <2>2 DEF Init
<1>8. 0 < Len(script) => 0 < EndOf(script, 1)
  <2>1. SUFFICES ASSUME 0 < Len(script) PROVE 0 < EndOf(script, 1)
      OBVIOUS
  <2>2. 0 \in 0..Len(script) /\ 1 \in 0..Len(script) /\ 0 < 1
      BY <1>4, <2>1
  <2>3. EndOf(script, 0) < EndOf(script, 1)
      BY <1>2, <2>2, EndsGrow
  <2> QED  BY <1>4, <2>3
<1>9. Holding(script, read, buf, out, 0, 0)
  <2>1. 0 \in EndOf(script, 0)..read /\ \A j \in (EndOf(script, 0) + 1)..0 : Bytes(script)[j] \in Newline
      BY <1>4, <1>7
  <2> QED  BY <1>3, <1>6, <1>7, <2>1 DEF Holding
<1>10. Waits(script, read, buf, out, 0, 0)
    BY <1>7, <1>8, <1>9 DEF Waits
<1>11. StreamInv
    BY <1>1, <1>2, <1>3, <1>5 DEF Init, StreamInv, Waiting
<1>12. DecodeInv
  <2>1. 0 \in 0..read /\ pc = "reading"
      BY <1>1, <1>7 DEF Init
  <2> QED  BY <1>4, <1>10, <2>1 DEF DecodeInv, Waiting
<1>13. BufferInv
    BY <1>1, <1>7, CodecAssumption DEF Init, BufferInv
<1> QED  BY <1>11, <1>12, <1>13 DEF Inv

LEMMA InvRead == Inv /\ Read => Inv'
<1>1. SUFFICES ASSUME Inv, Read PROVE Inv'
    OBVIOUS
<1>2. PICK k \in 1..Len(transit) :
          /\ buf' = buf \o SubSeq(transit, 1, k)
          /\ transit' = SubSeq(transit, k + 1, Len(transit))
          /\ read' = read + k
    BY <1>1 DEF Read
<1>3. pc = "reading" /\ pc' = "decoding" /\ script' = script /\ out' = out
    BY <1>1 DEF Read
<1>4. PICK w, l : w = Bytes(script) /\ l = Len(w)
    OBVIOUS
<1>5. script \in Seq(Items) /\ read \in 0..l /\ transit \in {<< >>, Slice(w, read, l)}
    BY <1>1, <1>4 DEF Inv, StreamInv
<1>6. w \in Seq(Symbols) /\ l \in Nat /\ read \in Nat /\ read <= l /\ l <= Len(w)
    BY <1>4, <1>5, EndsAre
<1>7. transit = Slice(w, read, l)
  <2>1. transit # << >>
      BY <1>2
  <2> QED  BY <1>5, <2>1
<1>8. Len(transit) = l - read
  <2>1. Slice(w, read, l) \in Seq(Symbols) /\ IsSlice(Slice(w, read, l), w, read, l)
      BY <1>6, SliceIs
  <2> QED  BY <1>7, <2>1 DEF IsSlice
<1>9. PICK r : r = read + k
    OBVIOUS
<1>10. /\ r \in Nat /\ read <= r /\ r <= l /\ k \in Nat /\ k <= l - read
       /\ r - read + 1 = k + 1 /\ r \in 0..l
    BY <1>6, <1>8, <1>9
<1>11. SubSeq(transit, 1, k) = Slice(w, read, r)
  <2>1. SubSeq(Slice(w, read, l), 1, k) = Slice(w, read, read + k)
      BY <1>6, <1>10, SliceHead
  <2> QED  BY <1>7, <1>9, <2>1
<1>12. transit' = Slice(w, r, l)
  <2>1. SubSeq(Slice(w, read, l), r - read + 1, Len(Slice(w, read, l))) = Slice(w, r, l)
      BY <1>6, <1>10, SliceOfSlice
  <2> QED  BY <1>2, <1>7, <1>10, <2>1
<1>13. PICK n \in 0..Len(script), c \in 0..read : Waits(script, read, buf, out, n, c)
    BY <1>1, <1>3 DEF Inv, DecodeInv, Waiting
<1>14. Holding(script, r, buf \o Slice(w, read, r), out, n, c)
  <2>1. Holding(script, read, buf, out, n, c) /\ c \in Nat
      BY <1>6, <1>13 DEF Waits
  <2> QED  BY <1>4, <1>5, <1>6, <1>10, <2>1, HoldingMore
<1>15. Holding(script', read', buf', out', n, c) /\ n \in 0..Len(script') /\ c \in 0..read'
  <2>1. c \in 0..r
      BY <1>6, <1>10, <1>13
  <2>2. read' = r /\ buf' = buf \o Slice(w, read, r)
      BY <1>2, <1>9, <1>11
  <2> QED  BY <1>3, <1>13, <1>14, <2>1, <2>2
<1>16. StreamInv'
  <2>1. read' = r
      BY <1>2, <1>9
  <2> QED  BY <1>3, <1>4, <1>5, <1>10, <1>12, <2>1 DEF StreamInv
<1>17. DecodeInv'
    BY <1>3, <1>15 DEF DecodeInv, Waiting
<1>18. BufferInv'
    BY <1>3 DEF BufferInv
<1> QED  BY <1>16, <1>17, <1>18 DEF Inv

LEMMA InvClose == Inv /\ Close => Inv'
<1>1. SUFFICES ASSUME Inv, Close PROVE Inv'
    OBVIOUS
<1>2. transit' = << >> /\ UNCHANGED <<script, read, buf, out, pc>>
    BY <1>1 DEF Close
<1>3. StreamInv'
    BY <1>1, <1>2 DEF Inv, StreamInv
<1>4. DecodeInv' /\ BufferInv'
    BY <1>1, <1>2 DEF Inv, DecodeInv, BufferInv
<1> QED  BY <1>3, <1>4 DEF Inv

LEMMA InvEnd == Inv /\ End => Inv'
<1>1. SUFFICES ASSUME Inv, End PROVE Inv'
    OBVIOUS
<1>2. /\ UNCHANGED <<script, transit, read, buf, out>> /\ pc = "reading"
      /\ pc' = IF buf = << >> THEN "end" ELSE "torn"
    BY <1>1 DEF End
<1>3. StreamInv'
    BY <1>1, <1>2 DEF Inv, StreamInv, Waiting
<1>4. DecodeInv'
    BY <1>1, <1>2 DEF Inv, DecodeInv, Waiting
<1>5. BufferInv'
    BY <1>2 DEF BufferInv
<1> QED  BY <1>3, <1>4, <1>5 DEF Inv

LEMMA InvDecode == Inv /\ Decode => Inv'
<1>1. SUFFICES ASSUME Inv, Decode PROVE Inv'
    OBVIOUS
<1>2. PICK s, p : s = DropBeats(buf) /\ p = Outcome(s)
    OBVIOUS
<1>3. /\ pc = "decoding" /\ UNCHANGED <<script, transit, read>>
      /\ \/ /\ p.is = "ok" /\ IsMessage(p.frame.command, p.frame.headers)
            /\ out' = Append(out, ToServerMsg(p.frame))
            /\ buf' = SubSeq(s, p.at, Len(s))
            /\ UNCHANGED pc
         \/ /\ p.is = "ok" /\ ~IsMessage(p.frame.command, p.frame.headers)
            /\ pc' = "no message"
            /\ UNCHANGED out
         \/ /\ p.is = "more"
            /\ buf' = s /\ pc' = "reading"
            /\ UNCHANGED out
         \/ /\ p.is \in {"bad", "too long"}
            /\ buf' = s /\ pc' = p.is
            /\ UNCHANGED out
    BY <1>1, <1>2 DEF Decode
<1>4. script \in Seq(Items) /\ read \in 0..Len(Bytes(script)) /\ Len(script) \in Nat
    BY <1>1, EndsAre DEF Inv, StreamInv
<1>5. PICK m \in 0..Len(script) : Turn(script, read, s, out, m)
  <2>1. PICK n \in 0..Len(script), c \in 0..read : Holding(script, read, buf, out, n, c)
      BY <1>1, <1>3 DEF Inv, DecodeInv
  <2> QED  BY <1>2, <1>4, <2>1, DecodeIs
<1>6. StreamInv'
  <2>1. pc' \in {"decoding", "bad", "no message"} \cup Waiting
      BY <1>3 DEF Waiting
  <2> QED  BY <1>1, <1>3, <2>1 DEF Inv, StreamInv
<1>7. CASE /\ p.is = "more" /\ Len(s) <= MaxFrame
           /\ \E d \in 0..read : Waits(script, read, s, out, m, d)
  <2>1. buf' = s /\ pc' = "reading" /\ out' = out
      BY <1>3, <1>7
  <2>2. DecodeInv'
      BY <1>3, <1>7, <2>1 DEF DecodeInv, Waiting
  <2>3. BufferInv'
      BY <1>7, <2>1 DEF BufferInv
  <2> QED  BY <1>6, <2>2, <2>3 DEF Inv
<1>8. CASE /\ p.is = "too long" /\ Len(s) > MaxFrame
           /\ \E d \in 0..read : Waits(script, read, s, out, m, d)
  <2>1. buf' = s /\ pc' = "too long" /\ out' = out
      BY <1>3, <1>8
  <2>2. DecodeInv'
      BY <1>3, <1>8, <2>1 DEF DecodeInv, Waiting
  <2>3. BufferInv'
      BY <1>8, <2>1 DEF BufferInv
  <2> QED  BY <1>6, <2>2, <2>3 DEF Inv
<1>9. CASE p.is = "bad" /\ Stopped(script, read, out, m, "bad")
  <2>1. pc' = "bad" /\ out' = out
      BY <1>3, <1>9
  <2>2. DecodeInv'
      BY <1>3, <1>9, <2>1 DEF DecodeInv, Waiting
  <2>3. BufferInv'
      BY <2>1 DEF BufferInv
  <2> QED  BY <1>6, <2>2, <2>3 DEF Inv
<1>10. CASE /\ p.is = "ok" /\ ~IsMessage(p.frame.command, p.frame.headers)
            /\ Stopped(script, read, out, m, "no message")
  <2>1. pc' = "no message" /\ out' = out
      BY <1>3, <1>10
  <2>2. DecodeInv'
      BY <1>3, <1>10, <2>1 DEF DecodeInv, Waiting
  <2>3. BufferInv'
      BY <2>1 DEF BufferInv
  <2> QED  BY <1>6, <2>2, <2>3 DEF Inv
<1>11. CASE /\ p.is = "ok" /\ IsMessage(p.frame.command, p.frame.headers) /\ m < Len(script)
            /\ \E e \in 0..read : Holding(script, read, SubSeq(s, p.at, Len(s)),
                                          Append(out, ToServerMsg(p.frame)), m + 1, e)
  <2>1. /\ pc' = "decoding" /\ out' = Append(out, ToServerMsg(p.frame))
        /\ buf' = SubSeq(s, p.at, Len(s))
      BY <1>3, <1>11
  <2>2. \E e \in 0..read' : Holding(script', read', buf', out', m + 1, e)
      BY <1>3, <1>11, <2>1
  <2>3. m + 1 \in 0..Len(script')
      BY <1>3, <1>4, <1>11
  <2>4. DecodeInv'
      BY <2>1, <2>2, <2>3 DEF DecodeInv, Waiting
  <2>5. BufferInv'
      BY <2>1 DEF BufferInv
  <2> QED  BY <1>6, <2>4, <2>5 DEF Inv
<1> QED  BY <1>2, <1>5, <1>7, <1>8, <1>9, <1>10, <1>11 DEF Turn

LEMMA InvHolds == Spec => []Inv
<1>1. Init => Inv
    BY InvInit
<1>2. Inv /\ [Next]_vars => Inv'
  <2>1. Inv /\ UNCHANGED vars => Inv'
    <3>1. SUFFICES ASSUME Inv, UNCHANGED vars PROVE Inv'
        OBVIOUS
    <3>2. UNCHANGED <<script, transit, read, buf, out, pc>>
        BY <3>1 DEF vars
    <3> QED  BY <3>1, <3>2 DEF Inv, StreamInv, DecodeInv, BufferInv
  <2> QED  BY <2>1, InvRead, InvClose, InvEnd, InvDecode DEF Next
<1> QED  BY <1>1, <1>2, PTL DEF Spec

-----------------------------------------------------------------------------
(* What has been read, and the theorems *)

\* The items that have been read to their end are the first n.
LEMMA CountIs ==
    ASSUME NEW sc \in Seq(Items), NEW rd \in Nat, NEW n \in 0..Len(sc), EndOf(sc, n) <= rd,
           n < Len(sc) => rd < EndOf(sc, n + 1)
    PROVE  Cardinality({i \in DOMAIN sc : Len(Bytes(SubSeq(sc, 1, i))) <= rd}) = n
<1> DEFINE I == {i \in DOMAIN sc : Len(Bytes(SubSeq(sc, 1, i))) <= rd}
<1>0. Len(sc) \in Nat /\ DOMAIN sc = 1..Len(sc) /\ \A i \in 0..Len(sc) : EndOf(sc, i) \in Nat
    BY EndsAre, LenProperties
<1>1. ASSUME NEW i \in 1..Len(sc) PROVE EndOf(sc, i) <= rd <=> i \in 1..n
  <2>0. i \in 0..Len(sc) /\ EndOf(sc, i) \in Nat /\ EndOf(sc, n) \in Nat
      BY <1>0
  <2>1. CASE i <= n
    <3>1. EndOf(sc, i) <= EndOf(sc, n)
        BY <2>0, <2>1, EndsOrdered
    <3> QED  BY <1>0, <2>0, <2>1, <3>1
  <2>2. CASE ~(i <= n)
    <3>1. PICK k : k = n + 1
        OBVIOUS
    <3>2. k \in 0..Len(sc) /\ k <= i /\ n < Len(sc)
        BY <1>0, <2>2, <3>1
    <3>3. EndOf(sc, k) <= EndOf(sc, i) /\ EndOf(sc, k) \in Nat /\ rd < EndOf(sc, k)
        BY <1>0, <2>0, <3>1, <3>2, EndsOrdered
    <3> QED  BY <1>0, <2>0, <2>2, <3>3
  <2> QED  BY <2>1, <2>2
<1>2. \A i \in 1..n : i \in 1..Len(sc)
    BY <1>0
<1>3. I = 1..n
  <2>1. \A i : i \in I <=> i \in 1..Len(sc) /\ EndOf(sc, i) <= rd
      BY <1>0 DEF EndOf
  <2> HIDE DEF I
  <2>2. \A i : i \in I <=> i \in 1..n
      BY <1>1, <1>2, <2>1
  <2> QED  BY <2>2
<1>4. 1 \in Int /\ n \in Int /\ n \in Nat
    BY <1>0
<1>5. Cardinality(1..n) = IF 1 > n THEN 0 ELSE n - 1 + 1
    BY <1>4, FS_Interval
<1>6. Cardinality(1..n) = n
    BY <1>4, <1>5
<1> QED  BY <1>3, <1>6

\* Whole, when the first h items have been dealt with.
LEMMA WholeIs ==
    ASSUME script \in Seq(Items), read \in 0..Len(Bytes(script)),
           NEW h, Handed(script, read, out, h)
    PROVE  \E k \in h..Len(script) :
             /\ Whole = SubSeq(script, 1, k)
             /\ (h < Len(script) => read < EndOf(script, h + 1)) => k = h
             /\ \A fate : Stopped(script, read, out, h, fate) => k = h + 1
<1> DEFINE N == Len(script)
           fatal == {"bad", "no message"}
<1>0. /\ N \in Nat /\ Len(Bytes(script)) \in Nat /\ read \in Nat
      /\ \A i \in 0..N : EndOf(script, i) \in Nat
    BY EndsAre
<1>1. /\ h \in 0..N /\ EndOf(script, h) <= read
      /\ \A i \in 1..h : Fate(script[i]) \in {"message", "dropped"}
    BY DEF Handed
<1>01. h \in Nat
  <2>1. h \in 0..Len(script)
      BY DEF Handed
  <2>2. Len(script) \in Nat
      BY <1>0
  <2> QED  BY <2>1, <2>2
<1>2. PICK n \in 0..N : EndOf(script, n) <= read /\ (n < N => read < EndOf(script, n + 1))
    BY LastEnd
<1>3. ASSUME NEW i \in 0..N, EndOf(script, i) <= read PROVE i <= n
  <2>1. SUFFICES ASSUME ~(i <= n) PROVE FALSE
      OBVIOUS
  <2>2. PICK k : k = n + 1
      OBVIOUS
  <2>3. k \in 0..N /\ k <= i /\ n < N
      BY <1>0, <2>1, <2>2
  <2>4. EndOf(script, k) <= EndOf(script, i) /\ read < EndOf(script, k)
      BY <1>2, <2>2, <2>3, EndsOrdered
  <2>5. EndOf(script, k) \in Nat /\ EndOf(script, i) \in Nat
      BY <1>0, <2>3
  <2> QED  BY <1>0, <1>3, <2>4, <2>5
<1>4. h <= n
    BY <1>1, <1>3
<1>02. \A i \in 1..n : i \notin 1..h => i \in Nat /\ i # 0 /\ h < i
  <2>1. n \in Nat
      BY <1>0
  <2> QED  BY <1>01, <2>1
<1> DEFINE D == {i \in 1..n : Fate(script[i]) \in fatal}
           f == IF D # {} THEN Min(D) ELSE 0
           k == IF f = 0 THEN n ELSE f
<1>5. Whole = SubSeq(script, 1, k)
  <2>1. Cardinality({i \in DOMAIN script : Len(Bytes(SubSeq(script, 1, i))) <= read}) = n
      BY <1>0, <1>2, CountIs
  <2> QED  BY <2>1 DEF Whole, SelectInSubSeq
<1>6. D \subseteq Nat /\ D \subseteq 1..n /\ \A i \in D : i \in Nat /\ i # 0 /\ h < i
  <2>1. ASSUME NEW i \in D PROVE i \in Nat /\ i # 0 /\ h < i
    <3>1. i \in 1..n /\ Fate(script[i]) \in {"bad", "no message"}
        BY DEF D
    <3>2. ~(i \in 1..h)
        BY <1>1, <3>1
    <3> QED  BY <1>02, <3>1, <3>2
  <2> QED  BY <2>1
<1> HIDE DEF D
<1>7. D # {} => k \in D /\ \A i \in D : k <= i
  <2>1. SUFFICES ASSUME D # {} PROVE k \in D /\ \A i \in D : k <= i
      OBVIOUS
  <2>2. Min(D) \in D /\ \A i \in D : Min(D) <= i
      BY <1>6, <2>1, MinIs
  <2>3. k = Min(D)
      BY <1>6, <2>1, <2>2
  <2> QED  BY <2>2, <2>3
<1>8. D = {} => k = n
    OBVIOUS
<1> HIDE DEF k
<1>9. k \in h..N
  <2>1. CASE D = {}
      BY <1>0, <1>1, <1>4, <1>8, <2>1
  <2>2. CASE D # {}
    <3>1. k \in 1..n /\ h < k
        BY <1>6, <1>7, <2>2
    <3> QED  BY <1>0, <1>1, <3>1
  <2> QED  BY <2>1, <2>2
<1>10. ASSUME h < N => read < EndOf(script, h + 1) PROVE k = h
  <2>1. n = h
    <3>1. SUFFICES ASSUME n # h PROVE FALSE
        OBVIOUS
    <3>2. PICK g : g = h + 1
        OBVIOUS
    <3>3. h < N /\ g \in 0..N /\ g <= n
        BY <1>0, <1>1, <1>4, <3>1, <3>2
    <3>4. EndOf(script, g) <= EndOf(script, n) /\ read < EndOf(script, g)
        BY <1>10, <3>2, <3>3, EndsOrdered
    <3>5. EndOf(script, g) \in Nat /\ EndOf(script, n) \in Nat
        BY <1>0, <3>3
    <3> QED  BY <1>0, <1>2, <3>4, <3>5
  <2>2. D = {}
    <3>1. ASSUME NEW i \in D PROVE FALSE
      <4>1. i \in 1..n /\ h < i
          BY <1>6
      <4> QED  BY <1>0, <1>1, <2>1, <4>1
    <3> QED  BY <3>1
  <2> QED  BY <1>8, <2>1, <2>2
<1>11. ASSUME NEW fate, Stopped(script, read, out, h, fate) PROVE k = h + 1
  <2>1. PICK g : g = h + 1
      OBVIOUS
  <2>2. h < N /\ EndOf(script, g) <= read /\ Fate(script[g]) \in fatal
      BY <1>11, <2>1 DEF Stopped
  <2>3. g \in 0..N /\ g \in Nat /\ g # 0
    <3>1. h \in Nat /\ h < N /\ N \in Nat
        BY <1>0, <1>01, <2>2
    <3> HIDE DEF N
    <3> QED  BY <2>1, <3>1
  <2>4. g <= n
      BY <1>3, <2>2, <2>3
  <2>5. g \in 1..n
      BY <1>0, <2>3, <2>4
  <2>6. g \in D
      BY <2>2, <2>5 DEF D
  <2>7. k \in D /\ k <= g
      BY <1>7, <2>6
  <2>8. h < k /\ k \in Nat
      BY <1>6, <2>7
  <2> QED  BY <1>0, <1>1, <2>1, <2>7, <2>8
<1> QED  BY <1>5, <1>9, <1>10, <1>11

\* What the invariant says in a state where no byte string is being decoded
\* and none has ended the stream.
LEMMA WhenWaiting ==
    ASSUME Inv, pc \in Waiting
    PROVE  \E n \in 0..Len(script), c \in 0..read :
             /\ Waits(script, read, buf, out, n, c) /\ Whole = SubSeq(script, 1, n)
             /\ out = Messages(SubSeq(script, 1, n)) /\ Len(Whole) = n
             /\ EndOf(script, n) \in Nat /\ c \in Nat /\ EndOf(script, n) <= c /\ c <= read
             /\ Len(buf) = read - c /\ (buf = << >> <=> c = read)
             /\ EndOf(script, n) < read => n < Len(script)
<1>1. script \in Seq(Items) /\ read \in 0..Len(Bytes(script))
    BY DEF Inv, StreamInv
<1>2. PICK n \in 0..Len(script), c \in 0..read : Waits(script, read, buf, out, n, c)
    BY DEF Inv, DecodeInv
<1>3. /\ Handed(script, read, out, n) /\ c \in EndOf(script, n)..read
      /\ buf = Slice(Bytes(script), c, read)
      /\ n < Len(script) => read < EndOf(script, n + 1)
    BY <1>2 DEF Waits, Holding
<1>4. PICK k \in n..Len(script) : Whole = SubSeq(script, 1, k) /\ k = n
    BY <1>1, <1>3, WholeIs
<1>5. out = Messages(SubSeq(script, 1, n))
    BY <1>3 DEF Handed
<1>6. Len(Whole) = n
    BY <1>1, <1>4, Prefix
<1>7. /\ Bytes(script) \in Seq(Symbols) /\ Len(Bytes(script)) \in Nat /\ Len(script) \in Nat
      /\ EndOf(script, n) \in Nat /\ EndOf(script, Len(script)) = Len(Bytes(script))
    BY <1>1, EndsAre
<1>8. read \in Nat /\ read <= Len(Bytes(script)) /\ c \in Nat /\ EndOf(script, n) <= c /\ c <= read
    BY <1>1, <1>3, <1>7
<1>9. Len(buf) = read - c /\ (buf = << >> <=> c = read)
  <2>1. /\ Slice(Bytes(script), c, read) \in Seq(Symbols)
        /\ IsSlice(Slice(Bytes(script), c, read), Bytes(script), c, read)
      BY <1>7, <1>8, SliceIs
  <2> QED  BY <1>3, <2>1 DEF IsSlice
<1>10. EndOf(script, n) < read => n < Len(script)
  <2>1. SUFFICES ASSUME EndOf(script, n) < read PROVE n # Len(script)
      BY <1>7
  <2>2. ~(EndOf(script, n) = Len(Bytes(script)))
      BY <1>7, <1>8, <2>1
  <2> QED  BY <1>7, <2>2
<1>11. Whole = SubSeq(script, 1, n)
    BY <1>4
<1>12. EndOf(script, n) \in Nat /\ c \in Nat /\ EndOf(script, n) <= c /\ c <= read
    BY <1>7, <1>8
<1> QED  BY <1>2, <1>5, <1>6, <1>9, <1>10, <1>11, <1>12

LEMMA WhenStopped ==
    ASSUME Inv, pc \in {"bad", "no message"}
    PROVE  \E n \in 0..Len(script) :
             /\ n < Len(script) /\ Whole = SubSeq(script, 1, n + 1)
             /\ out = Messages(SubSeq(script, 1, n)) /\ Fate(script[n + 1]) = pc
<1>1. script \in Seq(Items) /\ read \in 0..Len(Bytes(script))
    BY DEF Inv, StreamInv
<1>2. PICK n \in 0..Len(script) : Stopped(script, read, out, n, pc)
    BY DEF Inv, DecodeInv
<1>3. Handed(script, read, out, n) /\ n < Len(script) /\ Fate(script[n + 1]) = pc
    BY <1>2 DEF Stopped
<1>4. PICK k \in n..Len(script) : /\ Whole = SubSeq(script, 1, k)
                                  /\ \A fate : Stopped(script, read, out, n, fate) => k = n + 1
    BY <1>1, <1>3, WholeIs
<1>6. k = n + 1
    BY <1>2, <1>4
<1>5. out = Messages(SubSeq(script, 1, n))
    BY <1>3 DEF Handed
<1> QED  BY <1>3, <1>4, <1>5, <1>6

LEMMA InvCuts == Inv => CutsAreInvisible
<1>1. SUFFICES ASSUME Inv PROVE CutsAreInvisible
    OBVIOUS
<1>2. /\ script \in Seq(Items) /\ read \in 0..Len(Bytes(script)) /\ Len(script) \in Nat
      /\ pc \in {"decoding", "bad", "no message"} \cup Waiting
    BY <1>1, EndsAre DEF Inv, StreamInv
<1>20. Len(script) \in Nat
    BY <1>2
<1>3. CASE pc = "decoding"
  <2>1. PICK n \in 0..Len(script), c \in 0..read : Holding(script, read, buf, out, n, c)
      BY <1>1, <1>3 DEF Inv, DecodeInv
  <2>2. Handed(script, read, out, n)
      BY <2>1 DEF Holding
  <2>3. PICK k \in n..Len(script) : Whole = SubSeq(script, 1, k)
      BY <1>2, <2>2, WholeIs
  <2>4. out = Messages(SubSeq(script, 1, n))
      BY <2>2 DEF Handed
  <2>5. k \in 0..Len(script) /\ n <= k
      BY <1>20
  <2>6. IsPrefix(Messages(SubSeq(script, 1, n)), Messages(SubSeq(script, 1, k)))
      BY <1>2, <2>5, MessagesGrow
  <2> QED  BY <1>3, <2>3, <2>4, <2>6 DEF CutsAreInvisible
<1>4. CASE pc \in Waiting
  <2>1. PICK n \in 0..Len(script) : /\ Whole = SubSeq(script, 1, n)
                                    /\ out = Messages(SubSeq(script, 1, n))
      BY <1>1, <1>4, WhenWaiting
  <2>2. n <= n
      BY <1>20
  <2>3. IsPrefix(Messages(SubSeq(script, 1, n)), Messages(SubSeq(script, 1, n)))
      BY <1>2, <2>2, MessagesGrow
  <2> QED  BY <2>1, <2>3 DEF CutsAreInvisible
<1>5. CASE pc \in {"bad", "no message"}
  <2>1. PICK n \in 0..Len(script) :
             /\ n < Len(script) /\ Whole = SubSeq(script, 1, n + 1)
             /\ out = Messages(SubSeq(script, 1, n)) /\ Fate(script[n + 1]) = pc
      BY <1>1, <1>5, WhenStopped
  <2>2. Fate(script[n + 1]) # "message"
      BY <1>5, <2>1
  <2>3. Messages(SubSeq(script, 1, n + 1)) = Messages(SubSeq(script, 1, n))
      BY <1>2, <2>1, <2>2, MessagesStep
  <2>4. n <= n
      BY <1>20
  <2>5. IsPrefix(Messages(SubSeq(script, 1, n)), Messages(SubSeq(script, 1, n)))
      BY <1>2, <2>4, MessagesGrow
  <2> QED  BY <2>1, <2>3, <2>5 DEF CutsAreInvisible
<1> QED  BY <1>2, <1>3, <1>4, <1>5

LEMMA InvFails == Inv => FailsOnlyOnJunk
<1>1. SUFFICES ASSUME Inv, pc \in {"bad", "no message"}
               PROVE  Whole # << >> /\ Fate(Whole[Len(Whole)]) = pc
    BY DEF FailsOnlyOnJunk
<1>2. PICK n \in 0..Len(script) :
             /\ n < Len(script) /\ Whole = SubSeq(script, 1, n + 1) /\ Fate(script[n + 1]) = pc
    BY <1>1, WhenStopped
<1>3. script \in Seq(Items) /\ Len(script) \in Nat
    BY <1>1, EndsAre DEF Inv, StreamInv
<1>4. PICK k : k = n + 1
    OBVIOUS
<1>5. k \in 0..Len(script) /\ k \in 1..k /\ k # 0
    BY <1>2, <1>3, <1>4
<1>6. PICK s : s = SubSeq(script, 1, k)
    OBVIOUS
<1>7. s \in Seq(Items) /\ Len(s) = k /\ s[k] = script[k]
    BY <1>3, <1>5, <1>6, Prefix
<1>8. s # << >>
    BY <1>5, <1>7
<1> QED  BY <1>2, <1>4, <1>6, <1>7, <1>8

LEMMA InvTorn == Inv => TornIsReported
<1>1. SUFFICES ASSUME Inv, pc \in {"end", "torn"}
               PROVE  pc = "torn" <=> Inside /\ script[Len(Whole) + 1].kind # "beat"
    BY DEF TornIsReported
<1>2. /\ script \in Seq(Items) /\ read \in Nat /\ Len(script) \in Nat
      /\ \A i \in 0..Len(script) : EndOf(script, i) \in Nat
  <2>1. script \in Seq(Items) /\ read \in 0..Len(Bytes(script))
      BY <1>1 DEF Inv, StreamInv
  <2>2. Len(Bytes(script)) \in Nat
      BY <2>1, EndsAre
  <2> QED  BY <2>1, <2>2, EndsAre
<1>3. PICK n \in 0..Len(script), c \in 0..read :
             /\ Waits(script, read, buf, out, n, c) /\ Len(Whole) = n
             /\ EndOf(script, n) \in Nat /\ c \in Nat /\ EndOf(script, n) <= c /\ c <= read
             /\ buf = << >> <=> c = read
             /\ EndOf(script, n) < read => n < Len(script)
  <2>1. pc \in Waiting
      BY <1>1 DEF Waiting
  <2> QED  BY <1>1, <2>1, WhenWaiting
<1>4. PICK w, e : w = Bytes(script) /\ e = EndOf(script, n)
    OBVIOUS
<1>5. /\ n < Len(script) => read < EndOf(script, n + 1)
      /\ \A j \in (e + 1)..c : w[j] \in Newline
      /\ buf = << >> \/ (c = e /\ w[c + 1] \notin Newline)
    BY <1>3, <1>4 DEF Waits, Holding
<1>6. Inside <=> \A i \in 0..Len(script) : EndOf(script, i) # read
    BY DEF Inside, EndOf
<1>7. CASE pc = "torn"
  <2>1. buf # << >>
      BY <1>1, <1>7 DEF Inv, BufferInv
  <2>2. c = e /\ w[e + 1] \notin Newline /\ e \in Nat /\ e < read
      BY <1>2, <1>3, <1>4, <1>5, <2>1
  <2>3. n < Len(script)
      BY <1>3, <1>4, <2>2
  <2>4. script[n + 1].kind # "beat"
      BY <1>2, <1>4, <2>2, <2>3, FirstByte
  <2>5. ASSUME NEW i \in 0..Len(script) PROVE EndOf(script, i) # read
    <3>0. EndOf(script, i) \in Nat
        BY <1>2
    <3>1. CASE i <= n
      <4>1. EndOf(script, i) <= e
          BY <1>2, <1>4, <3>1, EndsOrdered
      <4> QED  BY <1>2, <2>2, <3>0, <4>1
    <3>2. CASE ~(i <= n)
      <4>1. PICK k : k = n + 1
          OBVIOUS
      <4>2. k \in 0..Len(script) /\ k <= i
          BY <1>2, <2>3, <3>2, <4>1
      <4>3. EndOf(script, k) <= EndOf(script, i) /\ read < EndOf(script, k) /\ EndOf(script, k) \in Nat
          BY <1>2, <1>5, <2>3, <4>1, <4>2, EndsOrdered
      <4> QED  BY <1>2, <3>0, <4>3
    <3> QED  BY <3>1, <3>2
  <2> QED  BY <1>3, <1>6, <1>7, <2>4, <2>5
<1>8. CASE pc = "end"
  <2>1. c = read
      BY <1>1, <1>3, <1>8 DEF Inv, BufferInv
  <2>2. SUFFICES ASSUME Inside PROVE script[n + 1].kind = "beat"
      BY <1>3, <1>8
  <2>3. e # read /\ e \in Nat /\ e <= read
      BY <1>3, <1>4, <1>6, <2>1, <2>2
  <2>4. e < read /\ n < Len(script)
    <3>1. e < read
        BY <1>2, <2>3
    <3> QED  BY <1>3, <1>4, <3>1
  <2>5. e + 1 \in (e + 1)..c
      BY <1>2, <2>1, <2>3, <2>4
  <2>6. w[e + 1] \in Newline
      BY <1>5, <2>5
  <2> QED  BY <1>2, <1>4, <2>4, <2>6, FirstByte
<1> QED  BY <1>1, <1>7, <1>8

LEMMA InvBound == Inv => BoundIsFair
<1>1. SUFFICES ASSUME Inv PROVE BoundIsFair
    OBVIOUS
<1>2. pc = "reading" => Len(buf) <= MaxFrame
    BY <1>1 DEF Inv, BufferInv
<1>3. ASSUME pc = "too long"
      PROVE  Len(Whole) < Len(script) /\ Len(script[Len(Whole) + 1].bytes) > MaxFrame
  <2>1. Len(buf) > MaxFrame /\ MaxFrame \in Nat
      BY <1>1, <1>3, CodecAssumption DEF Inv, BufferInv
  <2>2. script \in Seq(Items) /\ read \in Nat
    <3>1. script \in Seq(Items) /\ read \in 0..Len(Bytes(script))
        BY <1>1 DEF Inv, StreamInv
    <3>2. Len(Bytes(script)) \in Nat
        BY <3>1, EndsAre
    <3> QED  BY <3>1, <3>2
  <2>3. PICK n \in 0..Len(script), c \in 0..read :
             /\ Waits(script, read, buf, out, n, c) /\ Len(Whole) = n
             /\ c \in Nat /\ c <= read /\ Len(buf) = read - c
             /\ EndOf(script, n) \in Nat /\ EndOf(script, n) <= c
             /\ EndOf(script, n) < read => n < Len(script)
    <3>1. pc \in Waiting
        BY <1>3 DEF Waiting
    <3> QED  BY <1>1, <3>1, WhenWaiting
  <2>4. buf # << >>
      BY <2>1
  <2>5. c = EndOf(script, n) /\ (n < Len(script) => read < EndOf(script, n + 1))
      BY <2>3, <2>4 DEF Waits
  <2>6. MaxFrame < read - c /\ c < read
      BY <2>1, <2>2, <2>3
  <2>7. n < Len(script)
      BY <2>3, <2>5, <2>6
  <2>8. PICK l : l = Len(script[n + 1].bytes)
      OBVIOUS
  <2>9. l \in Nat /\ EndOf(script, n + 1) = EndOf(script, n) + l
      BY <2>2, <2>7, <2>8, NextItem
  <2>10. read < c + l
      BY <2>5, <2>7, <2>9
  <2>11. l > MaxFrame
      BY <2>1, <2>2, <2>3, <2>6, <2>9, <2>10
  <2> QED  BY <2>3, <2>7, <2>8, <2>11
<1> QED  BY <1>2, <1>3 DEF BoundIsFair

\* However the network cuts what the server sends, decode hands out the
\* messages that were sent, in order, each as soon as it is complete: for
\* every set of legible frames, every script of them, of heart-beats and of
\* junk, every way to cut it and every bound.
THEOREM CutsNeverShow == Spec => []CutsAreInvisible
<1>1. Spec => []Inv
    BY InvHolds
<1>2. Inv => CutsAreInvisible
    BY InvCuts
<1> QED  BY <1>1, <1>2, PTL

\* The stream fails on what is no frame, or is a frame but no message, and on
\* nothing else.
THEOREM OnlyJunkFails == Spec => []FailsOnlyOnJunk
<1>1. Spec => []Inv
    BY InvHolds
<1>2. Inv => FailsOnlyOnJunk
    BY InvFails
<1> QED  BY <1>1, <1>2, PTL

\* decode_eof reports a frame that the end of the stream has cut off, and
\* nothing but that.
THEOREM TornReported == Spec => []TornIsReported
<1>1. Spec => []Inv
    BY InvHolds
<1>2. Inv => TornIsReported
    BY InvTorn
<1> QED  BY <1>1, <1>2, PTL

\* max_frame_size bounds what a waiting stream holds, and ends a stream only
\* for a frame that is longer.
THEOREM BoundFair == Spec => []BoundIsFair
<1>1. Spec => []Inv
    BY InvHolds
<1>2. Inv => BoundIsFair
    BY InvBound
<1> QED  BY <1>1, <1>2, PTL
=============================================================================
