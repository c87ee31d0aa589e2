--------------------------- MODULE OutboundProofs ---------------------------
(***************************************************************************)
(* Proofs about Outbound: what a server reads is the message that was      *)
(* meant. First for any message that can be written, through to_frame,     *)
(* serialize, the parser and to_client_msg; then for the builders,         *)
(* whatever their setters are given and however often they are called.     *)
(***************************************************************************)
EXTENDS Outbound, Lemmas

-----------------------------------------------------------------------------
(* The tables *)

Special == {"CR", "LF", ":", "ESC"}

LEMMA NotAlphaIs == NotAlpha = {"CR", "LF", "NUL", ":", "ESC", "0", "1", "2", "3", "4"}
<1>1. Numerals = <<"0", "1", "2", "3", "4">> /\ DOMAIN Numerals = 1..5
    BY DEF Numerals
<1>2. 1..5 = {1, 2, 3, 4, 5}
    OBVIOUS
<1>3. {Numerals[i] : i \in DOMAIN Numerals} = {Numerals[1], Numerals[2], Numerals[3], Numerals[4], Numerals[5]}
    BY <1>1, <1>2
<1>4. /\ Numerals[1] = "0" /\ Numerals[2] = "1" /\ Numerals[3] = "2"
      /\ Numerals[4] = "3" /\ Numerals[5] = "4"
    BY <1>1
<1> QED  BY <1>3, <1>4 DEF NotAlpha

LEMMA NumeralsIs ==
    /\ \A n \in 0..4 : Numerals[n + 1] \in Symbols \ Special
    /\ \A n, k \in 0..4 : Numerals[n + 1] = Numerals[k + 1] => n = k
<1>1. Numerals = <<"0", "1", "2", "3", "4">>
    BY DEF Numerals
<1>2. /\ Numerals[0 + 1] = "0" /\ Numerals[1 + 1] = "1" /\ Numerals[2 + 1] = "2"
      /\ Numerals[3 + 1] = "3" /\ Numerals[4 + 1] = "4"
    BY <1>1
<1>3. \A n \in 0..4 : n = 0 \/ n = 1 \/ n = 2 \/ n = 3 \/ n = 4
    OBVIOUS
<1>4. /\ {"0", "1", "2", "3", "4"} \subseteq Symbols
      /\ {"0", "1", "2", "3", "4"} \cap Special = {}
    BY DEF Symbols, Marks, Special
<1>5. ASSUME NEW n \in 0..4 PROVE Numerals[n + 1] \in {"0", "1", "2", "3", "4"}
    BY <1>2, <1>3
<1>6. ASSUME NEW n \in 0..4, NEW k \in 0..4, Numerals[n + 1] = Numerals[k + 1] PROVE n = k
    BY <1>2, <1>3, <1>6
<1> QED  BY <1>4, <1>5, <1>6

\* What is said of a kind in the tables of Messages.
LEMMA LayoutIs ==
    ASSUME NEW kind \in Kinds
    PROVE  /\ Layout[kind] \in Seq(Words)
           /\ FieldsOf(kind) = {Layout[kind][i] : i \in 1..Len(Layout[kind])}
<1>1. Kinds = {"Connect", "Disconnect", "Send", "Subscribe", "Unsubscribe", "Ack", "Nack",
               "Begin", "Commit", "Abort"}
    BY DEF Kinds, CommandOf
<1>2. Layout[kind] \in Seq(Words)
  <2>0. {"accept-version", "host", "login", "heart-beat", "passcode", "receipt", "destination",
         "transaction", "id", "ack"} \subseteq Words
      BY DEF Words
  <2>1. CASE kind = "Connect"
    <3>1. Layout[kind] = <<"accept-version", "host", "login", "heart-beat", "passcode">>
        BY <2>1 DEF Layout
    <3> QED  BY <2>0, <3>1
  <2>2. CASE kind = "Disconnect"
    <3>1. Layout[kind] = <<"receipt">>
        BY <2>2 DEF Layout
    <3> QED  BY <2>0, <3>1
  <2>3. CASE kind = "Send"
    <3>1. Layout[kind] = <<"destination", "transaction">>
        BY <2>3 DEF Layout
    <3> QED  BY <2>0, <3>1
  <2>4. CASE kind = "Subscribe"
    <3>1. Layout[kind] = <<"destination", "id", "ack">>
        BY <2>4 DEF Layout
    <3> QED  BY <2>0, <3>1
  <2>5. CASE kind = "Unsubscribe"
    <3>1. Layout[kind] = <<"id">>
        BY <2>5 DEF Layout
    <3> QED  BY <2>0, <3>1
  <2>6. CASE kind \in {"Ack", "Nack"}
    <3>1. Layout[kind] = <<"id", "transaction">>
        BY <2>6 DEF Layout
    <3> QED  BY <2>0, <3>1
  <2>7. CASE kind \in {"Begin", "Commit", "Abort"}
    <3>1. Layout[kind] = <<"transaction">>
        BY <2>7 DEF Layout
    <3> QED  BY <2>0, <3>1
  <2> QED  BY <1>1, <2>1, <2>2, <2>3, <2>4, <2>5, <2>6, <2>7
<1>3. DOMAIN Layout[kind] = 1..Len(Layout[kind])
    BY <1>2, LenProperties
<1> QED  BY <1>2, <1>3 DEF FieldsOf, Range

LEMMA FieldsAre ==
    ASSUME NEW kind \in Kinds
    PROVE  /\ FieldsOf(kind) \subseteq Words
           /\ Mandatory[kind] \subseteq FieldsOf(kind)
<1>1. Kinds = {"Connect", "Disconnect", "Send", "Subscribe", "Unsubscribe", "Ack", "Nack",
               "Begin", "Commit", "Abort"}
    BY DEF Kinds, CommandOf
<1>2. FieldsOf(kind) \subseteq Words
    BY LayoutIs, ElementOfSeq
<1>3. \A i \in DOMAIN Layout[kind] : Layout[kind][i] \in FieldsOf(kind)
    BY DEF FieldsOf, Range
<1>4. Mandatory[kind] \subseteq FieldsOf(kind)
  <2>1. CASE kind = "Connect"
    <3>1. Layout[kind] = <<"accept-version", "host", "login", "heart-beat", "passcode">>
        BY <2>1 DEF Layout
    <3>2. "accept-version" \in FieldsOf(kind) /\ "host" \in FieldsOf(kind)
        BY <1>3, <3>1
    <3> QED  BY <2>1, <3>2 DEF Mandatory
  <2>2. CASE kind = "Disconnect"
      BY <2>2 DEF Mandatory
  <2>3. CASE kind = "Send"
    <3>1. Layout[kind] = <<"destination", "transaction">>
        BY <2>3 DEF Layout
    <3>2. "destination" \in FieldsOf(kind)
        BY <1>3, <3>1
    <3> QED  BY <2>3, <3>2 DEF Mandatory
  <2>4. CASE kind = "Subscribe"
    <3>1. Layout[kind] = <<"destination", "id", "ack">>
        BY <2>4 DEF Layout
    <3>2. "destination" \in FieldsOf(kind) /\ "id" \in FieldsOf(kind)
        BY <1>3, <3>1
    <3> QED  BY <2>4, <3>2 DEF Mandatory
  <2>5. CASE kind \in {"Unsubscribe", "Ack", "Nack"}
    <3>1. Layout[kind] = <<"id">> \/ Layout[kind] = <<"id", "transaction">>
        BY <2>5 DEF Layout
    <3>2. "id" \in FieldsOf(kind)
        BY <1>3, <3>1
    <3> QED  BY <2>5, <3>2 DEF Mandatory
  <2>6. CASE kind \in {"Begin", "Commit", "Abort"}
    <3>1. Layout[kind] = <<"transaction">>
        BY <2>6 DEF Layout
    <3>2. "transaction" \in FieldsOf(kind)
        BY <1>3, <3>1
    <3> QED  BY <2>6, <3>2 DEF Mandatory
  <2> QED  BY <1>1, <2>1, <2>2, <2>3, <2>4, <2>5, <2>6
<1> QED  BY <1>2, <1>4

LEMMA WordsAre ==
    /\ Words \subseteq Symbols /\ Words \cap Special = {} /\ "content-length" \notin Words
    /\ "content-length" \in Symbols \ Special
BY DEF Words, Symbols, Marks, Special

\* A command stands for one kind, and is a run of letters.
LEMMA CommandIs ==
    ASSUME NEW kind \in Kinds
    PROVE  /\ CommandOf[kind] \in Symbols \ NotAlpha
           /\ HeadersAreEscaped(CommandOf[kind]) <=> kind # "Connect"
           /\ KindOf(CommandOf[kind]) = {kind}
<1>1. Kinds = {"Connect", "Disconnect", "Send", "Subscribe", "Unsubscribe", "Ack", "Nack",
               "Begin", "Commit", "Abort"}
    BY DEF Kinds, CommandOf
<1>2. /\ CommandOf["Connect"] = "CONNECT" /\ CommandOf["Disconnect"] = "DISCONNECT"
      /\ CommandOf["Send"] = "SEND" /\ CommandOf["Subscribe"] = "SUBSCRIBE"
      /\ CommandOf["Unsubscribe"] = "UNSUBSCRIBE" /\ CommandOf["Ack"] = "ACK"
      /\ CommandOf["Nack"] = "NACK" /\ CommandOf["Begin"] = "BEGIN"
      /\ CommandOf["Commit"] = "COMMIT" /\ CommandOf["Abort"] = "ABORT"
    BY DEF CommandOf
<1>3. CommandOf[kind] \in {"CONNECT", "DISCONNECT", "SEND", "SUBSCRIBE", "UNSUBSCRIBE", "ACK",
                           "NACK", "BEGIN", "COMMIT", "ABORT"}
    BY <1>1, <1>2
<1>4. CommandOf[kind] \in Symbols /\ CommandOf[kind] \notin NotAlpha /\ CommandOf[kind] # "STOMP"
      /\ CommandOf[kind] # "CONNECTED"
    BY <1>3, NotAlphaIs DEF Symbols, Words
<1>5. CommandOf[kind] = "CONNECT" <=> kind = "Connect"
    BY <1>1, <1>2
<1>6. \A k \in Kinds : CommandOf[k] = CommandOf[kind] => k = kind
    BY <1>1, <1>2
<1>7. HeadersAreEscaped(CommandOf[kind]) <=> kind # "Connect"
    BY <1>4, <1>5 DEF HeadersAreEscaped
<1>8. KindOf(CommandOf[kind]) = {k \in Kinds : CommandOf[k] = CommandOf[kind]}
    BY <1>4 DEF KindOf
<1> QED  BY <1>4, <1>6, <1>7, <1>8

LEMMA AllIn ==
    ASSUME NEW S, NEW T, NEW s \in Seq(S), \A i \in 1..Len(s) : s[i] \in T
    PROVE  s \in Seq(T)
<1>1. Len(s) \in Nat /\ s = [i \in 1..Len(s) |-> s[i]]
    BY LenProperties
<1>2. s \in [1..Len(s) -> T]
    BY <1>1
<1> QED  BY <1>1, <1>2, SMTT(30)

LEMMA Triple ==
    ASSUME NEW S, NEW a \in S, NEW b \in S, NEW c \in S
    PROVE  /\ <<a, b, c>> \in Seq(S) /\ DOMAIN <<a, b, c>> = {1, 2, 3}
           /\ <<a, b, c>>[1] = a /\ <<a, b, c>>[2] = b /\ <<a, b, c>>[3] = c
<1>1. <<a, b, c>> \in Seq(S) /\ Len(<<a, b, c>>) = 3
    OBVIOUS
<1>2. 1..3 = {1, 2, 3}
    OBVIOUS
<1> QED  BY <1>1, <1>2, LenProperties

-----------------------------------------------------------------------------
(* What to_frame writes *)

\* The headers that can be written as one line and read back.
FitHeaders(kind) ==
    {h \in Headers : /\ \E k \in Symbols \ Special : h.key = <<k>>
                     /\ kind = "Connect" => OneLine(h.value)}

\* The text of a field stands for it.
LEMMA TextIs ==
    ASSUME NEW kind, NEW name, NEW v, Fits(kind, name, v)
    PROVE  /\ TextOf(name, v) \in Seq(Symbols) /\ (kind = "Connect" => OneLine(TextOf(name, v)))
           /\ ValueOf(name, TextOf(name, v)) = {v}
<1>1. CASE name = "ack"
  <2>1. v \in DOMAIN AckText /\ TextOf(name, v) = AckText[v]
      BY <1>1 DEF Fits, TextOf
  <2>2. DOMAIN AckText = {"Auto", "Client", "ClientIndividual"}
      BY DEF AckText
  <2>3. /\ AckText["Auto"] = <<"auto">> /\ AckText["Client"] = <<"client">>
        /\ AckText["ClientIndividual"] = <<"client-individual">>
      BY DEF AckText
  <2>4. PICK w \in {"auto", "client", "client-individual"} : AckText[v] = <<w>>
      BY <2>1, <2>2, <2>3
  <2>5. w \in Symbols /\ w # "CR" /\ w # "LF"
      BY <2>4 DEF Symbols, Words
  <2>6. <<w>> \in Seq(Symbols) /\ DOMAIN <<w>> = {1} /\ <<w>>[1] = w
      BY <2>5
  <2>7. OneLine(<<w>>)
      BY <2>5, <2>6 DEF OneLine
  <2>8. \A m \in DOMAIN AckText : AckText[m] = AckText[v] => m = v
      BY <2>1, <2>2, <2>3
  <2>9. ValueOf(name, AckText[v]) = {v}
      BY <1>1, <2>1, <2>8 DEF ValueOf
  <2> QED  BY <2>1, <2>4, <2>6, <2>7, <2>9
<1>2. CASE name = "heart-beat"
  <2>1. v \in (0..4) \X (0..4)
      BY <1>2 DEF Fits
  <2>2. PICK a, b : a \in 0..4 /\ b \in 0..4 /\ v = <<a, b>> /\ v[1] = a /\ v[2] = b
      BY <2>1
  <2>3. PICK c, d : c = Numerals[a + 1] /\ d = Numerals[b + 1]
      OBVIOUS
  <2>4. TextOf(name, v) = <<c, ",", d>>
      BY <1>2, <2>2, <2>3 DEF TextOf
  <2>5. c \in Symbols /\ d \in Symbols /\ {c, d, ","} \cap {"CR", "LF"} = {} /\ "," \in Symbols
    <3>1. c \in Symbols \ Special /\ d \in Symbols \ Special
        BY <2>2, <2>3, NumeralsIs
    <3>2. "," \in Symbols
        BY DEF Symbols, Words
    <3> QED  BY <3>1, <3>2 DEF Special
  <2>6. PICK t : t = <<c, ",", d>>
      OBVIOUS
  <2>7. t \in Seq(Symbols) /\ DOMAIN t = {1, 2, 3} /\ t[1] = c /\ t[2] = "," /\ t[3] = d
    <3>1. PICK e : e = ","
        OBVIOUS
    <3>2. c \in Symbols /\ d \in Symbols /\ e \in Symbols
        BY <2>5, <3>1
    <3>3. /\ <<c, e, d>> \in Seq(Symbols) /\ DOMAIN <<c, e, d>> = {1, 2, 3}
          /\ <<c, e, d>>[1] = c /\ <<c, e, d>>[2] = e /\ <<c, e, d>>[3] = d
        BY <3>2, Triple
    <3> QED  BY <2>6, <3>1, <3>3
  <2>8. OneLine(t)
      BY <2>5, <2>7 DEF OneLine
  <2>9. ASSUME NEW p \in (0..4) \X (0..4), t = <<Numerals[p[1] + 1], ",", Numerals[p[2] + 1]>>
        PROVE  p = v
    <3>1. PICK x, y : x \in 0..4 /\ y \in 0..4 /\ p = <<x, y>> /\ p[1] = x /\ p[2] = y
        OBVIOUS
    <3>2. PICK q, r : q = Numerals[x + 1] /\ r = Numerals[y + 1]
        OBVIOUS
    <3>3. t = <<q, ",", r>>
        BY <2>9, <3>1, <3>2
    <3>4. q = c /\ r = d
        BY <2>7, <3>3
    <3>5. x = a /\ y = b
        BY <2>2, <2>3, <3>1, <3>2, <3>4, NumeralsIs
    <3> QED  BY <2>2, <3>1, <3>5
  <2>10. t = <<Numerals[v[1] + 1], ",", Numerals[v[2] + 1]>>
      BY <2>2, <2>3, <2>6
  <2>11. ValueOf(name, t) = {p \in (0..4) \X (0..4) : t = <<Numerals[p[1] + 1], ",", Numerals[p[2] + 1]>>}
      BY <1>2 DEF ValueOf, parse_heartbeat
  <2>12. ValueOf(name, t) = {v}
      BY <2>1, <2>9, <2>10, <2>11
  <2> QED  BY <2>4, <2>6, <2>7, <2>8, <2>12
<1>3. CASE name \notin {"ack", "heart-beat"}
  <2>1. v \in Seq(STRING) /\ (kind = "Connect" => OneLine(v))
      BY <1>3 DEF Fits
  <2>2. TextOf(name, v) = v /\ ValueOf(name, v) = {v}
      BY <1>3 DEF TextOf, ValueOf
  <2> QED  BY <2>1, <2>2, StringsAreSymbols
<1> QED  BY <1>1, <1>2, <1>3

\* The headers of the fields: each field that is there, as its text.
LEMMA HeadersOfIs ==
    ASSUME NEW m, Writable(m)
    PROVE  /\ HeadersOf(m.kind, m.fields) \in Seq(FitHeaders(m.kind))
           /\ \A key : HasKey(HeadersOf(m.kind, m.fields), key) <=>
                         \E k \in FieldsOf(m.kind) : m.fields[k] # {} /\ key = <<k>>
           /\ \A k \in FieldsOf(m.kind) : \A v \in m.fields[k] :
                 Fetch(HeadersOf(m.kind, m.fields), k) = {TextOf(k, v)}
<1>1. PICK kind, fields : kind = m.kind /\ fields = m.fields
    OBVIOUS
<1>2. /\ kind \in Kinds
      /\ \A k \in FieldsOf(kind) : \A v \in fields[k] : Fits(kind, k, v) /\ fields[k] = {v}
    BY <1>1 DEF Writable
<1> DEFINE names == Layout[kind]
           D == {i \in DOMAIN names : fields[names[i]] # {}}
           text(k) == TextOf(k, CHOOSE v \in fields[k] : TRUE)
<1>3. /\ names \in Seq(Words) /\ Len(names) \in Nat /\ DOMAIN names = 1..Len(names)
      /\ FieldsOf(kind) = {names[i] : i \in 1..Len(names)}
    BY <1>2, LayoutIs, LenProperties
<1>4. \A k \in FieldsOf(kind) : \A v \in fields[k] : text(k) = TextOf(k, v)
    BY <1>2
<1>5. \A i \in 1..Len(names) : i \in D <=> fields[names[i]] # {}
    BY <1>3
<1>6. PICK present : present = Selected(names, D)
    OBVIOUS
<1>7. HeadersOf(kind, fields) =
          [i \in DOMAIN present |-> [key |-> <<present[i]>>, value |-> text(present[i])]]
    BY <1>6 DEF HeadersOf
<1> HIDE DEF names, D, text
<1>8. PICK pos : present \in Seq(Words) /\ Chooses(pos, names, D, present, Len(names))
    BY <1>3, <1>6, SelectedIs
<1>9. /\ Len(present) \in Nat /\ DOMAIN present = 1..Len(present)
      /\ \A i \in 1..Len(present) : present[i] \in Words
    BY <1>8, LenProperties, ElementOfSeq
<1>10. PICK hs : hs = HeadersOf(kind, fields)
    OBVIOUS
<1>11. /\ DOMAIN hs = 1..Len(present)
       /\ \A i \in 1..Len(present) : hs[i] = [key |-> <<present[i]>>, value |-> text(present[i])]
    BY <1>7, <1>9, <1>10
<1>12. ASSUME NEW i \in 1..Len(present)
       PROVE  present[i] \in FieldsOf(kind) /\ fields[present[i]] # {}
  <2>1. pos[i] \in D /\ pos[i] \in 1..Len(names) /\ present[i] = names[pos[i]]
      BY <1>8 DEF Chooses
  <2> QED  BY <1>3, <1>5, <2>1
<1>13. ASSUME NEW k \in FieldsOf(kind), fields[k] # {}
       PROVE  \E i \in 1..Len(present) : present[i] = k
  <2>1. PICK n \in 1..Len(names) : names[n] = k
      BY <1>3
  <2>2. n \in D
      BY <1>5, <1>13, <2>1
  <2>3. PICK i \in 1..Len(present) : pos[i] = n
      BY <1>8, <2>2 DEF Chooses
  <2>4. present[i] = names[pos[i]]
      BY <1>8 DEF Chooses
  <2> QED  BY <2>1, <2>3, <2>4
<1>14. ASSUME NEW i \in 1..Len(present) PROVE hs[i] \in FitHeaders(kind)
  <2>1. PICK k, v, t : k = present[i] /\ v \in fields[k] /\ t = text(k)
      BY <1>12
  <2>2. k \in FieldsOf(kind) /\ t = TextOf(k, v) /\ Fits(kind, k, v)
      BY <1>2, <1>4, <1>12, <2>1
  <2>3. t \in Seq(Symbols) /\ (kind = "Connect" => OneLine(t))
      BY <2>2, TextIs
  <2>4. k \in Symbols \ Special
      BY <1>9, <2>1, WordsAre
  <2>5. hs[i] = [key |-> <<k>>, value |-> t]
      BY <1>11, <2>1
  <2>6. <<k>> \in Seq(Symbols)
      BY <2>4
  <2>7. PICK h : h = hs[i]
      OBVIOUS
  <2>8. h \in Headers /\ h.key = <<k>> /\ h.value = t
      BY <2>3, <2>5, <2>6, <2>7 DEF Headers
  <2> QED  BY <2>3, <2>4, <2>7, <2>8 DEF FitHeaders
<1>15. hs \in Seq(FitHeaders(kind)) /\ Len(hs) = Len(present)
  <2>1. hs = [i \in 1..Len(present) |-> hs[i]]
      BY <1>7, <1>9, <1>10
  <2>2. hs \in [1..Len(present) -> FitHeaders(kind)]
      BY <1>14, <2>1
  <2> QED  BY <1>9, <2>2, SMTT(30)
<1>16. ASSUME NEW key
       PROVE  HasKey(hs, key) <=> \E k \in FieldsOf(kind) : fields[k] # {} /\ key = <<k>>
  <2>1. HasKey(hs, key) <=> \E i \in 1..Len(present) : <<present[i]>> = key
      BY <1>11 DEF HasKey
  <2> QED  BY <1>12, <1>13, <2>1
<1>17. ASSUME NEW k \in FieldsOf(kind), NEW v \in fields[k]
       PROVE  Fetch(hs, k) = {TextOf(k, v)}
  <2>1. HasKey(hs, <<k>>)
      BY <1>16, <1>17
  <2>2. PICK i : IsFirst(hs, <<k>>, i)
      BY <1>15, <2>1, FetchIs
  <2>3. i \in 1..Len(present) /\ hs[i].key = <<k>>
      BY <1>15, <2>2 DEF IsFirst
  <2>4. present[i] = k
      BY <1>11, <2>3
  <2>5. hs[i].value = text(k)
      BY <1>11, <2>3, <2>4
  <2>6. text(k) = TextOf(k, v)
      BY <1>4, <1>17
  <2>7. Fetch(hs, k) = {hs[i].value}
      BY <1>15, <2>2, FetchIs
  <2> QED  BY <2>5, <2>6, <2>7
<1> QED  BY <1>1, <1>10, <1>15, <1>16, <1>17

\* So are the headers the application gives.
LEMMA LegibleIs ==
    ASSUME NEW kind, NEW headers, NEW body, Legible(kind, headers, body)
    PROVE  headers \in Seq(FitHeaders(kind))
<1> DEFINE R == [key : Seq(STRING), value : Seq(STRING)]
<1>1. headers \in Seq(R)
    BY DEF Legible
<1>2. Len(headers) \in Nat /\ DOMAIN headers = 1..Len(headers) /\ \A i \in 1..Len(headers) : headers[i] \in R
    BY <1>1, LenProperties, ElementOfSeq
<1>3. ASSUME NEW i \in 1..Len(headers) PROVE headers[i] \in FitHeaders(kind)
  <2>1. PICK h, key, value : h = headers[i] /\ key = h.key /\ value = h.value
      OBVIOUS
  <2>2. h = [key |-> key, value |-> value] /\ key \in Seq(STRING) /\ value \in Seq(STRING)
      BY <1>2, <2>1
  <2>3. Len(key) = 1 /\ key[1] \notin Special /\ (kind = "Connect" => OneLine(value))
      BY <1>2, <2>1 DEF Legible, Special
  <2>4. PICK k : k = key[1]
      OBVIOUS
  <2>5. k \in STRING /\ key = <<k>>
    <3>1. key[1] \in STRING
        BY <2>2, <2>3, ElementOfSeq
    <3>2. <<k>> \in Seq(STRING) /\ Len(<<k>>) = 1 /\ <<k>>[1] = k
        BY <2>4, <3>1
    <3>3. \A j \in 1..Len(key) : key[j] = <<k>>[j]
        BY <2>3, <2>4, <3>2
    <3>4. key = <<k>>
        BY <2>2, <2>3, <3>2, <3>3, SeqEqual
    <3> QED  BY <2>4, <3>1, <3>4
  <2>6. k \in Symbols \ Special /\ key \in Seq(Symbols) /\ value \in Seq(Symbols)
      BY <2>2, <2>3, <2>4, <2>5, StringsAreSymbols
  <2>7. h \in Headers
      BY <2>2, <2>6 DEF Headers
  <2>8. h \in FitHeaders(kind)
      BY <2>1, <2>3, <2>5, <2>6, <2>7 DEF FitHeaders
  <2> QED  BY <2>1, <2>8
<1> HIDE DEF R
<1> QED  BY <1>1, <1>3, AllIn

\* What add_extra_headers adds: by its name a header is found where it was,
\* and only then among the extra ones.
LEMMA AddedIs ==
    ASSUME NEW S, NEW x \in Seq(S), NEW e \in Seq(S),
           NEW D, \A i \in 1..Len(e) : i \in D <=> ~HasKey(x, e[i].key)
    PROVE  /\ x \o Selected(e, D) \in Seq(S)
           /\ \A key : HasKey(x \o Selected(e, D), key) <=> HasKey(x, key) \/ HasKey(e, key)
           /\ \A k : Fetch(x \o Selected(e, D), k) =
                       IF HasKey(x, <<k>>) THEN Fetch(x, k) ELSE Fetch(e, k)
<1>1. PICK y : y = Selected(e, D) /\ y \in Seq(S)
    BY SelectedIs
<1>2. DOMAIN e = 1..Len(e)
    BY LenProperties
<1>3. \A i \in 1..Len(e) : i \in D <=> ~HasKey(x, e[i].key)
    OBVIOUS
<1>4. x \o y \in Seq(S)
    BY <1>1, ConcatProperties
<1>5. ASSUME NEW key PROVE HasKey(x \o y, key) <=> HasKey(x, key) \/ HasKey(e, key)
  <2>1. HasKey(x \o y, key) <=> HasKey(x, key) \/ HasKey(y, key)
      BY <1>1, FetchConcat
  <2>2. HasKey(y, key) <=> \E i \in 1..Len(e) : i \in D /\ e[i].key = key
      BY <1>1, SelectedKeys
  <2>3. HasKey(e, key) <=> \E i \in 1..Len(e) : e[i].key = key
      BY <1>2 DEF HasKey
  <2> QED  BY <1>3, <2>1, <2>2, <2>3
<1>6. ASSUME NEW k
      PROVE  Fetch(x \o y, k) = IF HasKey(x, <<k>>) THEN Fetch(x, k) ELSE Fetch(e, k)
  <2>1. Fetch(x \o y, k) = IF HasKey(x, <<k>>) THEN Fetch(x, k) ELSE Fetch(y, k)
      BY <1>1, FetchConcat
  <2>2. CASE HasKey(x, <<k>>)
      BY <2>1, <2>2
  <2>3. CASE ~HasKey(x, <<k>>)
    <3>1. \A i \in 1..Len(e) : e[i].key = <<k>> => i \in D
        BY <1>3, <2>3
    <3>2. Fetch(Selected(e, D), k) = Fetch(e, k)
        BY <3>1, FetchSelected
    <3> QED  BY <1>1, <2>1, <2>3, <3>2
  <2> QED  BY <2>2, <2>3
<1> QED  BY <1>1, <1>4, <1>5, <1>6

\* The body as it is written, and whether it needs a length.
Body(m) == IF m.body = {} THEN << >> ELSE CHOOSE b \in m.body : TRUE
Needed(m) == \E b \in m.body : Contains(b, "NUL")

LEMMA BodyIs ==
    ASSUME NEW m, Writable(m)
    PROVE  /\ Body(m) \in Seq(STRING) /\ Len(Body(m)) \in Nat
           /\ (m.body = {} /\ Body(m) = << >>) \/ m.body = {Body(m)}
           /\ Needed(m) <=> Contains(Body(m), "NUL")
           /\ Needed(m) => Len(Body(m)) <= 4
<1>1. \A b \in m.body : b \in Seq(STRING) /\ m.body = {b} /\ (Contains(b, "NUL") => Len(b) <= 4)
    BY DEF Writable
<1>2. CASE m.body = {}
  <2>1. Body(m) = << >> /\ ~Needed(m)
      BY <1>2 DEF Body, Needed
  <2>2. << >> \in Seq(STRING) /\ Len(<< >>) = 0 /\ ~Contains(<< >>, "NUL")
      BY EmptySeq DEF Contains
  <2> QED  BY <1>2, <2>1, <2>2
<1>3. CASE m.body # {}
  <2>1. PICK b : b \in m.body
      BY <1>3
  <2>2. b \in Seq(STRING) /\ m.body = {b} /\ (Contains(b, "NUL") => Len(b) <= 4)
      BY <1>1, <2>1
  <2>3. Body(m) = b
      BY <1>3, <2>2 DEF Body
  <2>4. Needed(m) <=> Contains(b, "NUL")
      BY <2>2 DEF Needed
  <2> QED  BY <2>2, <2>3, <2>4, LenProperties
<1> QED  BY <1>2, <1>3

LengthHeader(m) == [key |-> <<"content-length">>, value |-> <<Numerals[Len(Body(m)) + 1]>>]
LengthOf(m) ==
    IF Needed(m) /\ ~HasKey(m.headers, <<"content-length">>) THEN <<LengthHeader(m)>> ELSE << >>

\* The headers of a message before the extra ones, and all of them.
OwnHeaders(m) == (HeadersOf(m.kind, m.fields) \o m.headers) \o LengthOf(m)
AllHeaders(m) ==
    OwnHeaders(m) \o Selected(m.extra_headers,
                              {i \in DOMAIN m.extra_headers : ~HasKey(OwnHeaders(m), m.extra_headers[i].key)})

\* What is written for a field, and what the headers say.
LEMMA OwnIs ==
    ASSUME NEW m, Writable(m)
    PROVE  /\ LengthOf(m) \in Seq(FitHeaders(m.kind))
           /\ OwnHeaders(m) \in Seq(FitHeaders(m.kind))
           /\ HeadersOf(m.kind, m.fields) \o m.headers \in Seq(FitHeaders(m.kind))
           /\ HasKey(HeadersOf(m.kind, m.fields) \o m.headers, <<"content-length">>) <=>
                  HasKey(m.headers, <<"content-length">>)
<1>1. PICK kind : kind = m.kind
    OBVIOUS
<1>2. PICK H : H = HeadersOf(m.kind, m.fields)
    OBVIOUS
<1>3. m.headers \in Seq(FitHeaders(kind)) /\ kind \in Kinds
    BY <1>1, LegibleIs DEF Writable
<1>4. H \in Seq(FitHeaders(kind))
    BY <1>1, <1>2, HeadersOfIs
<1>5. H \o m.headers \in Seq(FitHeaders(kind))
    BY <1>3, <1>4, ConcatProperties
<1>6. LengthOf(m) \in Seq(FitHeaders(kind))
  <2>1. CASE Needed(m)
    <3>1. PICK n, d : n = Len(Body(m)) /\ d = Numerals[n + 1]
        OBVIOUS
    <3>2. n \in 0..4
        BY <2>1, <3>1, BodyIs
    <3>3. d \in Symbols \ Special
        BY <3>1, <3>2, NumeralsIs
    <3>4. "content-length" \in Symbols \ Special
        BY WordsAre
    <3>5. PICK h : h = LengthHeader(m)
        OBVIOUS
    <3>6. h.key = <<"content-length">> /\ h.value = <<d>> /\ h = [key |-> <<"content-length">>, value |-> <<d>>]
        BY <3>1, <3>5 DEF LengthHeader
    <3>7. <<d>> \in Seq(Symbols) /\ DOMAIN <<d>> = {1} /\ <<d>>[1] = d
        BY <3>3
    <3>8. <<"content-length">> \in Seq(Symbols)
        BY <3>4
    <3>9. h \in Headers
        BY <3>6, <3>7, <3>8 DEF Headers
    <3>10. OneLine(<<d>>)
        BY <3>3, <3>7 DEF OneLine, Special
    <3>11. h \in FitHeaders(kind)
        BY <3>4, <3>6, <3>9, <3>10 DEF FitHeaders
    <3>12. <<h>> \in Seq(FitHeaders(kind)) /\ << >> \in Seq(FitHeaders(kind))
        BY <3>11, EmptySeq
    <3> QED  BY <3>5, <3>12 DEF LengthOf
  <2>2. CASE ~Needed(m)
    <3>1. LengthOf(m) = << >>
        BY <2>2 DEF LengthOf
    <3> QED  BY <3>1, EmptySeq
  <2> QED  BY <2>1, <2>2
<1>7. OwnHeaders(m) \in Seq(FitHeaders(kind))
  <2>1. PICK x, y : x = H \o m.headers /\ y = LengthOf(m)
      OBVIOUS
  <2>2. x \in Seq(FitHeaders(kind)) /\ y \in Seq(FitHeaders(kind))
      BY <1>5, <1>6, <2>1
  <2>3. x \o y \in Seq(FitHeaders(kind))
      BY <2>2, ConcatProperties
  <2> QED  BY <1>2, <2>1, <2>3 DEF OwnHeaders
<1>8. HasKey(H \o m.headers, <<"content-length">>) <=> HasKey(m.headers, <<"content-length">>)
  <2>1. ~HasKey(H, <<"content-length">>)
    <3>1. HasKey(H, <<"content-length">>) =>
              \E k \in FieldsOf(m.kind) : m.fields[k] # {} /\ <<"content-length">> = <<k>>
        BY <1>2, HeadersOfIs
    <3>2. "content-length" \notin FieldsOf(m.kind)
        BY <1>1, <1>3, FieldsAre, WordsAre
    <3>3. \A k : <<"content-length">> = <<k>> => k = "content-length"
        OBVIOUS
    <3> QED  BY <3>1, <3>2, <3>3
  <2> QED  BY <1>3, <1>4, <2>1, FetchConcat
<1> QED  BY <1>1, <1>2, <1>5, <1>6, <1>7, <1>8

LEMMA ToFrameIs ==
    ASSUME NEW m, Writable(m)
    PROVE  /\ to_frame(m).command = CommandOf[m.kind] /\ to_frame(m).headers = AllHeaders(m)
           /\ to_frame(m).body = Body(m) /\ to_frame(m).eol = <<"LF">>
<1>1. PICK x : x = HeadersOf(m.kind, m.fields) \o m.headers
    OBVIOUS
<1>2. /\ x \in Seq(FitHeaders(m.kind))
      /\ HasKey(x, <<"content-length">>) <=> HasKey(m.headers, <<"content-length">>)
    BY <1>1, OwnIs
<1>3. PICK frame : frame = [command |-> CommandOf[m.kind], headers |-> x, body |-> Body(m), eol |-> <<"LF">>]
    OBVIOUS
<1>4. ContentFrame(m) = IF m.kind = "Send" THEN WithLength(frame) ELSE frame
    BY <1>1, <1>3 DEF ContentFrame, Body
<1>5. x \o << >> = x
    BY <1>2, ConcatEmptySeq
<1>6. ContentFrame(m) = [command |-> CommandOf[m.kind], headers |-> OwnHeaders(m), body |-> Body(m),
                         eol |-> <<"LF">>]
  <2>1. CASE m.kind # "Send"
    <3>1. ~Needed(m)
        BY <2>1 DEF Writable, Needed
    <3>2. OwnHeaders(m) = x
        BY <1>1, <1>5, <3>1 DEF OwnHeaders, LengthOf
    <3> QED  BY <1>3, <1>4, <2>1, <3>2
  <2>2. CASE m.kind = "Send"
    <3>1. ContentFrame(m) = WithLength(frame) /\ frame.headers = x /\ frame.body = Body(m)
        BY <1>3, <1>4, <2>2
    <3>2. Needed(m) <=> Contains(frame.body, "NUL")
        BY <3>1, BodyIs
    <3>3. CASE Needed(m) /\ ~HasKey(m.headers, <<"content-length">>)
      <4>1. LengthOf(m) = <<LengthHeader(m)>>
          BY <3>3 DEF LengthOf
      <4>2. PICK h : h = LengthHeader(m)
          OBVIOUS
      <4>3. h \in FitHeaders(m.kind)
        <5>1. <<h>> \in Seq(FitHeaders(m.kind))
            BY <4>1, <4>2, OwnIs
        <5> QED  BY <5>1
      <4>4. Append(x, h) = OwnHeaders(m)
        <5>1. Append(x, h) = x \o <<h>>
            BY <1>2, <4>3, AppendIsConcat
        <5> QED  BY <1>1, <4>1, <4>2, <5>1 DEF OwnHeaders
      <4>5. WithLength(frame) = [frame EXCEPT !.headers = Append(x, h)]
          BY <1>2, <3>1, <3>2, <3>3, <4>2 DEF WithLength, LengthHeader
      <4> QED  BY <1>3, <3>1, <4>4, <4>5
    <3>4. CASE ~(Needed(m) /\ ~HasKey(m.headers, <<"content-length">>))
      <4>1. OwnHeaders(m) = x
          BY <1>1, <1>5, <3>4 DEF OwnHeaders, LengthOf
      <4>2. WithLength(frame) = frame
          BY <1>2, <3>1, <3>2, <3>4 DEF WithLength
      <4> QED  BY <1>3, <3>1, <4>1, <4>2
    <3> QED  BY <3>3, <3>4
  <2> QED  BY <2>1, <2>2
<1>7. PICK g : g = ContentFrame(m)
    OBVIOUS
<1>8. to_frame(m) = [g EXCEPT !.headers = AllHeaders(m)]
  <2>1. g.headers = OwnHeaders(m)
      BY <1>6, <1>7
  <2> QED  BY <1>7, <2>1 DEF to_frame, add_extra_headers, AllHeaders
<1> QED  BY <1>6, <1>7, <1>8

\* What is found under a name.
LEMMA AllIs ==
    ASSUME NEW m, Writable(m)
    PROVE  /\ AllHeaders(m) \in Seq(FitHeaders(m.kind))
           /\ \A key : HasKey(AllHeaders(m), key) <=>
                 \/ \E k \in FieldsOf(m.kind) : m.fields[k] # {} /\ key = <<k>>
                 \/ HasKey(m.headers \o m.extra_headers, key)
                 \/ Needed(m) /\ key = <<"content-length">>
           /\ \A k \in FieldsOf(m.kind) : \A v \in m.fields[k] :
                 Fetch(AllHeaders(m), k) = {TextOf(k, v)}
           /\ \A k : (k \in FieldsOf(m.kind) => m.fields[k] = {}) /\ k # "content-length" =>
                 Fetch(AllHeaders(m), k) = Fetch(m.headers \o m.extra_headers, k)
           /\ Fetch(AllHeaders(m), "content-length") =
                 IF HasKey(m.headers, <<"content-length">>) THEN Fetch(m.headers, "content-length")
                 ELSE IF Needed(m) THEN {<<Numerals[Len(Body(m)) + 1]>>}
                 ELSE Fetch(m.extra_headers, "content-length")
<1>1. PICK S, H, x, l, o, e, D :
          /\ S = FitHeaders(m.kind) /\ H = HeadersOf(m.kind, m.fields) /\ x = m.headers
          /\ l = LengthOf(m) /\ o = OwnHeaders(m) /\ e = m.extra_headers
          /\ D = {i \in DOMAIN e : ~HasKey(o, e[i].key)}
    OBVIOUS
<1>2. /\ H \in Seq(S) /\ x \in Seq(S) /\ l \in Seq(S) /\ o \in Seq(S) /\ e \in Seq(S) /\ H \o x \in Seq(S)
      /\ o = (H \o x) \o l
  <2>1. x \in Seq(S) /\ e \in Seq(S)
      BY <1>1, LegibleIs DEF Writable
  <2> QED  BY <1>1, <2>1, HeadersOfIs, OwnIs DEF OwnHeaders
<1>3. AllHeaders(m) = o \o Selected(e, D)
    BY <1>1 DEF AllHeaders
<1>4. /\ o \o Selected(e, D) \in Seq(S)
      /\ \A key : HasKey(o \o Selected(e, D), key) <=> HasKey(o, key) \/ HasKey(e, key)
      /\ \A k : Fetch(o \o Selected(e, D), k) = IF HasKey(o, <<k>>) THEN Fetch(o, k) ELSE Fetch(e, k)
  <2>1. \A i \in 1..Len(e) : i \in D <=> ~HasKey(o, e[i].key)
      BY <1>1, <1>2, LenProperties
  <2>2. o \in Seq(S) /\ e \in Seq(S)
      BY <1>2
  <2>3. o \o Selected(e, D) \in Seq(S)
      BY <2>1, <2>2, AddedIs
  <2>4. ASSUME NEW key
        PROVE  HasKey(o \o Selected(e, D), key) <=> HasKey(o, key) \/ HasKey(e, key)
      BY <2>1, <2>2, AddedIs
  <2>5. ASSUME NEW k
        PROVE  Fetch(o \o Selected(e, D), k) = IF HasKey(o, <<k>>) THEN Fetch(o, k) ELSE Fetch(e, k)
      BY <2>1, <2>2, AddedIs
  <2> QED  BY <2>3, <2>4, <2>5
<1>5. \A k : Fetch(o, k) = IF HasKey(H, <<k>>) THEN Fetch(H, k)
                           ELSE IF HasKey(x, <<k>>) THEN Fetch(x, k) ELSE Fetch(l, k)
  <2> SUFFICES ASSUME NEW k
               PROVE  Fetch(o, k) = IF HasKey(H, <<k>>) THEN Fetch(H, k)
                                    ELSE IF HasKey(x, <<k>>) THEN Fetch(x, k) ELSE Fetch(l, k)
      OBVIOUS
  <2>1. PICK y : y = H \o x
      OBVIOUS
  <2>2. Fetch(y \o l, k) = IF HasKey(y, <<k>>) THEN Fetch(y, k) ELSE Fetch(l, k)
    <3>1. y \in Seq(S) /\ l \in Seq(S)
        BY <1>2, <2>1
    <3> QED  BY <3>1, FetchConcat
  <2>3. Fetch(H \o x, k) = IF HasKey(H, <<k>>) THEN Fetch(H, k) ELSE Fetch(x, k)
      BY <1>2, FetchConcat
  <2>4. HasKey(H \o x, <<k>>) <=> HasKey(H, <<k>>) \/ HasKey(x, <<k>>)
      BY <1>2, FetchConcat
  <2> QED  BY <1>2, <2>1, <2>2, <2>3, <2>4
<1>6. \A key : HasKey(o, key) <=> HasKey(H, key) \/ HasKey(x, key) \/ HasKey(l, key)
  <2> SUFFICES ASSUME NEW key
               PROVE  HasKey(o, key) <=> HasKey(H, key) \/ HasKey(x, key) \/ HasKey(l, key)
      OBVIOUS
  <2>1. PICK y : y = H \o x
      OBVIOUS
  <2>2. HasKey(y \o l, key) <=> HasKey(y, key) \/ HasKey(l, key)
    <3>1. y \in Seq(S) /\ l \in Seq(S)
        BY <1>2, <2>1
    <3> QED  BY <3>1, FetchConcat
  <2>3. HasKey(H \o x, key) <=> HasKey(H, key) \/ HasKey(x, key)
      BY <1>2, FetchConcat
  <2> QED  BY <1>2, <2>1, <2>2, <2>3
<1>7. /\ \A key : HasKey(x \o e, key) <=> HasKey(x, key) \/ HasKey(e, key)
      /\ \A k : Fetch(x \o e, k) = IF HasKey(x, <<k>>) THEN Fetch(x, k) ELSE Fetch(e, k)
  <2>1. ASSUME NEW key PROVE HasKey(x \o e, key) <=> HasKey(x, key) \/ HasKey(e, key)
      BY <1>2, FetchConcat
  <2>2. ASSUME NEW k PROVE Fetch(x \o e, k) = IF HasKey(x, <<k>>) THEN Fetch(x, k) ELSE Fetch(e, k)
      BY <1>2, FetchConcat
  <2> QED  BY <2>1, <2>2
<1>8. PICK cl : cl = "content-length"
    OBVIOUS
<1>9. \A key : HasKey(l, key) <=> Needed(m) /\ ~HasKey(x, <<cl>>) /\ key = <<cl>>
  <2> SUFFICES ASSUME NEW key
               PROVE  HasKey(l, key) <=> Needed(m) /\ ~HasKey(x, <<cl>>) /\ key = <<cl>>
      OBVIOUS
  <2>1. CASE Needed(m) /\ ~HasKey(x, <<cl>>)
    <3>1. l = <<LengthHeader(m)>> /\ LengthHeader(m).key = <<cl>>
        BY <1>1, <1>8, <2>1 DEF LengthOf, LengthHeader
    <3>2. PICK h : h = LengthHeader(m)
        OBVIOUS
    <3>3. DOMAIN <<h>> = {1} /\ <<h>>[1] = h
        OBVIOUS
    <3>4. HasKey(<<h>>, key) <=> h.key = key
        BY <3>3 DEF HasKey
    <3> QED  BY <2>1, <3>1, <3>2, <3>4
  <2>2. CASE ~(Needed(m) /\ ~HasKey(x, <<cl>>))
    <3>1. l = << >>
        BY <1>1, <1>8, <2>2 DEF LengthOf
    <3>2. ~HasKey(<< >>, key)
        BY DEF HasKey
    <3> QED  BY <2>2, <3>1, <3>2
  <2> QED  BY <2>1, <2>2
<1>10. Needed(m) /\ ~HasKey(x, <<cl>>) => Fetch(l, cl) = {<<Numerals[Len(Body(m)) + 1]>>}
  <2> SUFFICES ASSUME Needed(m) /\ ~HasKey(x, <<cl>>)
               PROVE  Fetch(l, cl) = {<<Numerals[Len(Body(m)) + 1]>>}
      OBVIOUS
  <2>1. l = <<LengthHeader(m)>>
      BY <1>1, <1>8 DEF LengthOf
  <2>2. PICK h : h = LengthHeader(m)
      OBVIOUS
  <2>3. Len(l) = 1 /\ l[1] = h
      BY <2>1, <2>2
  <2>4. h.key = <<cl>> /\ h.value = <<Numerals[Len(Body(m)) + 1]>>
      BY <1>8, <2>2 DEF LengthHeader
  <2>5. IsFirst(l, <<cl>>, 1)
    <3>1. \A j \in 1..Len(l) : 1 <= j
        BY <2>3
    <3>2. 1 \in 1..Len(l) /\ l[1].key = <<cl>>
        BY <2>3, <2>4
    <3> QED  BY <3>1, <3>2 DEF IsFirst
  <2>6. Fetch(l, cl) = {l[1].value}
      BY <1>2, <2>5, FetchIs
  <2> QED  BY <2>3, <2>4, <2>6
<1>11. \A key : HasKey(H, key) <=> \E k \in FieldsOf(m.kind) : m.fields[k] # {} /\ key = <<k>>
    BY <1>1, HeadersOfIs
<1>12. \A key : HasKey(AllHeaders(m), key) <=>
          \/ \E k \in FieldsOf(m.kind) : m.fields[k] # {} /\ key = <<k>>
          \/ HasKey(m.headers \o m.extra_headers, key)
          \/ Needed(m) /\ key = <<cl>>
    BY <1>1, <1>3, <1>4, <1>6, <1>7, <1>9, <1>11
<1>13. ASSUME NEW k \in FieldsOf(m.kind), NEW v \in m.fields[k]
       PROVE  Fetch(AllHeaders(m), k) = {TextOf(k, v)}
  <2>1. HasKey(H, <<k>>) /\ Fetch(H, k) = {TextOf(k, v)}
      BY <1>1, HeadersOfIs
  <2>2. HasKey(o, <<k>>)
      BY <1>6, <2>1
  <2> QED  BY <1>3, <1>4, <1>5, <2>1, <2>2
<1>14. \A k : HasKey(H, <<k>>) <=> k \in FieldsOf(m.kind) /\ m.fields[k] # {}
  <2>1. \A k, n : <<k>> = <<n>> => k = n
      OBVIOUS
  <2> QED  BY <1>11, <2>1
<1>15. ASSUME NEW k, k \in FieldsOf(m.kind) => m.fields[k] = {}, k # cl
       PROVE  Fetch(AllHeaders(m), k) = Fetch(m.headers \o m.extra_headers, k)
  <2>1. ~HasKey(H, <<k>>)
      BY <1>14, <1>15
  <2>2. ~HasKey(l, <<k>>)
    <3>1. <<k>> # <<cl>>
        BY <1>15
    <3> QED  BY <1>9, <3>1
  <2> QED  BY <1>1, <1>3, <1>4, <1>5, <1>6, <1>7, <2>1, <2>2
<1>16. ~HasKey(H, <<cl>>)
  <2>1. "content-length" \notin FieldsOf(m.kind)
      BY FieldsAre, WordsAre DEF Writable
  <2> QED  BY <1>8, <1>14, <2>1
<1>17. Fetch(AllHeaders(m), cl) =
          IF HasKey(x, <<cl>>) THEN Fetch(x, cl)
          ELSE IF Needed(m) THEN {<<Numerals[Len(Body(m)) + 1]>>} ELSE Fetch(e, cl)
    BY <1>3, <1>4, <1>5, <1>6, <1>9, <1>10, <1>16
<1> QED  BY <1>1, <1>3, <1>4, <1>8, <1>12, <1>13, <1>15, <1>17

\* A name that is there has one value, and another none.
LEMMA FetchFrom ==
    ASSUME NEW S, NEW headers \in Seq(S), NEW name
    PROVE  /\ HasKey(headers, <<name>>) => \E t : Fetch(headers, name) = {t}
           /\ ~HasKey(headers, <<name>>) => Fetch(headers, name) = {}
BY DEF Fetch

\* What is fetched is the value of some header of the name.
IsIn(headers, name, t) ==
    \E i \in DOMAIN headers : headers[i].key = <<name>> /\ headers[i].value = t

LEMMA FetchedFrom ==
    ASSUME NEW S, NEW headers \in Seq(S), NEW name, NEW t \in Fetch(headers, name)
    PROVE  IsIn(headers, name, t)
<1>1. HasKey(headers, <<name>>)
    BY DEF Fetch
<1>2. PICK i : IsFirst(headers, <<name>>, i)
    BY <1>1, FetchIs
<1>3. Fetch(headers, name) = {headers[i].value}
    BY <1>2, FetchIs
<1>4. i \in DOMAIN headers /\ headers[i].key = <<name>>
    BY <1>2, LenProperties DEF IsFirst
<1>5. headers[i].value = t
    BY <1>3
<1> QED  BY <1>4, <1>5 DEF IsIn

\* A length that was given is that of the body.
LEMMA GivenLength ==
    ASSUME NEW m, Writable(m), NEW hs \in {m.headers, m.extra_headers},
           HasKey(hs, <<"content-length">>)
    PROVE  /\ Fetch(hs, "content-length") = {<<Numerals[Len(Body(m)) + 1]>>}
           /\ Len(Body(m)) <= 4 /\ m.body = {Body(m)}
<1>1. Legible(m.kind, hs, m.body)
    BY DEF Writable
<1>2. hs \in Seq(FitHeaders(m.kind))
    BY <1>1, LegibleIs
<1>3. PICK t : Fetch(hs, "content-length") = {t}
    BY <1>2, FetchFrom
<1>4. PICK i \in DOMAIN hs : hs[i].key = <<"content-length">> /\ hs[i].value = t
  <2>1. t \in Fetch(hs, "content-length")
      BY <1>3
  <2>2. IsIn(hs, "content-length", t)
      BY <1>2, <2>1, FetchedFrom
  <2> QED  BY <2>2 DEF IsIn
<1>5. PICK b \in m.body : Len(b) <= 4 /\ t = <<Numerals[Len(b) + 1]>>
    BY <1>1, <1>4 DEF Legible
<1>6. m.body = {Body(m)} /\ b = Body(m)
    BY <1>5, BodyIs
<1> QED  BY <1>3, <1>5, <1>6

LEMMA LengthIs ==
    ASSUME NEW m, Writable(m)
    PROVE  /\ HasKey(AllHeaders(m), <<"content-length">>) <=>
                  Needed(m) \/ HasKey(m.headers \o m.extra_headers, <<"content-length">>)
           /\ IF HasKey(AllHeaders(m), <<"content-length">>)
              THEN /\ Fetch(AllHeaders(m), "content-length") = {<<Numerals[Len(Body(m)) + 1]>>}
                   /\ Len(Body(m)) <= 4 /\ m.body = {Body(m)}
              ELSE Fetch(AllHeaders(m), "content-length") = {}
<1>1. PICK cl, key, t : cl = "content-length" /\ key = <<cl>> /\ t = <<Numerals[Len(Body(m)) + 1]>>
    OBVIOUS
<1>2. PICK x, e : x = m.headers /\ e = m.extra_headers
    OBVIOUS
<1>3. PICK S : S = FitHeaders(m.kind)
    OBVIOUS
<1>4. x \in Seq(S) /\ e \in Seq(S)
    BY <1>2, <1>3, LegibleIs DEF Writable
<1>5. HasKey(x \o e, key) <=> HasKey(x, key) \/ HasKey(e, key)
    BY <1>4, FetchConcat
<1>6. cl \notin FieldsOf(m.kind)
    BY <1>1, FieldsAre, WordsAre DEF Writable
<1>7. HasKey(AllHeaders(m), key) <=> Needed(m) \/ HasKey(x \o e, key)
  <2>1. HasKey(AllHeaders(m), key) <=>
          \/ \E k \in FieldsOf(m.kind) : m.fields[k] # {} /\ key = <<k>>
          \/ HasKey(x \o e, key)
          \/ Needed(m) /\ key = <<"content-length">>
      BY <1>2, AllIs
  <2>2. \A k : key = <<k>> => k = cl
      BY <1>1
  <2> QED  BY <1>1, <1>6, <2>1, <2>2
<1>8. Fetch(AllHeaders(m), cl) =
          IF HasKey(x, key) THEN Fetch(x, cl) ELSE IF Needed(m) THEN {t} ELSE Fetch(e, cl)
    BY <1>1, <1>2, AllIs
<1>9. CASE HasKey(x, key)
  <2>1. Fetch(x, cl) = {t} /\ Len(Body(m)) <= 4 /\ m.body = {Body(m)}
      BY <1>1, <1>2, <1>9, GivenLength
  <2> QED  BY <1>1, <1>2, <1>5, <1>7, <1>8, <1>9, <2>1
<1>10. CASE ~HasKey(x, key) /\ Needed(m)
  <2>1. m.body # {}
      BY <1>10 DEF Needed
  <2>2. Len(Body(m)) <= 4 /\ m.body = {Body(m)}
      BY <1>10, <2>1, BodyIs
  <2> QED  BY <1>1, <1>2, <1>5, <1>7, <1>8, <1>10, <2>2
<1>11. CASE ~HasKey(x, key) /\ ~Needed(m) /\ HasKey(e, key)
  <2>1. Fetch(e, cl) = {t} /\ Len(Body(m)) <= 4 /\ m.body = {Body(m)}
      BY <1>1, <1>2, <1>11, GivenLength
  <2> QED  BY <1>1, <1>2, <1>5, <1>7, <1>8, <1>11, <2>1
<1>12. CASE ~HasKey(x, key) /\ ~Needed(m) /\ ~HasKey(e, key)
  <2>1. Fetch(e, cl) = {}
      BY <1>1, <1>4, <1>12, FetchFrom
  <2> QED  BY <1>1, <1>2, <1>5, <1>7, <1>8, <1>12, <2>1
<1> QED  BY <1>9, <1>10, <1>11, <1>12

\* The frame of a message can be written and read back, and its body ends
\* where it should.
LEMMA FrameFits ==
    ASSUME NEW m, Writable(m)
    PROVE  /\ Sendable(to_frame(m))
           /\ ContentLength(AllHeaders(m)) =
                  IF HasKey(AllHeaders(m), <<"content-length">>) THEN {Len(Body(m))} ELSE {}
           /\ Delimited(Escaped(to_frame(m)), to_frame(m).body)
<1>1. PICK f, G, S : f = to_frame(m) /\ G = AllHeaders(m) /\ S = FitHeaders(m.kind)
    OBVIOUS
<1>2. f.command = CommandOf[m.kind] /\ f.headers = G /\ f.body = Body(m) /\ f.eol = <<"LF">>
    BY <1>1, ToFrameIs
<1>3. /\ G \in Seq(S) /\ Len(G) \in Nat /\ DOMAIN G = 1..Len(G)
      /\ \A i \in 1..Len(G) : G[i] \in S
    BY <1>1, AllIs, LenProperties, ElementOfSeq
<1>4. m.kind \in Kinds
    BY DEF Writable
<1>5. Sendable(f)
  <2>1. ASSUME NEW i \in 1..Len(G)
        PROVE  /\ G[i] \in Headers /\ G[i].key # << >> /\ Escape(G[i].key) = G[i].key
               /\ m.kind = "Connect" => \A j \in 1..Len(G[i].value) : G[i].value[j] \notin {"CR", "LF"}
    <3>1. PICK h : h = G[i] /\ h \in Headers /\ (m.kind = "Connect" => OneLine(h.value))
        BY <1>1, <1>3 DEF FitHeaders
    <3>2. PICK k \in Symbols \ Special : h.key = <<k>>
        BY <1>1, <1>3, <3>1 DEF FitHeaders
    <3>3. Escape(<<k>>) = <<k>>
        BY EscapePlain DEF Special
    <3>4. <<k>> # << >>
        OBVIOUS
    <3>5. h.value \in Seq(Symbols)
        BY <3>1 DEF Headers
    <3>6. DOMAIN h.value = 1..Len(h.value)
        BY <3>5, LenProperties
    <3> QED  BY <3>1, <3>2, <3>3, <3>4, <3>6 DEF OneLine
  <2>2. G \in Seq(Headers)
    <3>1. \A i \in 1..Len(G) : G[i] \in Headers
        BY <2>1
    <3> QED  BY <1>3, <3>1, AllIn
  <2>3. f.command \in Symbols \ NotAlpha /\ (~HeadersAreEscaped(f.command) => m.kind = "Connect")
      BY <1>2, <1>4, CommandIs
  <2>4. f.body \in Seq(Symbols)
      BY <1>2, BodyIs, StringsAreSymbols
  <2>5. f.eol \in Eols
      BY <1>2 DEF Eols
  <2> QED  BY <1>2, <1>3, <2>1, <2>2, <2>3, <2>4, <2>5 DEF Sendable
<1>6. PICK n : n = Len(Body(m)) /\ n \in Nat
    BY BodyIs
<1>7. ContentLength(G) = {k \in 0..4 : Fetch(G, "content-length") = {<<Numerals[k + 1]>>}}
    BY <1>3, ContentLengthFetched
<1>8. CASE HasKey(G, <<"content-length">>)
  <2>1. Fetch(G, "content-length") = {<<Numerals[n + 1]>>} /\ n <= 4
      BY <1>1, <1>6, <1>8, LengthIs
  <2>2. n \in 0..4
      BY <1>6, <2>1
  <2>3. ASSUME NEW k \in 0..4, Fetch(G, "content-length") = {<<Numerals[k + 1]>>} PROVE k = n
    <3>1. PICK a, b : a = Numerals[k + 1] /\ b = Numerals[n + 1]
        OBVIOUS
    <3>2. {<<a>>} = {<<b>>}
        BY <2>1, <2>3, <3>1
    <3>3. <<a>> = <<b>>
        BY <3>2
    <3>4. <<a>>[1] = a /\ <<b>>[1] = b
        OBVIOUS
    <3>5. a = b
        BY <3>3, <3>4
    <3> QED  BY <2>2, <3>1, <3>5, NumeralsIs
  <2>4. ContentLength(G) = {n}
      BY <1>7, <2>1, <2>2, <2>3
  <2>5. ContentLength(Escaped(f)) = {n}
      BY <1>2, <1>5, <2>4, ContentLengthKept
  <2> QED  BY <1>1, <1>2, <1>5, <1>6, <1>8, <2>4, <2>5 DEF Delimited
<1>9. CASE ~HasKey(G, <<"content-length">>)
  <2>1. Fetch(G, "content-length") = {} /\ ~Needed(m)
      BY <1>1, <1>9, LengthIs
  <2>2. ContentLength(G) = {}
      BY <1>7, <2>1
  <2>3. ContentLength(Escaped(f)) = {}
      BY <1>2, <1>5, <2>2, ContentLengthKept
  <2>4. \A i \in 1..Len(Body(m)) : Body(m)[i] # "NUL"
      BY <2>1, BodyIs DEF Contains
  <2> QED  BY <1>1, <1>2, <1>5, <1>9, <2>2, <2>3, <2>4 DEF Delimited
<1> QED  BY <1>8, <1>9

\* A header that stands for a field stands for some value of it.
LEMMA GivenStands ==
    ASSUME NEW m, Writable(m), NEW k \in FieldsOf(m.kind),
           NEW t \in Fetch(m.headers \o m.extra_headers, k)
    PROVE  ValueOf(k, t) # {}
<1>1. PICK x, e, S : x = m.headers /\ e = m.extra_headers /\ S = FitHeaders(m.kind)
    OBVIOUS
<1>2. Legible(m.kind, x, m.body) /\ Legible(m.kind, e, m.body)
    BY <1>1 DEF Writable
<1>3. x \in Seq(S) /\ e \in Seq(S)
    BY <1>1, <1>2, LegibleIs
<1>4. Fetch(x \o e, k) = IF HasKey(x, <<k>>) THEN Fetch(x, k) ELSE Fetch(e, k)
    BY <1>3, FetchConcat
<1>5. t \in Fetch(x, k) \/ t \in Fetch(e, k)
    BY <1>1, <1>4
<1>6. CASE t \in Fetch(x, k)
  <2>1. PICK i \in DOMAIN x : x[i].key = <<k>> /\ x[i].value = t
    <3>1. IsIn(x, k, t)
        BY <1>3, <1>6, FetchedFrom
    <3> QED  BY <3>1 DEF IsIn
  <2> QED  BY <1>2, <2>1 DEF Legible
<1>7. CASE t \in Fetch(e, k)
  <2>1. PICK i \in DOMAIN e : e[i].key = <<k>> /\ e[i].value = t
    <3>1. IsIn(e, k, t)
        BY <1>3, <1>7, FetchedFrom
    <3> QED  BY <3>1 DEF IsIn
  <2> QED  BY <1>2, <2>1 DEF Legible
<1> QED  BY <1>5, <1>6, <1>7

\* What the headers say of a field is what it was given, and of another name
\* the text.
LEMMA GivenIs ==
    ASSUME NEW m, Writable(m)
    PROVE  /\ \A k \in FieldsOf(m.kind) :
                 /\ UNION {ValueOf(k, t) : t \in Fetch(AllHeaders(m), k)} = Given(m, k)
                 /\ \A t \in Fetch(AllHeaders(m), k) : ValueOf(k, t) # {}
           /\ \A k : k \notin FieldsOf(m.kind) /\ HasKey(m.headers \o m.extra_headers, <<k>>) =>
                 Fetch(AllHeaders(m), k) = Given(m, k)
<1>0. DOMAIN m.fields = FieldsOf(m.kind) /\ m.kind \in Kinds
    BY DEF Writable
<1>1. ASSUME NEW k \in FieldsOf(m.kind), m.fields[k] # {}
      PROVE  /\ UNION {ValueOf(k, t) : t \in Fetch(AllHeaders(m), k)} = Given(m, k)
             /\ \A t \in Fetch(AllHeaders(m), k) : ValueOf(k, t) # {}
  <2>1. PICK v : v \in m.fields[k]
      BY <1>1
  <2>2. m.fields[k] = {v} /\ Fits(m.kind, k, v)
      BY <2>1 DEF Writable
  <2>3. PICK u : u = TextOf(k, v) /\ ValueOf(k, u) = {v}
      BY <2>2, TextIs
  <2>4. Fetch(AllHeaders(m), k) = {u}
      BY <2>1, <2>3, AllIs
  <2>5. Given(m, k) = {v}
      BY <1>0, <1>1, <2>2 DEF Given
  <2> QED  BY <2>3, <2>4, <2>5
<1>2. ASSUME NEW k \in FieldsOf(m.kind), m.fields[k] = {}
      PROVE  /\ UNION {ValueOf(k, t) : t \in Fetch(AllHeaders(m), k)} = Given(m, k)
             /\ \A t \in Fetch(AllHeaders(m), k) : ValueOf(k, t) # {}
  <2>1. k # "content-length"
      BY <1>0, FieldsAre, WordsAre
  <2>2. Fetch(AllHeaders(m), k) = Fetch(m.headers \o m.extra_headers, k)
      BY <1>2, <2>1, AllIs
  <2>3. Given(m, k) = UNION {ValueOf(k, t) : t \in Fetch(m.headers \o m.extra_headers, k)}
      BY <1>0, <1>2 DEF Given
  <2>4. \A t \in Fetch(AllHeaders(m), k) : ValueOf(k, t) # {}
      BY <2>2, GivenStands
  <2> QED  BY <2>2, <2>3, <2>4
<1>3. ASSUME NEW k, k \notin FieldsOf(m.kind), HasKey(m.headers \o m.extra_headers, <<k>>)
      PROVE  Fetch(AllHeaders(m), k) = Given(m, k)
  <2>1. Given(m, k) = Fetch(m.headers \o m.extra_headers, k)
      BY <1>0, <1>3 DEF Given
  <2>2. CASE k # "content-length"
      BY <1>3, <2>1, <2>2, AllIs
  <2>3. CASE k = "content-length"
    <3>1. PICK x, e, S, u : /\ x = m.headers /\ e = m.extra_headers /\ S = FitHeaders(m.kind)
                            /\ u = <<Numerals[Len(Body(m)) + 1]>>
        OBVIOUS
    <3>2. x \in Seq(S) /\ e \in Seq(S)
        BY <3>1, LegibleIs DEF Writable
    <3>3. HasKey(x, <<k>>) \/ HasKey(e, <<k>>)
        BY <1>3, <3>1, <3>2, FetchConcat
    <3>4. Fetch(x \o e, k) = IF HasKey(x, <<k>>) THEN Fetch(x, k) ELSE Fetch(e, k)
        BY <3>2, FetchConcat
    <3>5. HasKey(x, <<k>>) => Fetch(x, k) = {u}
        BY <2>3, <3>1, GivenLength
    <3>6. HasKey(e, <<k>>) => Fetch(e, k) = {u}
        BY <2>3, <3>1, GivenLength
    <3>7. Fetch(AllHeaders(m), k) = {u}
      <4>1. HasKey(AllHeaders(m), <<k>>)
          BY <1>3, <2>3, LengthIs
      <4> QED  BY <2>3, <3>1, <4>1, LengthIs
    <3> QED  BY <2>1, <3>1, <3>3, <3>4, <3>5, <3>6, <3>7
  <2> QED  BY <2>2, <2>3
<1> QED  BY <1>1, <1>2, <1>3

-----------------------------------------------------------------------------
(* What the server reads *)

\* What to_client_msg makes of the frame of a message.
Read(m) ==
    [kind |-> m.kind,
     fields |-> [k \in FieldsOf(m.kind) |-> UNION {ValueOf(k, t) : t \in Fetch(AllHeaders(m), k)}],
     headers |-> IF m.kind = "Send" THEN Others(AllHeaders(m), FieldsOf(m.kind)) ELSE << >>,
     body |-> IF m.kind = "Send" THEN Parsed(to_frame(m)).body ELSE {},
     extra_headers |-> Others(Escaped(to_frame(m)), FieldsOf(m.kind))]

LEMMA ReadIs ==
    ASSUME NEW m, Writable(m)
    PROVE  Read(m) \in to_client_msg(Parsed(to_frame(m)))
<1>1. PICK f, G, p, kind : f = to_frame(m) /\ G = AllHeaders(m) /\ p = Parsed(f) /\ kind = m.kind
    OBVIOUS
<1>2. kind \in Kinds /\ Sendable(f) /\ f.command = CommandOf[kind] /\ f.headers = G
    BY <1>1, ToFrameIs, FrameFits DEF Writable
<1>3. p.command = CommandOf[kind] /\ p.headers = Escaped(f) /\ Unescaped(p) = G
    BY <1>1, <1>2, ParsedIs
<1>4. KindOf(p.command) = {kind}
    BY <1>2, <1>3, CommandIs
<1>5. \A name \in Mandatory[kind] : HasKey(p.headers, <<name>>)
  <2>1. ASSUME NEW name \in Mandatory[kind] PROVE HasKey(p.headers, <<name>>)
    <3>1. name \in FieldsOf(kind)
        BY <1>2, FieldsAre
    <3>2. m.fields[name] # {}
        BY <1>1 DEF Writable
    <3>3. HasKey(G, <<name>>)
        BY <1>1, <3>1, <3>2, AllIs
    <3> QED  BY <1>2, <1>3, <3>3, FetchEscaped
  <2> QED  BY <2>1
<1>6. \A name \in FieldsOf(kind) : \A t \in Fetch(Unescaped(p), name) : ValueOf(name, t) # {}
    BY <1>1, <1>3, GivenIs
<1>7. kind \in {k \in KindOf(p.command) :
                  /\ \A name \in Mandatory[k] : HasKey(p.headers, <<name>>)
                  /\ \A name \in FieldsOf(k) : \A t \in Fetch(Unescaped(p), name) :
                       ValueOf(name, t) # {}}
    BY <1>4, <1>5, <1>6
<1>8. Read(m) =
        [kind |-> kind,
         fields |-> [k \in FieldsOf(kind) |-> UNION {ValueOf(k, t) : t \in Fetch(Unescaped(p), k)}],
         headers |-> IF kind = "Send" THEN Others(Unescaped(p), FieldsOf(kind)) ELSE << >>,
         body |-> IF kind = "Send" THEN p.body ELSE {},
         extra_headers |-> Others(p.headers, FieldsOf(kind))]
    BY <1>1, <1>3 DEF Read
<1>9. Read(m) \in to_client_msg(p)
    BY <1>7, <1>8 DEF to_client_msg
<1> QED  BY <1>1, <1>9

\* The names of headers that have one symbol each.
LEMMA NamedIs ==
    ASSUME NEW headers, \A i \in DOMAIN headers : \E k : headers[i].key = <<k>>
    PROVE  \A k : k \in Named(headers) <=> HasKey(headers, <<k>>)
<1>1. ASSUME NEW k, k \in Named(headers) PROVE HasKey(headers, <<k>>)
  <2>1. PICK i \in DOMAIN headers : k = headers[i].key[1]
      BY <1>1 DEF Named
  <2>2. PICK j : headers[i].key = <<j>>
      BY <2>1
  <2>3. <<j>>[1] = j
      OBVIOUS
  <2> QED  BY <2>1, <2>2, <2>3 DEF HasKey
<1>2. ASSUME NEW k, HasKey(headers, <<k>>) PROVE k \in Named(headers)
  <2>1. PICK i \in DOMAIN headers : headers[i].key = <<k>>
      BY <1>2 DEF HasKey
  <2>2. <<k>>[1] = k
      OBVIOUS
  <2>3. headers[i].key[1] = k
      BY <2>1, <2>2
  <2> QED  BY <2>1, <2>3 DEF Named
<1> QED  BY <1>1, <1>2

\* Headers with a name of one symbol.
NamedHeaders == {h \in Headers : \E k : h.key = <<k>>}

LEMMA NamedOf ==
    ASSUME NEW headers \in Seq(NamedHeaders)
    PROVE  \A k : k \in Named(headers) <=> HasKey(headers, <<k>>)
<1>1. DOMAIN headers = 1..Len(headers)
    BY LenProperties
<1>2. ASSUME NEW i \in DOMAIN headers PROVE \E k : headers[i].key = <<k>>
  <2>1. headers[i] \in NamedHeaders
      BY <1>1, <1>2, ElementOfSeq
  <2> QED  BY <2>1 DEF NamedHeaders
<1> QED  BY <1>2, NamedIs

LEMMA FitAreNamed ==
    ASSUME NEW kind, NEW headers \in Seq(FitHeaders(kind))
    PROVE  headers \in Seq(NamedHeaders)
<1>1. \A i \in 1..Len(headers) : headers[i] \in FitHeaders(kind)
    BY ElementOfSeq
<1>2. FitHeaders(kind) \subseteq NamedHeaders
    BY DEF FitHeaders, NamedHeaders
<1> QED  BY <1>1, <1>2, AllIn

\* The names that come back as extra headers.
LEMMA OthersRead ==
    ASSUME NEW m, Writable(m)
    PROVE  /\ \A k : k \in Named(m.headers \o m.extra_headers) <=>
                        HasKey(m.headers \o m.extra_headers, <<k>>)
           /\ Escaped(to_frame(m)) \in Seq(NamedHeaders)
           /\ \A k : k \in Named(Others(Escaped(to_frame(m)), FieldsOf(m.kind))) <=>
                        HasKey(AllHeaders(m), <<k>>) /\ k \notin FieldsOf(m.kind)
<1>1. PICK f, G, kind, x, e, E, N :
          /\ f = to_frame(m) /\ G = AllHeaders(m) /\ kind = m.kind /\ x = m.headers
          /\ e = m.extra_headers /\ E = Escaped(f) /\ N = FieldsOf(kind)
    OBVIOUS
<1>2. Sendable(f) /\ f.headers = G /\ G \in Seq(FitHeaders(kind))
    BY <1>1, ToFrameIs, FrameFits, AllIs
<1>3. x \in Seq(FitHeaders(kind)) /\ e \in Seq(FitHeaders(kind))
    BY <1>1, LegibleIs DEF Writable
<1>4. \A k : k \in Named(x \o e) <=> HasKey(x \o e, <<k>>)
  <2>1. x \o e \in Seq(FitHeaders(kind))
      BY <1>3, ConcatProperties
  <2> QED  BY <2>1, FitAreNamed, NamedOf
<1>5. E \in Seq(NamedHeaders)
  <2>1. /\ E \in Seq(Headers) /\ Len(E) = Len(G) /\ Len(G) \in Nat /\ DOMAIN G = 1..Len(G)
        /\ G \in Seq(NamedHeaders)
    <3>1. Wellformed(f)
        BY <1>2, SendableIs
    <3>2. E \in Seq(Headers) /\ Len(E) = Len(G)
        BY <1>1, <1>2, <3>1, SerializePlaces
    <3> QED  BY <1>2, <3>2, FitAreNamed, LenProperties
  <2>2. ASSUME NEW i \in 1..Len(E) PROVE E[i] \in NamedHeaders
    <3>1. G[i] \in NamedHeaders /\ E[i] \in Headers
        BY <2>1, <2>2, ElementOfSeq
    <3>2. PICK k : G[i].key = <<k>>
        BY <3>1 DEF NamedHeaders
    <3>3. E[i].key = G[i].key
        BY <1>1, <1>2, <2>1, <2>2, SendableIs
    <3> QED  BY <3>1, <3>2, <3>3 DEF NamedHeaders
  <2> QED  BY <2>1, <2>2, AllIn
<1>6. ASSUME NEW k
      PROVE  k \in Named(Others(E, N)) <=> HasKey(G, <<k>>) /\ k \notin N
  <2>1. Others(E, N) \in Seq(NamedHeaders)
      BY <1>5, OthersIs
  <2>2. k \in Named(Others(E, N)) <=> HasKey(Others(E, N), <<k>>)
      BY <2>1, NamedOf
  <2>3. HasKey(Others(E, N), <<k>>) <=> HasKey(E, <<k>>) /\ \A j \in N : <<k>> # <<j>>
      BY <1>5, OthersIs
  <2>4. HasKey(E, <<k>>) <=> HasKey(G, <<k>>)
      BY <1>1, <1>2, FetchEscaped
  <2>5. (\A j \in N : <<k>> # <<j>>) <=> k \notin N
      OBVIOUS
  <2> QED  BY <2>2, <2>3, <2>4, <2>5
<1> QED  BY <1>1, <1>4, <1>5, <1>6

\* The names that were given besides the fields.
OtherNames(m) == Named(m.headers \o m.extra_headers) \ FieldsOf(m.kind)

LEMMA BodyRead ==
    ASSUME NEW m, Writable(m)
    PROVE  Read(m).body =
               IF m.body = {<< >>} /\ "content-length" \notin OtherNames(m) THEN {} ELSE m.body
<1>1. PICK f, G, cl, x : /\ f = to_frame(m) /\ G = AllHeaders(m) /\ cl = "content-length"
                         /\ x = m.headers \o m.extra_headers
    OBVIOUS
<1>2. Sendable(f) /\ f.headers = G /\ f.body = Body(m)
    BY <1>1, ToFrameIs, FrameFits
<1>3. ContentLength(G) = IF HasKey(G, <<cl>>) THEN {Len(Body(m))} ELSE {}
    BY <1>1, FrameFits
<1>4. Parsed(f).body = IF Body(m) = << >> /\ ContentLength(G) = {} THEN {} ELSE {Body(m)}
    BY <1>2, ParsedIs
<1>5. ContentLength(G) = {} <=> ~HasKey(G, <<cl>>)
    BY <1>3
<1>6. cl \in OtherNames(m) <=> HasKey(x, <<cl>>)
  <2>1. cl \notin FieldsOf(m.kind)
      BY <1>1, FieldsAre, WordsAre DEF Writable
  <2>2. cl \in Named(x) <=> HasKey(x, <<cl>>)
      BY <1>1, OthersRead
  <2> QED  BY <1>1, <2>1, <2>2 DEF OtherNames
<1>7. /\ HasKey(G, <<cl>>) <=> Needed(m) \/ HasKey(x, <<cl>>)
      /\ HasKey(G, <<cl>>) => m.body = {Body(m)}
    BY <1>1, LengthIs
<1>8. Read(m).body = IF m.kind = "Send" THEN Parsed(f).body ELSE {}
    BY <1>1 DEF Read
<1>9. CASE m.kind # "Send"
  <2>1. m.body = {}
      BY <1>9 DEF Writable
  <2> QED  BY <1>8, <1>9, <2>1
<1>10. CASE m.kind = "Send" /\ m.body = {}
  <2>1. ~HasKey(G, <<cl>>) /\ Body(m) = << >>
      BY <1>7, <1>10 DEF Body
  <2>2. Parsed(f).body = {}
      BY <1>4, <1>5, <2>1
  <2> QED  BY <1>8, <1>10, <2>2
<1>11. CASE m.kind = "Send" /\ m.body # {}
  <2>1. m.body = {Body(m)}
      BY <1>11, BodyIs
  <2>2. m.body = {<< >>} <=> Body(m) = << >>
      BY <2>1
  <2>3. Body(m) = << >> => ~Needed(m)
    <3>1. Contains(<< >>, "NUL") <=> FALSE
        BY DEF Contains
    <3> QED  BY <3>1, BodyIs
  <2>4. Body(m) = << >> => (ContentLength(G) = {} <=> cl \notin OtherNames(m))
      BY <1>5, <1>6, <1>7, <2>3
  <2> QED  BY <1>1, <1>4, <1>8, <1>11, <2>1, <2>2, <2>4
<1> QED  BY <1>9, <1>10, <1>11

LEMMA ExtraRead ==
    ASSUME NEW m, Writable(m), NEW k \in OtherNames(m)
    PROVE  /\ Fetch(Read(m).extra_headers, k) =
                {IF m.kind = "Connect" THEN t ELSE Escape(t) : t \in Given(m, k)}
           /\ m.kind = "Send" => Fetch(Read(m).headers, k) = Given(m, k)
<1>1. PICK f, G, E, kind, N : /\ f = to_frame(m) /\ G = AllHeaders(m) /\ E = Escaped(f)
                              /\ kind = m.kind /\ N = FieldsOf(kind)
    OBVIOUS
<1>2. Sendable(f) /\ f.headers = G /\ f.command = CommandOf[kind] /\ kind \in Kinds
    BY <1>1, ToFrameIs, FrameFits DEF Writable
<1>3. k \notin N /\ HasKey(m.headers \o m.extra_headers, <<k>>)
    BY <1>1, OthersRead DEF OtherNames
<1>4. Fetch(G, k) = Given(m, k)
    BY <1>1, <1>3, GivenIs
<1>5. E \in Seq(NamedHeaders) /\ G \in Seq(FitHeaders(kind))
    BY <1>1, OthersRead, AllIs
<1>6. Fetch(Others(E, N), k) = Fetch(E, k)
    BY <1>3, <1>5, OthersIs
<1>7. Fetch(Others(G, N), k) = Fetch(G, k)
    BY <1>3, <1>5, OthersIs
<1>8. Fetch(E, k) = {IF HeadersAreEscaped(f.command) THEN Escape(t) ELSE t : t \in Fetch(G, k)}
  <2>1. Fetch(Escaped(f), k) =
          {IF HeadersAreEscaped(f.command) THEN Escape(t) ELSE t : t \in Fetch(f.headers, k)}
      BY <1>2, FetchEscaped
  <2> QED  BY <1>1, <1>2, <2>1
<1>9. HeadersAreEscaped(f.command) <=> kind # "Connect"
    BY <1>2, CommandIs
<1>10. Fetch(E, k) = {IF kind = "Connect" THEN t ELSE Escape(t) : t \in Fetch(G, k)}
  <2>1. CASE kind = "Connect"
      BY <1>8, <1>9, <2>1
  <2>2. CASE kind # "Connect"
      BY <1>8, <1>9, <2>2
  <2> QED  BY <2>1, <2>2
<1>11. Read(m).extra_headers = Others(E, N) /\ (kind = "Send" => Read(m).headers = Others(G, N))
    BY <1>1 DEF Read
<1> QED  BY <1>1, <1>4, <1>6, <1>7, <1>10, <1>11

LEMMA NamesRead ==
    ASSUME NEW m, Writable(m)
    PROVE  Named(Read(m).extra_headers) =
               OtherNames(m) \cup (IF Needed(m) THEN {"content-length"} ELSE {})
<1>1. PICK G, E, N, x, cl : /\ G = AllHeaders(m) /\ E = Escaped(to_frame(m)) /\ N = FieldsOf(m.kind)
                            /\ x = m.headers \o m.extra_headers /\ cl = "content-length"
    OBVIOUS
<1>2. Read(m).extra_headers = Others(E, N)
    BY <1>1 DEF Read
<1>3. ASSUME NEW k
      PROVE  k \in Named(Others(E, N)) <=> k \in OtherNames(m) \/ (Needed(m) /\ k = cl)
  <2>1. k \in Named(Others(E, N)) <=> HasKey(G, <<k>>) /\ k \notin N
      BY <1>1, OthersRead
  <2>2. k \in OtherNames(m) <=> HasKey(x, <<k>>) /\ k \notin N
      BY <1>1, OthersRead DEF OtherNames
  <2>3. HasKey(G, <<k>>) <=>
          \/ \E j \in N : m.fields[j] # {} /\ <<k>> = <<j>>
          \/ HasKey(x, <<k>>)
          \/ Needed(m) /\ <<k>> = <<cl>>
      BY <1>1, AllIs
  <2>4. cl \notin N
      BY <1>1, FieldsAre, WordsAre DEF Writable
  <2>5. \A j : <<k>> = <<j>> <=> k = j
      OBVIOUS
  <2> QED  BY <2>1, <2>2, <2>3, <2>4, <2>5
<1> QED  BY <1>1, <1>2, <1>3

\* A server reads, in the bytes of a message, that message: Message::to_frame
\* and Frame::serialize on this side, the parser and to_client_msg on the
\* other, whatever the fields, headers and body hold.
THEOREM MessageReadBack ==
    ASSUME NEW m, Writable(m)
    PROVE  IsReadAs(Serialize(to_frame(m)), m)
<1>1. PICK f, bytes, r : f = to_frame(m) /\ bytes = Serialize(f) /\ r = Read(m)
    OBVIOUS
<1>2. ParseFrame(bytes) = [is |-> "ok", at |-> Len(bytes) + 1, frame |-> Parsed(f)]
  <2>1. Wellformed(f) /\ Delimited(Escaped(f), f.body)
      BY <1>1, FrameFits, SendableIs
  <2> QED  BY <1>1, <2>1, ParseSerialize
<1>3. r \in to_client_msg(Parsed(f))
    BY <1>1, ReadIs
<1>4. r.kind = m.kind /\ \A k \in FieldsOf(m.kind) : r.fields[k] = Given(m, k)
  <2>1. /\ r.kind = m.kind
        /\ r.fields = [k \in FieldsOf(m.kind) |->
                         UNION {ValueOf(k, t) : t \in Fetch(AllHeaders(m), k)}]
      BY <1>1 DEF Read
  <2> QED  BY <2>1, GivenIs
<1>5. r.body = IF m.body = {<< >>} /\ "content-length" \notin OtherNames(m) THEN {} ELSE m.body
    BY <1>1, BodyRead
<1>6. \A k \in OtherNames(m) :
        /\ Fetch(r.extra_headers, k) =
             {IF m.kind = "Connect" THEN t ELSE Escape(t) : t \in Given(m, k)}
        /\ m.kind = "Send" => Fetch(r.headers, k) = Given(m, k)
    BY <1>1, ExtraRead
<1>7. Named(r.extra_headers) = OtherNames(m) \cup (IF Needed(m) THEN {"content-length"} ELSE {})
    BY <1>1, NamesRead
<1>8. ParseFrame(bytes).is = "ok" /\ ParseFrame(bytes).at = Len(bytes) + 1
      /\ ParseFrame(bytes).frame = Parsed(f)
    BY <1>2
<1>9. IsReadAs(bytes, m)
    BY <1>3, <1>4, <1>5, <1>6, <1>7, <1>8 DEF IsReadAs, OtherNames, Needed
<1> QED  BY <1>1, <1>9

-----------------------------------------------------------------------------
(* The builders *)

Setters(what) == DOMAIN New(what)

\* b has the fields of such a builder.
Has(b, what) == b = [k \in Setters(what) |-> b[k]]

\* A setter is recorded for each field, and the builder is what they say.
BuilderInv ==
    pc \in {"subscriber", "connector"} =>
        /\ DOMAIN last = Setters(pc)
        /\ builder = Chosen(pc)

LEMMA SettersOf ==
    /\ Setters("subscriber") = {"destination", "id", "ack", "headers"}
    /\ Setters("connector") =
         {"server", "virtualhost", "login", "passcode", "headers", "use_tls",
          "tls_server_name", "max_frame_size", "heartbeat", "auto_heartbeat"}
    /\ \A what \in {"subscriber", "connector"} : DOMAIN Values(what) = Setters(what)
BY OutboundAssumption DEF Setters, New, NewSubscriber, NewConnector, Values

\* A setter sets its field and no other, also the ones that build a new
\* Subscriber or Connector out of the old one.
LEMMA SetsItsField ==
    ASSUME NEW what \in {"subscriber", "connector"}, NEW setter \in Setters(what), NEW v,
           NEW b, Has(b, what)
    PROVE  WithField(b, setter, v) = [k \in Setters(what) |-> IF k = setter THEN {v} ELSE b[k]]
<1>1. CASE what = "subscriber"
  <2>1. CASE setter = "destination"
      BY <1>1, <2>1, SettersOf DEF Has, WithField, destination
  <2>2. CASE setter = "id"
      BY <1>1, <2>2, SettersOf DEF Has, WithField, id
  <2>3. CASE setter \notin {"destination", "id"}
      BY <1>1, <2>3, SettersOf DEF Has, WithField
  <2> QED  BY <2>1, <2>2, <2>3
<1>2. CASE what = "connector"
  <2>1. CASE setter = "server"
      BY <1>2, <2>1, SettersOf DEF Has, WithField, server
  <2>2. CASE setter = "virtualhost"
      BY <1>2, <2>2, SettersOf DEF Has, WithField, virtualhost
  <2>3. CASE setter \notin {"server", "virtualhost"}
      BY <1>2, <2>3, SettersOf DEF Has, WithField
  <2> QED  BY <2>1, <2>2, <2>3
<1> QED  BY <1>1, <1>2

LEMMA BuilderInit == Init => BuilderInv
BY DEF Init, BuilderInv

LEMMA BuilderNext == BuilderInv /\ [Next]_vars => BuilderInv'
<1> SUFFICES ASSUME BuilderInv, [Next]_vars PROVE BuilderInv'
    OBVIOUS
<1>1. ASSUME NEW what \in {"subscriber", "connector"}, Start(what) PROVE BuilderInv'
  <2>1. /\ pc' = what /\ builder' = New(what)
        /\ last' = [setter \in Setters(what) |-> {}]
      BY <1>1, SettersOf DEF Start
  <2>2. New(what) = [k \in Setters(what) |-> New(what)[k]]
      BY <1>1 DEF New, NewSubscriber, NewConnector, Setters
  <2>3. Chosen(what)' = [k \in Setters(what) |-> New(what)[k]]
      BY <2>1 DEF Chosen, Setters
  <2> QED  BY <2>1, <2>2, <2>3 DEF BuilderInv
<1>2. ASSUME NEW what \in {"subscriber", "connector"}, pc = what,
             NEW setter \in DOMAIN Values(what), NEW v, Set(setter, v)
      PROVE  BuilderInv'
  <2>1. /\ pc' = pc /\ builder' = WithField(builder, setter, v)
        /\ last' = [last EXCEPT ![setter] = {v}] /\ setter \in Setters(what)
      BY <1>2, SettersOf DEF Set
  <2>2. DOMAIN last = Setters(what) /\ builder = Chosen(what)
      BY <1>2 DEF BuilderInv
  <2>3. Has(builder, what)
      BY <2>2 DEF Chosen, Setters, Has
  <2>4. builder' = [k \in Setters(what) |-> IF k = setter THEN {v} ELSE builder[k]]
      BY <2>1, <2>3, SetsItsField
  <2>5. \A k \in Setters(what) :
           builder[k] = IF last[k] # {} THEN last[k] ELSE New(what)[k]
      BY <2>2 DEF Chosen, Setters
  <2>6. \A k \in Setters(what) : last'[k] = IF k = setter THEN {v} ELSE last[k]
      BY <2>1, <2>2
  <2>7. Chosen(what)' = [k \in Setters(what) |-> IF k = setter THEN {v} ELSE builder[k]]
      BY <2>5, <2>6 DEF Chosen, Setters
  <2> QED  BY <1>2, <2>1, <2>2, <2>4, <2>7 DEF BuilderInv
<1>3. CASE Build \/ WriteOut \/ Encode
    BY <1>3 DEF Build, WriteOut, Encode, BuilderInv
<1>4. CASE UNCHANGED vars
    BY <1>4 DEF vars, BuilderInv, Chosen
<1> QED  BY <1>1, <1>2, <1>3, <1>4 DEF Next

\* Every setting of a Subscriber or a Connector is what its setter was last
\* given, or its default, for any values, any order and any number of calls.
THEOREM SettersAreIndependent == Spec => []LastCallStands
<1>1. BuilderInv => LastCallStands
    BY DEF BuilderInv, LastCallStands
<1> QED  BY <1>1, BuilderInit, BuilderNext, PTL DEF Spec

-----------------------------------------------------------------------------
(* What the builders make *)

LEMMA TheFields ==
    /\ FieldsOf("Subscribe") = {"destination", "id", "ack"}
    /\ FieldsOf("Connect") = {"accept-version", "host", "login", "heart-beat", "passcode"}
    /\ "Subscribe" \in Kinds /\ "Connect" \in Kinds
    /\ Mandatory["Subscribe"] = {"destination", "id"}
    /\ Mandatory["Connect"] = {"accept-version", "host"}
<1>1. "Subscribe" \in Kinds /\ "Connect" \in Kinds
    BY DEF Kinds, CommandOf
<1>2. /\ Mandatory["Subscribe"] = {"destination", "id"}
      /\ Mandatory["Connect"] = {"accept-version", "host"}
    BY DEF Mandatory
<1>3. FieldsOf("Subscribe") = {"destination", "id", "ack"}
  <2>1. Layout["Subscribe"] = <<"destination", "id", "ack">>
      BY DEF Layout
  <2>2. FieldsOf("Subscribe") = {Layout["Subscribe"][i] : i \in 1..Len(Layout["Subscribe"])}
      BY <1>1, LayoutIs
  <2> QED  BY <2>1, <2>2
<1>4. FieldsOf("Connect") = {"accept-version", "host", "login", "heart-beat", "passcode"}
  <2>1. Layout["Connect"] = <<"accept-version", "host", "login", "heart-beat", "passcode">>
      BY DEF Layout
  <2>2. FieldsOf("Connect") = {Layout["Connect"][i] : i \in 1..Len(Layout["Connect"])}
      BY <1>1, LayoutIs
  <2> QED  BY <2>1, <2>2
<1> QED  BY <1>1, <1>2, <1>3, <1>4

\* Every setting of b is the default or a value its setter may be given.
Settled(b, what) ==
    \A k \in Setters(what) : b[k] = New(what)[k] \/ \E v \in Values(what)[k] : b[k] = {v}

LEMMA NoHeaders == \A kind, body : Legible(kind, << >>, body)
<1>1. << >> \in Seq([key : Seq(STRING), value : Seq(STRING)])
    BY EmptySeq
<1>2. DOMAIN << >> = {}
    OBVIOUS
<1> QED  BY <1>1, <1>2 DEF Legible

LEMMA UnwrapIs == \A v : Unwrap({v}) = v
BY DEF Unwrap

LEMMA SubscribeIsWritable ==
    ASSUME NEW s, Settled(s, "subscriber"), s.destination # {}, s.id # {}
    PROVE  Writable(subscribe(s))
<1>1. PICK m : m = subscribe(s)
    OBVIOUS
<1>2. /\ m.kind = "Subscribe" /\ m.headers = << >> /\ m.body = {}
      /\ m.extra_headers = Unwrap(s.headers) /\ DOMAIN m.fields = FieldsOf("Subscribe")
      /\ m.fields.destination = s.destination /\ m.fields.id = s.id /\ m.fields.ack = s.ack
    BY <1>1, TheFields DEF subscribe, Plain
<1>3. \A k \in FieldsOf("Subscribe") : \A v \in m.fields[k] : Fits("Subscribe", k, v) /\ m.fields[k] = {v}
  <2>1. ASSUME NEW k \in FieldsOf("Subscribe"), NEW v \in m.fields[k]
        PROVE  Fits("Subscribe", k, v) /\ m.fields[k] = {v}
    <3>1. m.fields[k] = s[k] /\ k \in Setters("subscriber") /\ NewSubscriber[k] = {}
        BY <1>2, TheFields, SettersOf DEF NewSubscriber
    <3>2. PICK w \in SubscriberValues[k] : s[k] = {w}
        BY <2>1, <3>1 DEF Settled, New, Values
    <3> QED  BY <3>1, <3>2, OutboundAssumption
  <2> QED  BY <2>1
<1>4. Legible("Subscribe", m.extra_headers, {})
  <2>1. s.headers = {<< >>} \/ \E h \in SubscriberValues.headers : s.headers = {h}
      BY SettersOf DEF Settled, New, Values, NewSubscriber
  <2>2. CASE s.headers = {<< >>}
    <3>1. Unwrap({<< >>}) = << >>
        BY UnwrapIs
    <3>2. m.extra_headers = << >>
        BY <1>2, <2>2, <3>1
    <3> QED  BY <3>2, NoHeaders
  <2>3. ASSUME NEW h \in SubscriberValues.headers, s.headers = {h}
        PROVE  Legible("Subscribe", m.extra_headers, {})
    <3>1. Unwrap({h}) = h
        BY UnwrapIs
    <3>2. m.extra_headers = h
        BY <1>2, <2>3, <3>1
    <3> QED  BY <3>2, OutboundAssumption
  <2> QED  BY <2>1, <2>2, <2>3
<1>5. \A k \in Mandatory["Subscribe"] : m.fields[k] # {}
    BY <1>2, TheFields
<1>6. Writable(m)
    BY <1>2, <1>3, <1>4, <1>5, TheFields, NoHeaders DEF Writable
<1> QED  BY <1>1, <1>6

\* The message of a Connector with these settings.
Connecting(c) ==
    [kind |-> "Connect",
     fields |-> [k \in FieldsOf("Connect") |->
                   CASE k = "accept-version" -> {<<"1.2">>} [] k = "host" -> c.virtualhost
                     [] k = "login" -> c.login [] k = "passcode" -> c.passcode
                     [] OTHER -> c.heartbeat],
     headers |-> << >>, body |-> {}, extra_headers |-> Unwrap(c.headers)]

LEMMA ExtraSet ==
    ASSUME NEW k, NEW f, NEW h, NEW b, NEW e, NEW x
    PROVE  [[kind |-> k, fields |-> f, headers |-> h, body |-> b, extra_headers |-> e]
               EXCEPT !.extra_headers = x] =
           [kind |-> k, fields |-> f, headers |-> h, body |-> b, extra_headers |-> x]
OBVIOUS

LEMMA ConnectIs == \A c : connectMsg(c) = Connecting(c)
<1>1. ASSUME NEW c PROVE connectMsg(c) = Connecting(c)
  <2>1. PICK N, F, x : /\ N = FieldsOf("Connect") /\ x = Unwrap(c.headers)
                       /\ F = [k \in N |->
                                 CASE k = "accept-version" -> {<<"1.2">>}
                                   [] k = "host"           -> c.virtualhost
                                   [] k = "login"          -> c.login
                                   [] k = "passcode"       -> c.passcode
                                   [] k = "heart-beat"     -> c.heartbeat]
      OBVIOUS
  <2>2. PICK H : H = [k \in N |->
                        CASE k = "accept-version" -> {<<"1.2">>} [] k = "host" -> c.virtualhost
                          [] k = "login" -> c.login [] k = "passcode" -> c.passcode
                          [] OTHER -> c.heartbeat]
      OBVIOUS
  <2>3. F = H
      BY <2>1, <2>2, TheFields
  <2>4. DOMAIN H = N /\ H = [k \in N |-> H[k]]
      BY <2>2, Zenon
  <2>5. [k \in N |-> IF k \in DOMAIN H THEN H[k] ELSE {}] = H
      BY <2>4
  <2>6. Plain("Connect", H) = [kind |-> "Connect", fields |-> H, headers |-> << >>, body |-> {},
                               extra_headers |-> << >>]
      BY <2>1, <2>5 DEF Plain
  <2>7. connectMsg(c) = [Plain("Connect", H) EXCEPT !.extra_headers = x]
      BY <2>1, <2>3 DEF connectMsg
  <2>8. connectMsg(c) = [kind |-> "Connect", fields |-> H, headers |-> << >>, body |-> {},
                         extra_headers |-> x]
      BY <2>6, <2>7, ExtraSet
  <2>9. Connecting(c) = [kind |-> "Connect", fields |-> H, headers |-> << >>, body |-> {},
                         extra_headers |-> x]
      BY <2>1, <2>2 DEF Connecting
  <2> QED  BY <2>8, <2>9
<1> QED  BY <1>1

LEMMA ConnectIsWritable ==
    ASSUME NEW c, Settled(c, "connector"), c.virtualhost # {}
    PROVE  Writable(Connecting(c))
<1>1. PICK m : m = Connecting(c)
    OBVIOUS
<1>2. /\ m.kind = "Connect" /\ m.headers = << >> /\ m.body = {}
      /\ m.extra_headers = Unwrap(c.headers) /\ DOMAIN m.fields = FieldsOf("Connect")
      /\ m.fields["accept-version"] = {<<"1.2">>} /\ m.fields["host"] = c.virtualhost
      /\ m.fields["login"] = c.login /\ m.fields["passcode"] = c.passcode
      /\ m.fields["heart-beat"] = c.heartbeat
    BY <1>1, TheFields DEF Connecting
<1>3. \A k \in FieldsOf("Connect") : \A v \in m.fields[k] : Fits("Connect", k, v) /\ m.fields[k] = {v}
  <2>1. /\ c.virtualhost = {} \/ \E v \in ConnectorValues.virtualhost : c.virtualhost = {v}
        /\ c.login = {} \/ \E v \in ConnectorValues.login : c.login = {v}
        /\ c.passcode = {} \/ \E v \in ConnectorValues.passcode : c.passcode = {v}
        /\ c.heartbeat = {} \/ \E v \in ConnectorValues.heartbeat : c.heartbeat = {v}
      BY SettersOf DEF Settled, New, Values, NewConnector
  <2>2. \A v \in m.fields["accept-version"] :
          Fits("Connect", "accept-version", v) /\ m.fields["accept-version"] = {v}
    <3>1. PICK v : v = <<"1.2">>
        OBVIOUS
    <3>2. v \in Seq(STRING) /\ DOMAIN v = {1} /\ v[1] = "1.2"
        BY <3>1, OutboundAssumption
    <3>3. Fits("Connect", "accept-version", v)
        BY <3>2 DEF Fits, OneLine
    <3> QED  BY <1>2, <3>1, <3>3
  <2>3. \A v \in m.fields["host"] : Fits("Connect", "host", v) /\ m.fields["host"] = {v}
      BY <1>2, <2>1, OutboundAssumption
  <2>4. \A v \in m.fields["login"] : Fits("Connect", "login", v) /\ m.fields["login"] = {v}
      BY <1>2, <2>1, OutboundAssumption
  <2>5. \A v \in m.fields["passcode"] : Fits("Connect", "passcode", v) /\ m.fields["passcode"] = {v}
      BY <1>2, <2>1, OutboundAssumption
  <2>6. \A v \in m.fields["heart-beat"] :
          Fits("Connect", "heart-beat", v) /\ m.fields["heart-beat"] = {v}
      BY <1>2, <2>1, OutboundAssumption
  <2> QED  BY <2>2, <2>3, <2>4, <2>5, <2>6, TheFields
<1>4. Legible("Connect", m.extra_headers, {})
  <2>1. c.headers = {<< >>} \/ \E h \in ConnectorValues.headers : c.headers = {h}
      BY SettersOf DEF Settled, New, Values, NewConnector
  <2>2. CASE c.headers = {<< >>}
    <3>1. Unwrap({<< >>}) = << >>
        BY UnwrapIs
    <3>2. m.extra_headers = << >>
        BY <1>2, <2>2, <3>1
    <3> QED  BY <3>2, NoHeaders
  <2>3. ASSUME NEW h \in ConnectorValues.headers, c.headers = {h}
        PROVE  Legible("Connect", m.extra_headers, {})
    <3>1. Unwrap({h}) = h
        BY UnwrapIs
    <3>2. m.extra_headers = h
        BY <1>2, <2>3, <3>1
    <3> QED  BY <3>2, OutboundAssumption
  <2> QED  BY <2>1, <2>2, <2>3
<1>5. \A k \in Mandatory["Connect"] : m.fields[k] # {}
    BY <1>2, TheFields
<1>6. Writable(m)
    BY <1>2, <1>3, <1>4, <1>5, TheFields, NoHeaders DEF Writable
<1> QED  BY <1>1, <1>6

-----------------------------------------------------------------------------
(* From the calls to the wire *)

\* The calls tell what is built, and what is built is what they asked for.
MeantInv ==
    /\ pc = "start" => last = << >>
    /\ pc \in {"subscriber", "connector"} => Settled(builder, pc)
    /\ pc \in {"built", "encoded"} => msg = {Meant} /\ Writable(Meant)
    /\ pc = "encoded" => wire = Serialize(to_frame(Meant))

\* What was meant, by the calls on record.
MeantByCalls ==
    /\ DOMAIN last = Setters("subscriber") => Meant = subscribe(Chosen("subscriber"))
    /\ DOMAIN last = Setters("connector") => Meant = Connecting(Chosen("connector"))
    /\ last = << >> => Meant = Unwrap(msg)

LEMMA MeantIs == MeantByCalls
<1>1. /\ Setters("subscriber") = DOMAIN NewSubscriber /\ Setters("connector") = DOMAIN NewConnector
      /\ Setters("subscriber") # Setters("connector") /\ Setters("subscriber") # {}
      /\ Setters("connector") # {}
  <2>1. Setters("subscriber") = DOMAIN NewSubscriber /\ Setters("connector") = DOMAIN NewConnector
      BY DEF Setters, New
  <2>2. "server" \in Setters("connector") /\ "server" \notin Setters("subscriber")
      BY SettersOf
  <2>3. "id" \in Setters("subscriber")
      BY SettersOf
  <2> QED  BY <2>1, <2>2, <2>3
<1>2. ASSUME DOMAIN last = Setters("subscriber") PROVE Meant = subscribe(Chosen("subscriber"))
    BY <1>1, <1>2 DEF Meant
<1>3. ASSUME DOMAIN last = Setters("connector") PROVE Meant = Connecting(Chosen("connector"))
    BY <1>1, <1>3 DEF Meant, Connecting
<1>4. ASSUME last = << >> PROVE Meant = Unwrap(msg)
  <2>1. DOMAIN last = {}
      BY <1>4
  <2>2. DOMAIN last # DOMAIN NewSubscriber /\ DOMAIN last # DOMAIN NewConnector
      BY <1>1, <2>1
  <2> QED  BY <2>2 DEF Meant
<1> QED  BY <1>2, <1>3, <1>4 DEF MeantByCalls

LEMMA MeantThen == MeantByCalls'
BY MeantIs, PTL

LEMMA MeantInit == Init => MeantInv
BY DEF Init, MeantInv

LEMMA MeantNext == BuilderInv /\ MeantInv /\ [Next]_vars => MeantInv'
<1> SUFFICES ASSUME BuilderInv, MeantInv, [Next]_vars PROVE MeantInv'
    OBVIOUS
<1>1. ASSUME NEW what \in {"subscriber", "connector"}, Start(what) PROVE MeantInv'
  <2>1. pc' = what /\ builder' = New(what)
      BY <1>1 DEF Start
  <2>2. Settled(New(what), what)
      BY DEF Settled
  <2> QED  BY <2>1, <2>2 DEF MeantInv
<1>2. ASSUME NEW what \in {"subscriber", "connector"}, pc = what,
             NEW setter \in DOMAIN Values(what), NEW v \in Values(what)[setter], Set(setter, v)
      PROVE  MeantInv'
  <2>1. pc' = pc /\ builder' = WithField(builder, setter, v) /\ setter \in Setters(what)
      BY <1>2, SettersOf DEF Set
  <2>2. Has(builder, what) /\ Settled(builder, what)
      BY <1>2 DEF BuilderInv, MeantInv, Chosen, Setters, Has
  <2>3. builder' = [k \in Setters(what) |-> IF k = setter THEN {v} ELSE builder[k]]
      BY <2>1, <2>2, SetsItsField
  <2>4. Settled(builder', what)
      BY <2>2, <2>3 DEF Settled
  <2> QED  BY <1>2, <2>1, <2>4 DEF MeantInv
<1>3. CASE Build
  <2>1. pc' = "built" /\ last' = last
      BY <1>3 DEF Build
  <2>2. CASE pc = "subscriber" /\ builder.destination # {} /\ builder.id # {} /\ msg' = {subscribe(builder)}
    <3>1. DOMAIN last = Setters("subscriber") /\ builder = Chosen("subscriber") /\ Settled(builder, "subscriber")
        BY <2>2 DEF BuilderInv, MeantInv
    <3>2. Meant' = subscribe(builder)
      <4>1. Chosen("subscriber")' = Chosen("subscriber")
          BY <2>1 DEF Chosen
      <4>2. Meant' = subscribe(Chosen("subscriber"))'
          BY <2>1, <3>1, MeantThen DEF MeantByCalls
      <4>3. subscribe(Chosen("subscriber"))' = subscribe(Chosen("subscriber")')
          BY DEF subscribe, Plain, Unwrap
      <4> QED  BY <3>1, <4>1, <4>2, <4>3
    <3>3. Writable(subscribe(builder))
        BY <2>2, <3>1, SubscribeIsWritable
    <3> QED  BY <2>1, <2>2, <3>2, <3>3 DEF MeantInv
  <2>3. CASE pc = "connector" /\ builder.virtualhost # {} /\ msg' = {connectMsg(builder)}
    <3>1. DOMAIN last = Setters("connector") /\ builder = Chosen("connector") /\ Settled(builder, "connector")
        BY <2>3 DEF BuilderInv, MeantInv
    <3>2. Meant' = Connecting(builder)
      <4>1. Chosen("connector")' = Chosen("connector")
          BY <2>1 DEF Chosen
      <4>2. Meant' = Connecting(Chosen("connector"))'
          BY <2>1, <3>1, MeantThen DEF MeantByCalls
      <4> QED  BY <3>1, <4>1, <4>2
    <3>3. Writable(Connecting(builder))
        BY <2>3, <3>1, ConnectIsWritable
    <3>4. connectMsg(builder) = Connecting(builder)
        BY ConnectIs
    <3> QED  BY <2>1, <2>3, <3>2, <3>3, <3>4 DEF MeantInv
  <2> QED  BY <1>3, <2>2, <2>3 DEF Build
<1>4. CASE WriteOut
  <2>1. PICK m \in ByHand : msg' = {m}
      BY <1>4 DEF WriteOut
  <2>2. last' = << >> /\ pc' = "built"
      BY <1>4 DEF WriteOut, MeantInv
  <2>3. Meant' = Unwrap(msg')
      BY <2>2, MeantThen DEF MeantByCalls
  <2>4. Meant' = m
      BY <2>1, <2>3, UnwrapIs
  <2>5. Writable(m)
      BY OutboundAssumption
  <2> QED  BY <2>1, <2>2, <2>4, <2>5 DEF MeantInv
<1>5. CASE Encode
  <2>1. pc = "built" /\ pc' = "encoded" /\ msg' = msg /\ last' = last
      BY <1>5 DEF Encode
  <2>2. PICK m \in msg : wire' = Serialize(to_frame(m))
      BY <1>5 DEF Encode
  <2>3. msg = {Meant} /\ Writable(Meant)
      BY <2>1 DEF MeantInv
  <2>4. Meant' = Meant
      BY <2>1 DEF Meant, Chosen
  <2> QED  BY <2>1, <2>2, <2>3, <2>4 DEF MeantInv
<1>6. CASE UNCHANGED vars
  <2>1. Meant' = Meant
      BY <1>6 DEF Meant, Chosen, vars
  <2> QED  BY <1>6, <2>1 DEF vars, MeantInv
<1> QED  BY <1>1, <1>2, <1>3, <1>4, <1>5, <1>6 DEF Next

\* A server reads the message that was meant: whatever the setters were given
\* and in whatever order they were called, and for every message an
\* application writes out, the bytes of Encoder::encode are one frame, and
\* to_client_msg makes of it that kind, those fields, that body and those
\* headers, and nothing else.
THEOREM ReadsAsMeant == Spec => []ReadAsMeant
<1>1. MeantInv => ReadAsMeant
  <2> SUFFICES ASSUME MeantInv, pc = "encoded" PROVE IsReadAs(wire, Meant)
      BY DEF ReadAsMeant
  <2>1. PICK m : m = Meant
      OBVIOUS
  <2>2. Writable(m) /\ wire = Serialize(to_frame(m))
      BY <2>1 DEF MeantInv
  <2>3. IsReadAs(Serialize(to_frame(m)), m)
      BY <2>2, MessageReadBack
  <2> QED  BY <2>1, <2>2, <2>3
<1>2. Init => BuilderInv /\ MeantInv
    BY BuilderInit, MeantInit
<1>3. BuilderInv /\ MeantInv /\ [Next]_vars => (BuilderInv /\ MeantInv)'
    BY BuilderNext, MeantNext
<1> QED  BY <1>1, <1>2, <1>3, PTL DEF Spec

=============================================================================
