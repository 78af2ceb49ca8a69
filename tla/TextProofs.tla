----------------------------- MODULE TextProofs -----------------------------
(***************************************************************************)
(* What TLAPS proves of the two texts the Mac reads.                       *)
(*                                                                         *)
(* NetshText, for any percentages and numbers: a listing in a language the *)
(* decoder does not know is read as the English one is, and no line is     *)
(* taken for another.                                                      *)
(*                                                                         *)
(* DpcIsrReport, for any modules and counts: a report of xperf's that      *)
(* decodes is whole.                                                       *)
(***************************************************************************)
EXTENDS NetshText, DpcIsrReport, TLAPS

Before == {"start", "bssid"}
BssPlaces == Before \union {"signal", "radio", "band", "channel", "load", "nested", "rates"}

\* The field read last at each place of an access point.
BssLast(p) == IF p \in {"signal", "radio", "band"} THEN p ELSE "channel"

\* What both readers know of the current access point is what was printed of it.
Same ==
  \A lang \in Languages :
    /\ reader[lang].signal = printed.signal
    /\ reader[lang].radio = printed.radio
    /\ reader[lang].band = printed.band
    /\ reader[lang].channel = printed.channel

BssInv ==
  /\ Same
  /\ command = "networks" => place \in BssPlaces
  /\ command = "networks" /\ place \in Before => \A lang \in Languages : reader[lang].depth = 0
  /\ command = "networks" /\ place \notin Before =>
       \A lang \in Languages : reader[lang].depth = 2 /\ reader[lang].last = BssLast(place)

Unjoined == {"start", "name", "guid", "address", "state"}
Connected == {"ssid", "bssid", "radio", "cipher", "band", "channel", "receive", "transmit",
              "signal", "profile"}

\* The key given last at each place of an adapter, up to the first connected one.
LastAt ==
  [guid |-> "guid", address |-> "physical_address", state |-> "physical_address",
   ssid |-> "ssid", bssid |-> "bssid", radio |-> "radio", cipher |-> "radio", band |-> "band",
   channel |-> "channel", receive |-> "receive_rate", transmit |-> "transmit_rate",
   signal |-> "signal", profile |-> "profile"]

First == joined = << >> \/ joined = <<adapter>>

Joining ==
  /\ joined \in Seq(1 .. adapter)
  /\ command = "interfaces" => place \in Unjoined \union Connected
  /\ command = "interfaces" /\ place # "start" => adapter > 0
  /\ command = "interfaces" /\ place \in Unjoined => \A i \in DOMAIN joined : joined[i] # adapter
  /\ command = "interfaces" /\ place \in Connected => joined # << >>

FieldInv ==
  /\ Joining
  /\ field["blind"].ssidSeen = (joined # << >>)
  /\ command = "interfaces" /\ place \in DOMAIN LastAt /\ First => field["blind"].last = LastAt[place]
  /\ First => key["blind"] = IF key["english"] \in ByItsValue THEN key["english"] ELSE "none"
  /\ OwnNetworkBlind

IInv == NTypeOK /\ BssInv /\ FieldInv

-----------------------------------------------------------------------------
(* Access points.                                                          *)

BssField == {"signal", "radio", "band", "channel", "none"}

\* The field a line sets.
FieldOf(lang, r, l) == IF lang = "english" /\ l.label # "other" THEN l.label ELSE ByShape(r, l)

\* A line sets its field, and leaves the others.
LEMMA ReadSets ==
  ASSUME NEW r \in Readings, NEW lang, NEW l, NEW f \in BssField, FieldOf(lang, r, l) = f,
         Depth(r, l) = 2,
         f = "signal" => l.value \in Percent, f = "radio" => l.value \in Radio,
         f = "band" => l.value \in Band, f = "channel" => l.value \in Number
  PROVE  /\ ReadBss(lang, r, l) \in Readings
         /\ ReadBss(lang, r, l).depth = 2
         /\ ReadBss(lang, r, l).last = IF f = "none" THEN r.last ELSE f
         /\ ReadBss(lang, r, l).signal = IF f = "signal" THEN {l.value} ELSE r.signal
         /\ ReadBss(lang, r, l).radio = IF f = "radio" THEN {l.value} ELSE r.radio
         /\ ReadBss(lang, r, l).band = IF f = "band" THEN {l.value} ELSE r.band
         /\ ReadBss(lang, r, l).channel = IF f = "channel" THEN {l.value} ELSE r.channel
<1> DEFINE s == [r EXCEPT !.depth = 2]
<1>1. /\ s \in Readings
      /\ s.depth = 2 /\ s.last = r.last /\ s.signal = r.signal /\ s.radio = r.radio
      /\ s.band = r.band /\ s.channel = r.channel
  BY DEF Readings
<1> HIDE DEF s
<1>2. ReadBss(lang, r, l) =
        IF f = "signal" THEN [s EXCEPT !.signal = {l.value}, !.last = f]
        ELSE IF f = "radio" THEN [s EXCEPT !.radio = {l.value}, !.last = f]
        ELSE IF f = "band" THEN [s EXCEPT !.band = {l.value}, !.last = f]
        ELSE IF f = "channel" THEN [s EXCEPT !.channel = {l.value}, !.last = f]
        ELSE s
  BY DEF ReadBss, FieldOf, s
<1>3. CASE f = "signal"
  <2> DEFINE t == [s EXCEPT !.signal = {l.value}]
  <2>1. {l.value} \in SUBSET Percent
    BY <1>3
  <2>2. /\ t \in Readings /\ t.depth = 2 /\ t.signal = {l.value}
        /\ t.radio = r.radio /\ t.band = r.band /\ t.channel = r.channel
    BY <1>1, <2>1 DEF Readings
  <2>3. ReadBss(lang, r, l) = [t EXCEPT !.last = "signal"]
    BY <1>2, <1>3
  <2> HIDE DEF t
  <2>4. /\ [t EXCEPT !.last = "signal"] \in Readings
        /\ [t EXCEPT !.last = "signal"].depth = t.depth
        /\ [t EXCEPT !.last = "signal"].last = "signal"
        /\ [t EXCEPT !.last = "signal"].signal = t.signal
        /\ [t EXCEPT !.last = "signal"].radio = t.radio
        /\ [t EXCEPT !.last = "signal"].band = t.band
        /\ [t EXCEPT !.last = "signal"].channel = t.channel
    BY <2>2 DEF Readings
  <2> QED
    BY <1>3, <2>2, <2>3, <2>4
<1>4. CASE f = "radio"
  <2> DEFINE t == [s EXCEPT !.radio = {l.value}]
  <2>1. {l.value} \in SUBSET Radio
    BY <1>4
  <2>2. /\ t \in Readings /\ t.depth = 2 /\ t.radio = {l.value}
        /\ t.signal = r.signal /\ t.band = r.band /\ t.channel = r.channel
    BY <1>1, <2>1 DEF Readings
  <2>3. ReadBss(lang, r, l) = [t EXCEPT !.last = "radio"]
    BY <1>2, <1>4
  <2> HIDE DEF t
  <2>4. /\ [t EXCEPT !.last = "radio"] \in Readings
        /\ [t EXCEPT !.last = "radio"].depth = t.depth
        /\ [t EXCEPT !.last = "radio"].last = "radio"
        /\ [t EXCEPT !.last = "radio"].signal = t.signal
        /\ [t EXCEPT !.last = "radio"].radio = t.radio
        /\ [t EXCEPT !.last = "radio"].band = t.band
        /\ [t EXCEPT !.last = "radio"].channel = t.channel
    BY <2>2 DEF Readings
  <2> QED
    BY <1>4, <2>2, <2>3, <2>4
<1>5. CASE f = "band"
  <2> DEFINE t == [s EXCEPT !.band = {l.value}]
  <2>1. {l.value} \in SUBSET Band
    BY <1>5
  <2>2. /\ t \in Readings /\ t.depth = 2 /\ t.band = {l.value}
        /\ t.signal = r.signal /\ t.radio = r.radio /\ t.channel = r.channel
    BY <1>1, <2>1 DEF Readings
  <2>3. ReadBss(lang, r, l) = [t EXCEPT !.last = "band"]
    BY <1>2, <1>5
  <2> HIDE DEF t
  <2>4. /\ [t EXCEPT !.last = "band"] \in Readings
        /\ [t EXCEPT !.last = "band"].depth = t.depth
        /\ [t EXCEPT !.last = "band"].last = "band"
        /\ [t EXCEPT !.last = "band"].signal = t.signal
        /\ [t EXCEPT !.last = "band"].radio = t.radio
        /\ [t EXCEPT !.last = "band"].band = t.band
        /\ [t EXCEPT !.last = "band"].channel = t.channel
    BY <2>2 DEF Readings
  <2> QED
    BY <1>5, <2>2, <2>3, <2>4
<1>6. CASE f = "channel"
  <2> DEFINE t == [s EXCEPT !.channel = {l.value}]
  <2>1. {l.value} \in SUBSET Number
    BY <1>6
  <2>2. /\ t \in Readings /\ t.depth = 2 /\ t.channel = {l.value}
        /\ t.signal = r.signal /\ t.radio = r.radio /\ t.band = r.band
    BY <1>1, <2>1 DEF Readings
  <2>3. ReadBss(lang, r, l) = [t EXCEPT !.last = "channel"]
    BY <1>2, <1>6
  <2> HIDE DEF t
  <2>4. /\ [t EXCEPT !.last = "channel"] \in Readings
        /\ [t EXCEPT !.last = "channel"].depth = t.depth
        /\ [t EXCEPT !.last = "channel"].last = "channel"
        /\ [t EXCEPT !.last = "channel"].signal = t.signal
        /\ [t EXCEPT !.last = "channel"].radio = t.radio
        /\ [t EXCEPT !.last = "channel"].band = t.band
        /\ [t EXCEPT !.last = "channel"].channel = t.channel
    BY <2>2 DEF Readings
  <2> QED
    BY <1>6, <2>2, <2>3, <2>4
<1>7. CASE f = "none"
  BY <1>1, <1>2, <1>7
<1> QED
  BY <1>3, <1>4, <1>5, <1>6, <1>7 DEF BssField

\* What a line of netsh's layout means to both readers at each place.
LEMMA LineMeans ==
  ASSUME IInv, command = "networks", place \notin {"start"}, NEW lang \in Languages, NEW l,
         NEW f \in BssField,
         \/ place = "bssid" /\ f = "signal" /\ (\E v : l = Line("signal", "percent", v, 2))
         \/ place = "signal" /\ f = "radio" /\ (\E v : l = Line("radio", "radio", v, 2))
         \/ place = "radio" /\ f = "band" /\ (\E v : l = Line("band", "band", v, 2))
         \/ place \in {"radio", "band"} /\ f = "channel" /\ (\E v : l = Line("channel", "integer", v, 2))
         \/ place \in {"channel", "load", "nested", "rates"} /\ f = "none" /\
              \/ l = Line("other", "empty", 0, 2)
              \/ \E v : l = Line("other", "integer", v, 3)
              \/ \E v : l = Line("other", "percent", v, 3)
              \/ \E v : l = Line("other", "integer", v, 2)
              \/ l = Line("other", "text", 0, 2)
  PROVE  FieldOf(lang, reader[lang], l) = f /\ Depth(reader[lang], l) = 2
<1> DEFINE r == reader[lang]
<1>1. place = "bssid" => r.depth = 0
  BY DEF IInv, BssInv, Before
<1>2. place # "bssid" => r.depth = 2 /\ r.last = BssLast(place)
  BY DEF IInv, BssInv, Before
<1> HIDE DEF r
<1>3. Depth(r, l) = 2
  BY <1>1, <1>2 DEF Depth, Line
<1>4. FieldOf(lang, r, l) = f
  BY <1>2, <1>3 DEF FieldOf, ByShape, Line, BssLast
<1> QED
  BY <1>3, <1>4 DEF r

\* A line of an access point keeps the invariant, when netsh printed what it sets.
LEMMA BssStep ==
  ASSUME IInv, NEW from \in SUBSET (BssPlaces \ {"start"}), NEW to \in BssPlaces \ Before,
         NEW l, NEW f \in BssField,
         BssLine(from, to, l),
         \A lang \in Languages : FieldOf(lang, reader[lang], l) = f /\ Depth(reader[lang], l) = 2,
         f = "signal" => l.value \in Percent, f = "radio" => l.value \in Radio,
         f = "band" => l.value \in Band, f = "channel" => l.value \in Number,
         printed' = IF f = "none" THEN printed ELSE [printed EXCEPT ![f] = {l.value}],
         BssLast(to) = IF f = "none" THEN BssLast(place) ELSE f,
         f = "none" => place \notin Before
  PROVE  IInv'
<1>1. NTypeOK /\ BssInv /\ FieldInv
  BY DEF IInv
<1>2. /\ command = "networks" /\ place \in from /\ place' = to
      /\ reader' = [lang \in Languages |-> ReadBss(lang, reader[lang], l)]
      /\ UNCHANGED <<command, field, key, connected, adapter, joined>>
  BY DEF BssLine
<1>3. printed \in Readings /\ \A lang \in Languages : reader[lang] \in Readings
  BY <1>1 DEF NTypeOK
<1>4. /\ printed' \in Readings
      /\ printed'.signal = IF f = "signal" THEN {l.value} ELSE printed.signal
      /\ printed'.radio = IF f = "radio" THEN {l.value} ELSE printed.radio
      /\ printed'.band = IF f = "band" THEN {l.value} ELSE printed.band
      /\ printed'.channel = IF f = "channel" THEN {l.value} ELSE printed.channel
  <2>1. CASE f = "none"
    BY <1>3, <2>1
  <2>2. CASE f = "signal"
    BY <1>3, <2>2 DEF Readings
  <2>3. CASE f = "radio"
    BY <1>3, <2>3 DEF Readings
  <2>4. CASE f = "band"
    BY <1>3, <2>4 DEF Readings
  <2>5. CASE f = "channel"
    BY <1>3, <2>5 DEF Readings
  <2> QED
    BY <2>1, <2>2, <2>3, <2>4, <2>5 DEF BssField
<1>5. ASSUME NEW lang \in Languages
      PROVE  /\ reader'[lang] \in Readings
             /\ reader'[lang].depth = 2 /\ reader'[lang].last = BssLast(to)
             /\ reader'[lang].signal = printed'.signal /\ reader'[lang].radio = printed'.radio
             /\ reader'[lang].band = printed'.band /\ reader'[lang].channel = printed'.channel
  <2> DEFINE r == reader[lang]
  <2>1. reader'[lang] = ReadBss(lang, r, l) /\ r \in Readings
    BY <1>2, <1>3
  <2>2. /\ r.signal = printed.signal /\ r.radio = printed.radio
        /\ r.band = printed.band /\ r.channel = printed.channel
    BY <1>1 DEF BssInv, Same
  <2>3. f = "none" => r.last = BssLast(place)
    BY <1>1, <1>2 DEF BssInv
  <2>4. FieldOf(lang, r, l) = f /\ Depth(r, l) = 2
    OBVIOUS
  <2> HIDE DEF r
  <2>5. /\ ReadBss(lang, r, l) \in Readings
        /\ ReadBss(lang, r, l).depth = 2
        /\ ReadBss(lang, r, l).last = IF f = "none" THEN r.last ELSE f
        /\ ReadBss(lang, r, l).signal = IF f = "signal" THEN {l.value} ELSE r.signal
        /\ ReadBss(lang, r, l).radio = IF f = "radio" THEN {l.value} ELSE r.radio
        /\ ReadBss(lang, r, l).band = IF f = "band" THEN {l.value} ELSE r.band
        /\ ReadBss(lang, r, l).channel = IF f = "channel" THEN {l.value} ELSE r.channel
    BY ONLY <2>1, <2>4, ReadSets, f \in BssField,
            f = "signal" => l.value \in Percent, f = "radio" => l.value \in Radio,
            f = "band" => l.value \in Band, f = "channel" => l.value \in Number, SMTT(30)
  <2> QED
    BY <1>4, <2>1, <2>2, <2>3, <2>5
<1>6. reader' \in [Languages -> Readings]
  BY <1>2, <1>5
<1>7. NTypeOK'
  BY <1>1, <1>2, <1>4, <1>6 DEF NTypeOK
<1>8. BssInv'
  BY <1>2, <1>5 DEF BssInv, Same, Before
<1>9. FieldInv'
  BY <1>1, <1>2 DEF FieldInv, Joining, First, OwnNetworkBlind
<1> QED
  BY <1>7, <1>8, <1>9 DEF IInv

\* The lines of an access point, one by one.
LEMMA BssNext ==
  ASSUME IInv,
         PrintSignal \/ PrintRadio \/ PrintBand \/ PrintChannel \/ PrintLoad \/ PrintNested \/ PrintRates
  PROVE  IInv'
<1>1. CASE PrintSignal
  <2>1. PICK v \in Percent :
          /\ BssLine({"bssid"}, "signal", Line("signal", "percent", v, 2))
          /\ printed' = [printed EXCEPT !.signal = {v}]
    BY <1>1 DEF PrintSignal
  <2>2. command = "networks" /\ place = "bssid"
    BY <2>1 DEF BssLine
  <2>3. \A lang \in Languages :
          /\ FieldOf(lang, reader[lang], Line("signal", "percent", v, 2)) = "signal"
          /\ Depth(reader[lang], Line("signal", "percent", v, 2)) = 2
    BY <2>2, LineMeans DEF BssField
  <2>4. Line("signal", "percent", v, 2).value = v
    BY DEF Line
  <2>5. BssLast("signal") = "signal"
    BY DEF BssLast
  <2> QED
    BY <2>1, <2>3, <2>4, <2>5, BssStep DEF BssField, BssPlaces, Before
<1>2. CASE PrintRadio
  <2>1. PICK v \in Radio :
          /\ BssLine({"signal"}, "radio", Line("radio", "radio", v, 2))
          /\ printed' = [printed EXCEPT !.radio = {v}]
    BY <1>2 DEF PrintRadio
  <2>2. command = "networks" /\ place = "signal"
    BY <2>1 DEF BssLine
  <2>3. \A lang \in Languages :
          /\ FieldOf(lang, reader[lang], Line("radio", "radio", v, 2)) = "radio"
          /\ Depth(reader[lang], Line("radio", "radio", v, 2)) = 2
    BY <2>2, LineMeans DEF BssField
  <2>4. Line("radio", "radio", v, 2).value = v
    BY DEF Line
  <2>5. BssLast("radio") = "radio"
    BY DEF BssLast
  <2> QED
    BY <2>1, <2>3, <2>4, <2>5, BssStep DEF BssField, BssPlaces, Before
<1>3. CASE PrintBand
  <2>1. PICK v \in Band :
          /\ BssLine({"radio"}, "band", Line("band", "band", v, 2))
          /\ printed' = [printed EXCEPT !.band = {v}]
    BY <1>3 DEF PrintBand
  <2>2. command = "networks" /\ place = "radio"
    BY <2>1 DEF BssLine
  <2>3. \A lang \in Languages :
          /\ FieldOf(lang, reader[lang], Line("band", "band", v, 2)) = "band"
          /\ Depth(reader[lang], Line("band", "band", v, 2)) = 2
    BY <2>2, LineMeans DEF BssField
  <2>4. Line("band", "band", v, 2).value = v
    BY DEF Line
  <2>5. BssLast("band") = "band"
    BY DEF BssLast
  <2> QED
    BY <2>1, <2>3, <2>4, <2>5, BssStep DEF BssField, BssPlaces, Before
<1>4. CASE PrintChannel
  <2>1. PICK v \in Number :
          /\ BssLine({"radio", "band"}, "channel", Line("channel", "integer", v, 2))
          /\ printed' = [printed EXCEPT !.channel = {v}]
    BY <1>4 DEF PrintChannel
  <2>2. command = "networks" /\ place \in {"radio", "band"}
    BY <2>1 DEF BssLine
  <2>3. \A lang \in Languages :
          /\ FieldOf(lang, reader[lang], Line("channel", "integer", v, 2)) = "channel"
          /\ Depth(reader[lang], Line("channel", "integer", v, 2)) = 2
    BY <2>2, LineMeans DEF BssField
  <2>4. Line("channel", "integer", v, 2).value = v
    BY DEF Line
  <2>5. BssLast("channel") = "channel"
    BY DEF BssLast
  <2> QED
    BY <2>1, <2>3, <2>4, <2>5, BssStep DEF BssField, BssPlaces, Before
<1>5. CASE PrintLoad \/ PrintNested \/ PrintRates
  <2>1. PICK from, to, l :
          /\ from \in SUBSET {"channel", "load", "nested", "rates"}
          /\ to \in {"load", "nested", "rates"}
          /\ BssLine(from, to, l) /\ UNCHANGED printed
          /\ \/ l = Line("other", "empty", 0, 2)
             \/ \E v : l = Line("other", "integer", v, 3)
             \/ \E v : l = Line("other", "percent", v, 3)
             \/ \E v : l = Line("other", "integer", v, 2)
             \/ l = Line("other", "text", 0, 2)
    <3>1. CASE PrintLoad
      BY <3>1 DEF PrintLoad
    <3>2. CASE PrintNested
      BY <3>2 DEF PrintNested
    <3>3. CASE PrintRates
      BY <3>3 DEF PrintRates
    <3> QED
      BY <1>5, <3>1, <3>2, <3>3
  <2>2. command = "networks" /\ place \in {"channel", "load", "nested", "rates"}
    BY <2>1 DEF BssLine
  <2>3. \A lang \in Languages : FieldOf(lang, reader[lang], l) = "none" /\ Depth(reader[lang], l) = 2
    BY <2>1, <2>2, LineMeans DEF BssField
  <2>4. BssLast(to) = BssLast(place)
    BY <2>1, <2>2 DEF BssLast
  <2> QED
    BY <2>1, <2>2, <2>3, <2>4, BssStep DEF BssField, BssPlaces, Before
<1> QED
  BY <1>1, <1>2, <1>3, <1>4, <1>5

\* A BSSID line opens the next access point.
LEMMA BssidNext ==
  ASSUME IInv, PrintBssid
  PROVE  IInv'
<1>1. Unread \in Readings /\ Unread.depth = 0
  BY DEF Unread, Readings
<1>2. NTypeOK'
  BY <1>1 DEF IInv, NTypeOK, PrintBssid
<1>3. BssInv'
  BY <1>1 DEF BssInv, Same, Before, BssPlaces, PrintBssid
<1>4. FieldInv'
  BY DEF IInv, FieldInv, Joining, First, OwnNetworkBlind, PrintBssid
<1> QED
  BY <1>2, <1>3, <1>4 DEF IInv

-----------------------------------------------------------------------------
(* Fields of show interfaces.                                              *)

Blind == field["blind"]
ByValue(shape) == ClassifyByValue(shape, Blind)
Named(label) == IF label \in ByItsValue THEN label ELSE "none"

\* What a line changes.
LEMMA FieldFacts ==
  ASSUME IInv, NEW from, NEW to, NEW label \in Keys, NEW shape, FieldLine(from, to, label, shape)
  PROVE  /\ command = "interfaces" /\ place \in from /\ place' = to
         /\ UNCHANGED <<command, printed, reader>>
         /\ key'["english"] = label /\ key'["blind"] = ByValue(shape)
         /\ key' \in [Languages -> Keys]
         /\ field'["blind"] = Remember(ByValue(shape), Blind)
         /\ field' \in [Languages -> [last : Keys, ssidSeen : BOOLEAN]]
         /\ \A lang \in Languages : connected'[lang] =
              IF key'[lang] = "ssid" /\ connected[lang] = 0 THEN adapter ELSE connected[lang]
         /\ connected' \in [Languages -> Nat]
<1>1. NTypeOK
  BY DEF IInv
<1>2. \A s \in [last : Keys, ssidSeen : BOOLEAN] : ClassifyByValue(shape, s) \in Keys
  BY DEF ClassifyByValue, Keys
<1>3. /\ key' = [lang \in Languages |-> Classify(lang, label, shape, field[lang])]
      /\ field' = [lang \in Languages |-> Remember(key'[lang], field[lang])]
      /\ connected' = [lang \in Languages |->
           IF key'[lang] = "ssid" /\ connected[lang] = 0 THEN adapter ELSE connected[lang]]
      /\ command = "interfaces" /\ place \in from /\ place' = to
      /\ UNCHANGED <<command, printed, reader>>
  BY DEF FieldLine
<1>4. Languages = {"english", "blind"}
  BY DEF Languages
<1>5. key'["english"] = label /\ key'["blind"] = ByValue(shape)
  BY <1>3, <1>4 DEF Classify, ByValue, Blind
<1>6. ASSUME NEW lang \in Languages
      PROVE  Classify(lang, label, shape, field[lang]) \in Keys
  BY <1>1, <1>2 DEF Classify, NTypeOK
<1>7. key' \in [Languages -> Keys]
  BY <1>3, <1>6
<1>8. ASSUME NEW lang \in Languages
      PROVE  Remember(key'[lang], field[lang]) \in [last : Keys, ssidSeen : BOOLEAN]
  BY <1>1, <1>7 DEF Remember, NTypeOK
<1>9. field' \in [Languages -> [last : Keys, ssidSeen : BOOLEAN]]
  BY <1>3, <1>8
<1>10. field'["blind"] = Remember(ByValue(shape), Blind)
  BY <1>3, <1>4, <1>5 DEF Blind
<1>11. connected' \in [Languages -> Nat]
  BY <1>1, <1>3 DEF NTypeOK
<1> QED
  BY <1>3, <1>5, <1>7, <1>9, <1>10, <1>11

\* A line of fields does not touch the access points.
LEMMA FieldRest ==
  ASSUME IInv, NEW from, NEW to, NEW label \in Keys, NEW shape, FieldLine(from, to, label, shape),
         adapter' \in Nat
  PROVE  NTypeOK' /\ BssInv'
<1>1. NTypeOK'
  BY FieldFacts DEF IInv, NTypeOK
<1>2. BssInv'
  BY FieldFacts DEF IInv, BssInv, Same
<1> QED
  BY <1>1, <1>2

\* Only a value that may be a network name is classified as one.
LEMMA SsidOnlyByShape ==
  ASSUME NEW shape, NEW s, ClassifyByValue(shape, s) = "ssid"
  PROVE  shape = "ssid" /\ ~s.ssidSeen
BY DEF ClassifyByValue

\* A line that is not the SSID's keeps the invariant, if its value gives its key.
LEMMA FieldStep ==
  ASSUME IInv, NEW from, NEW to \in DOMAIN LastAt, NEW label \in Keys \ {"ssid"}, NEW shape,
         FieldLine(from, to, label, shape), UNCHANGED <<adapter, joined>>,
         place # "start", place \in Unjoined <=> to \in Unjoined,
         shape = "ssid" => joined # << >>,
         First => ByValue(shape) = Named(label) /\ Remember(ByValue(shape), Blind).last = LastAt[to]
  PROVE  IInv'
<1>1. NTypeOK /\ FieldInv
  BY DEF IInv
<1>2. /\ command = "interfaces" /\ place' = to /\ command' = command
      /\ key'["english"] = label /\ key'["blind"] = ByValue(shape)
      /\ field'["blind"] = Remember(ByValue(shape), Blind)
      /\ \A lang \in Languages : connected'[lang] =
           IF key'[lang] = "ssid" /\ connected[lang] = 0 THEN adapter ELSE connected[lang]
  BY FieldFacts
<1>3. ByValue(shape) # "ssid"
  BY <1>1, SsidOnlyByShape DEF ByValue, Blind, FieldInv
<1>4. field'["blind"].ssidSeen = field["blind"].ssidSeen
  <2>1. Blind \in [last : Keys, ssidSeen : BOOLEAN]
    BY <1>1 DEF NTypeOK, Blind, Languages
  <2> QED
    BY <1>2, <1>3, <2>1 DEF Remember, Blind
<1>5. DOMAIN LastAt = (Unjoined \union Connected) \ {"start", "name"}
  BY DEF LastAt, Unjoined, Connected
<1>6. Joining'
  BY <1>1, <1>2, <1>5 DEF FieldInv, Joining, Unjoined, Connected
<1>7. First' <=> First
  BY DEF First
<1>8. OwnNetworkBlind'
  BY <1>1, <1>2, <1>3 DEF FieldInv, OwnNetworkBlind, Languages
<1>9. First' => key'["blind"] = IF key'["english"] \in ByItsValue THEN key'["english"] ELSE "none"
  BY <1>2, <1>7 DEF Named
<1>10. place' \in DOMAIN LastAt /\ First' => field'["blind"].last = LastAt[place']
  BY <1>2, <1>7
<1>11. field'["blind"].ssidSeen = (joined' # << >>)
  BY <1>1, <1>4 DEF FieldInv
<1>12. FieldInv'
  BY <1>6, <1>8, <1>9, <1>10, <1>11 DEF FieldInv
<1>13. adapter' \in Nat
  BY <1>1 DEF NTypeOK
<1> QED
  BY <1>12, <1>13, FieldRest DEF IInv

\* The lines of an adapter up to its state.
LEMMA AdapterNext ==
  ASSUME IInv, PrintGuid \/ PrintAddress \/ PrintState
  PROVE  IInv'
<1>1. FieldInv /\ Languages = {"english", "blind"}
  BY DEF IInv, Languages
<1>2. CASE PrintGuid
  <2>1. FieldLine({"name"}, "guid", "guid", "guid") /\ UNCHANGED <<adapter, joined>> /\ place = "name"
    BY <1>2 DEF PrintGuid, FieldLine
  <2>2. ByValue("guid") = Named("guid")
    BY DEF ByValue, ClassifyByValue, Named, ByItsValue
  <2>3. Remember(ByValue("guid"), Blind).last = LastAt["guid"]
    BY DEF ByValue, ClassifyByValue, Remember, LastAt
  <2> QED
    BY <2>1, <2>2, <2>3, FieldStep DEF Keys, LastAt, Unjoined
<1>3. CASE PrintAddress
  <2>1. /\ FieldLine({"guid"}, "address", "physical_address", "mac")
        /\ UNCHANGED <<adapter, joined>> /\ place = "guid" /\ command = "interfaces"
    BY <1>3 DEF PrintAddress, FieldLine
  <2>2. First => Blind.last = "guid"
    BY <1>1, <2>1 DEF FieldInv, LastAt, Blind
  <2>3. First => ByValue("mac") = "physical_address"
    BY <2>2 DEF ByValue, ClassifyByValue
  <2>4. Named("physical_address") = "physical_address"
    BY DEF Named, ByItsValue
  <2>5. First => Remember(ByValue("mac"), Blind).last = LastAt["address"]
    BY <2>3 DEF Remember, LastAt
  <2> QED
    BY <2>1, <2>3, <2>4, <2>5, FieldStep DEF Keys, LastAt, Unjoined
<1>4. CASE PrintState
  <2>1. /\ FieldLine({"address"}, "state", "state", "text")
        /\ UNCHANGED <<adapter, joined>> /\ place = "address" /\ command = "interfaces"
    BY <1>4 DEF PrintState, FieldLine
  <2>2. First => Blind.last = "physical_address"
    BY <1>1, <2>1 DEF FieldInv, LastAt, Blind
  <2>3. ByValue("text") = "none" /\ Named("state") = "none"
    BY DEF ByValue, ClassifyByValue, Named, ByItsValue
  <2>4. First => Remember(ByValue("text"), Blind).last = LastAt["state"]
    BY <2>2, <2>3 DEF Remember, LastAt
  <2> QED
    BY <2>1, <2>3, <2>4, FieldStep DEF Keys, LastAt, Unjoined
<1> QED
  BY <1>2, <1>3, <1>4

\* The lines of a connected adapter after its SSID.
LEMMA ConnectionNext ==
  ASSUME IInv, PrintConnection
  PROVE  IInv'
<1>1. PICK from, to, label, shape :
        /\ FieldLine(from, to, label, shape) /\ UNCHANGED <<adapter, joined>>
        /\ \/ from = {"ssid"} /\ to = "bssid" /\ label = "bssid" /\ shape = "mac"
           \/ from = {"bssid"} /\ to = "radio" /\ label = "radio" /\ shape = "radio"
           \/ from = {"radio"} /\ to = "cipher" /\ label = "cipher" /\ shape = "text"
           \/ from = {"cipher"} /\ to = "band" /\ label = "band" /\ shape = "band"
           \/ from = {"cipher", "band"} /\ to = "channel" /\ label = "channel" /\ shape = "integer"
           \/ from = {"channel"} /\ to = "receive" /\ label = "receive_rate" /\ shape \in {"integer", "decimal"}
           \/ from = {"receive"} /\ to = "transmit" /\ label = "transmit_rate" /\ shape \in {"integer", "decimal"}
           \/ from = {"transmit"} /\ to = "signal" /\ label = "signal" /\ shape = "percent"
           \/ from = {"signal"} /\ to = "profile" /\ label = "profile" /\ shape = "ssid"
  BY DEF PrintConnection
<1>2. command = "interfaces" /\ place \in from
  BY <1>1 DEF FieldLine
<1>3. FieldInv
  BY DEF IInv
<1>4. place \in Connected /\ to \in Connected /\ place # "start"
  BY <1>1, <1>2 DEF Connected
<1>5. joined # << >> /\ Blind.ssidSeen
  BY <1>2, <1>3, <1>4 DEF FieldInv, Joining, Blind
<1>6. First => Blind.last = LastAt[place]
  BY <1>1, <1>2, <1>3 DEF FieldInv, LastAt, Blind
<1>7. place \notin Unjoined /\ to \notin Unjoined
  BY <1>4 DEF Connected, Unjoined
<1>8. First => ByValue(shape) = Named(label)
  BY <1>1, <1>2, <1>5, <1>6 DEF ByValue, ClassifyByValue, Named, ByItsValue, LastAt
<1>9. First => Remember(Named(label), Blind).last = LastAt[to]
  BY <1>1, <1>2, <1>6 DEF Remember, Named, ByItsValue, LastAt
<1>10. label \in Keys \ {"ssid"} /\ to \in DOMAIN LastAt
  BY <1>1 DEF Keys, LastAt
<1> QED
  BY <1>1, <1>4, <1>5, <1>7, <1>8, <1>9, <1>10, FieldStep

\* The first line of an adapter.
LEMMA NameNext ==
  ASSUME IInv, PrintName
  PROVE  IInv'
<1>1. NTypeOK /\ FieldInv
  BY DEF IInv
<1>2. /\ FieldLine({"start", "state", "profile"}, "name", "name", "text")
      /\ adapter' = adapter + 1 /\ joined' = joined /\ "name" \in Keys
  BY DEF PrintName, Keys
<1>3. ByValue("text") = "none" /\ Named("name") = "none"
  BY DEF ByValue, ClassifyByValue, Named, ByItsValue
<1>4. /\ place' = "name" /\ command' = command /\ command = "interfaces"
      /\ key'["english"] = "name" /\ key'["blind"] = "none" /\ field'["blind"] = Blind
      /\ \A lang \in Languages : connected'[lang] =
           IF key'[lang] = "ssid" /\ connected[lang] = 0 THEN adapter ELSE connected[lang]
  <2>1. Remember("none", Blind) = Blind
    BY DEF Remember
  <2> QED
    BY <1>2, <1>3, <2>1, FieldFacts
<1>5. Joining'
  <2>1. adapter \in Nat /\ joined \in Seq(1 .. adapter)
    BY <1>1 DEF NTypeOK, FieldInv, Joining
  <2>2. joined \in Seq(1 .. (adapter + 1))
    BY <2>1
  <2>3. \A i \in DOMAIN joined : joined[i] # adapter + 1
    BY <2>1
  <2> QED
    BY <1>2, <1>4, <2>1, <2>2, <2>3 DEF Joining, Unjoined, Connected
<1>6. OwnNetworkBlind'
  BY <1>1, <1>2, <1>4 DEF FieldInv, OwnNetworkBlind, Languages
<1>7. field'["blind"].ssidSeen = (joined' # << >>)
  BY <1>1, <1>2, <1>4 DEF FieldInv, Blind
<1>8. place' \notin DOMAIN LastAt
  BY <1>4 DEF LastAt
<1>9. First' => key'["blind"] = IF key'["english"] \in ByItsValue THEN key'["english"] ELSE "none"
  BY <1>4 DEF ByItsValue
<1>10. FieldInv'
  BY <1>5, <1>6, <1>7, <1>8, <1>9 DEF FieldInv
<1>11. adapter' \in Nat
  BY <1>1, <1>2 DEF NTypeOK
<1> QED
  BY <1>2, <1>10, <1>11, FieldRest DEF IInv

\* The SSID line of a connected adapter: the first one is this PC's network,
\* the name in a later one is taken for a profile.
LEMMA SsidNext ==
  ASSUME IInv, PrintSsid
  PROVE  IInv'
<1>1. NTypeOK /\ FieldInv
  BY DEF IInv
<1>2. /\ FieldLine({"state"}, "ssid", "ssid", "ssid") /\ "ssid" \in Keys
      /\ joined' = Append(joined, adapter) /\ adapter' = adapter /\ place = "state"
  BY DEF PrintSsid, FieldLine, Keys
<1>3. /\ place' = "ssid" /\ command' = command /\ command = "interfaces"
      /\ key'["english"] = "ssid" /\ key'["blind"] = ByValue("ssid")
      /\ field'["blind"] = Remember(ByValue("ssid"), Blind)
      /\ \A lang \in Languages : connected'[lang] =
           IF key'[lang] = "ssid" /\ connected[lang] = 0 THEN adapter ELSE connected[lang]
  BY <1>2, FieldFacts
<1>4. /\ adapter \in Nat /\ adapter > 0 /\ joined \in Seq(1 .. adapter)
      /\ Blind.ssidSeen = (joined # << >>)
  BY <1>1, <1>2, <1>3 DEF NTypeOK, FieldInv, Joining, Blind
<1>5. ByValue("ssid") = IF joined = << >> THEN "ssid" ELSE "profile"
  BY <1>4 DEF ByValue, ClassifyByValue
<1>6. Append(joined, adapter) \in Seq(1 .. adapter) /\ Append(joined, adapter) # << >>
  <2>1. adapter \in 1 .. adapter
    BY <1>4
  <2>2. Append(joined, adapter) \in Seq(1 .. adapter)
    BY <1>4, <2>1
  <2>3. Len(Append(joined, adapter)) = Len(joined) + 1 /\ Len(joined) \in Nat
    BY <1>4
  <2> QED
    BY <2>2, <2>3
<1>7. Joining'
  BY <1>2, <1>3, <1>4, <1>6 DEF Joining, Unjoined, Connected
<1>8. field'["blind"].ssidSeen = (joined' # << >>)
  <2>1. ByValue("ssid") # "none"
    BY <1>5
  <2>2. field'["blind"].ssidSeen = (Blind.ssidSeen \/ ByValue("ssid") = "ssid")
    BY <1>3, <2>1 DEF Remember
  <2>3. Blind.ssidSeen \/ ByValue("ssid") = "ssid"
    BY <1>4, <1>5
  <2>4. joined' # << >>
    BY <1>2, <1>6
  <2> QED
    BY <2>2, <2>3, <2>4
<1>9. joined # << >> => ~First'
  <2>1. joined # << >> => Len(Append(joined, adapter)) > 1
    BY <1>4
  <2> QED
    BY <1>2, <1>6, <2>1 DEF First
<1>10. place' \in DOMAIN LastAt /\ First' => field'["blind"].last = LastAt[place']
  BY <1>3, <1>5, <1>9 DEF Remember, LastAt
<1>11. First' => key'["blind"] = IF key'["english"] \in ByItsValue THEN key'["english"] ELSE "none"
  BY <1>3, <1>5, <1>9 DEF ByItsValue
<1>12. joined'[1] = IF joined = << >> THEN adapter ELSE joined[1]
  BY <1>2, <1>4
<1>13. joined # << >> => joined[1] # 0
  BY <1>4
<1>14. \A lang \in Languages : connected[lang] = IF joined = << >> THEN 0 ELSE joined[1]
  BY <1>1 DEF FieldInv, OwnNetworkBlind
<1>15. joined' # << >>
  BY <1>2, <1>6
<1>16. \A lang \in Languages : connected'[lang] = joined'[1]
  BY <1>3, <1>5, <1>12, <1>13, <1>14 DEF Languages
<1>17. OwnNetworkBlind'
  BY <1>15, <1>16 DEF OwnNetworkBlind
<1>18. FieldInv'
  BY <1>7, <1>8, <1>10, <1>11, <1>17 DEF FieldInv
<1> QED
  BY <1>2, <1>4, <1>18, FieldRest DEF IInv

-----------------------------------------------------------------------------
LEMMA InitInv == NInit => IInv
<1> SUFFICES ASSUME NInit PROVE IInv
  OBVIOUS
<1>1. Unread \in Readings /\ Unread.depth = 0
  BY DEF Unread, Readings
<1>2. NTypeOK
  BY <1>1 DEF NInit, NTypeOK, Keys
<1>3. BssInv
  BY <1>1 DEF NInit, BssInv, Same, Before, BssPlaces
<1>4. place = "start" /\ joined = << >> /\ adapter = 0
  BY DEF NInit
<1>5. Joining
  <2>1. << >> \in Seq(1 .. 0) /\ DOMAIN << >> = {}
    OBVIOUS
  <2> QED
    BY <1>4, <2>1 DEF Joining, Unjoined, Connected
<1>6. field["blind"].ssidSeen = (joined # << >>)
  BY <1>4 DEF NInit, Languages
<1>7. OwnNetworkBlind
  BY <1>4 DEF NInit, OwnNetworkBlind
<1>8. place \notin DOMAIN LastAt
  BY <1>4 DEF LastAt
<1>9. key["blind"] = IF key["english"] \in ByItsValue THEN key["english"] ELSE "none"
  BY DEF NInit, ByItsValue, Languages
<1>10. FieldInv
  BY <1>5, <1>6, <1>7, <1>8, <1>9 DEF FieldInv
<1> QED
  BY <1>2, <1>3, <1>10 DEF IInv

LEMMA NextInv == IInv /\ [NNext]_nvars => IInv'
<1> SUFFICES ASSUME IInv, [NNext]_nvars PROVE IInv'
  OBVIOUS
<1>1. CASE PrintBssid
  BY <1>1, BssidNext
<1>2. CASE PrintSignal \/ PrintRadio \/ PrintBand \/ PrintChannel \/ PrintLoad \/ PrintNested \/ PrintRates
  BY <1>2, BssNext
<1>3. CASE PrintGuid \/ PrintAddress \/ PrintState
  BY <1>3, AdapterNext
<1>4. CASE PrintName
  BY <1>4, NameNext
<1>5. CASE PrintSsid
  BY <1>5, SsidNext
<1>6. CASE PrintConnection
  BY <1>6, ConnectionNext
<1>7. CASE UNCHANGED nvars
  BY <1>7 DEF IInv, NTypeOK, BssInv, Same, FieldInv, Joining, First, OwnNetworkBlind, nvars
<1> QED
  BY <1>1, <1>2, <1>3, <1>4, <1>5, <1>6, <1>7 DEF NNext

LEMMA Invariance == NSpec => []IInv
BY InitInv, NextInv, PTL DEF NSpec

\* For any percentages and numbers, both readers keep to the fields of a row and
\* to the keys of classify_by_value.
THEOREM TypeCorrect == NSpec => []NTypeOK
<1>1. IInv => NTypeOK
  BY DEF IInv
<1> QED
  BY <1>1, Invariance, PTL

\* The row of an access point says what netsh printed of it, in any language
\* (decode_wlan_bss).
THEOREM RowsArePrinted == NSpec => []RowIsPrinted
<1>1. IInv => RowIsPrinted
  BY DEF IInv, BssInv, Same, RowIsPrinted, Row
<1> QED
  BY <1>1, Invariance, PTL

\* Up to the end of the first connected adapter no line is given a wrong name
\* (classify_by_value).
THEOREM FirstConnectionNamed == NSpec => []FirstConnectionBlind
<1>1. IInv => FirstConnectionBlind
  <2> SUFFICES ASSUME IInv, Len(joined) = 0 \/ joined = <<adapter>>
               PROVE  First
    BY DEF FirstConnectionBlind, IInv, FieldInv
  <2>1. joined \in Seq(1 .. adapter)
    BY DEF IInv, FieldInv, Joining
  <2> QED
    BY <2>1 DEF First
<1> QED
  BY <1>1, Invariance, PTL

\* The first ssid row of netsh_fields is the first connected adapter's, however
\* many adapters are listed (decode_netsh_fields, analyze_radios).
THEOREM OwnNetworkKnown == NSpec => []OwnNetworkBlind
<1>1. IInv => OwnNetworkBlind
  BY DEF IInv, FieldInv
<1> QED
  BY <1>1, Invariance, PTL

\* Both together: a PC whose labels are unknown is read as one whose labels are known,
\* as far as its connection goes.
THEOREM ConnectionRead == NSpec => []ConnectionKnown
BY FirstConnectionNamed, OwnNetworkKnown, PTL DEF ConnectionKnown

-----------------------------------------------------------------------------
(* xperf's report.  The reader follows it line by line; a line it could not *)
(* read can lose it, but then some check of a section fails at the end.       *)

\* What a section of the reader has, and what a reader is.
Field == {"span", "rows", "intervals", "total", "totals", "equal"}

IsReader(s) ==
  /\ s = [mode |-> s.mode, into |-> s.into, kind |-> s.kind, sections |-> s.sections]
  /\ s.sections = [k \in DOMAIN s.sections |-> s.sections[k]]
  /\ DOMAIN s.sections \subseteq Kind
  /\ \A k \in DOMAIN s.sections :
       s.sections[k] = [f \in Field |-> s.sections[k][f]] /\ s.sections[k].span \in BOOLEAN

\* The table of section k was read, as far as its first line was.
TableRead(k) == scan.sections[k].span => scan.sections[k].rows = shown[k]

\* Nothing was printed, or no heading yet.
Unheaded ==
  /\ at = "start" /\ section = Nothing
  /\ scan.mode = "scan" /\ scan.kind = Nothing /\ scan.sections = << >>

\* The reader is in the section being printed, and in step with it, ...
InStep ==
  LET c == scan.sections[section]
      In(mode, into, places) == scan.mode = mode /\ scan.into = into /\ at \in places
  IN  \/ /\ scan.mode = "scan" /\ TableRead(section)
         /\ at \in {"heading", "span", "cpus", "rows"} => ~c.span
         /\ at = "heading" => c.rows = {}
      \/ In("seek", "module", {"span"}) /\ c.rows = {}
      \/ In("legend", "module", {"cpus"}) /\ c.rows = {}
      \/ In("rows", "module", {"rows"}) /\ c.rows = shown[section]
      \/ TableRead(section) /\ In("seek", "interval", {"interval"})
      \/ TableRead(section) /\ In("legend", "interval", {"icpus"})
      \/ TableRead(section) /\ In("rows", "interval", {"irows", "irow"})

\* ... or seeks the header of its intervals, which was unreadable, ...
IntervalsLost ==
  /\ damaged /\ TableRead(section)
  /\ scan.mode = "seek" /\ scan.into = "interval" /\ at \in {"icpus", "irows", "irow", "end"}

\* ... or has the table of modules still to come, its header having been unreadable.
TableLost ==
  /\ damaged /\ scan.into = "module" /\ scan.sections[section].total = Nothing
  /\ \/ scan.mode = "seek" /\ at \in {"cpus", "rows", "tail", "total", "equal", "interval"}
     \/ scan.mode = "legend" /\ at = "icpus"
     \/ scan.mode = "rows" /\ at = "irows"
     \/ scan.mode = "scan" /\ at = "end"

Followed ==
  /\ section \in Kind /\ scan.kind = section /\ section \in DOMAIN scan.sections
  /\ at \in {"heading", "span", "cpus"} => shown[section] = {}
  /\ InStep \/ IntervalsLost \/ TableLost

\* The heading of the interrupts was passed over, in search of the header of intervals:
\* no interrupt may follow.
PassedOver ==
  LET In(mode, places) == scan.mode = mode /\ scan.into = "interval" /\ at \in places
  IN  /\ section = "isr" /\ scan.kind = "dpc" /\ damaged
      /\ DOMAIN scan.sections = {"dpc"} /\ shown["isr"] = {} /\ TableRead("dpc")
      /\ \/ In("seek", {"heading", "span", "interval"})
         \/ In("legend", {"cpus", "icpus"})
         \/ In("rows", {"rows", "irows", "irow"})
         \/ scan.mode = "scan" /\ at \in {"tail", "total", "equal", "end"}

\* A section with a total has the table of modules xperf printed, and the totals of
\* modules are the trace's.
Faithful(k) ==
  LET c == scan.sections[k]
  IN  /\ c.totals = [m \in DOMAIN c.totals |-> counted[k][m]]
      /\ c.span /\ c.total # Nothing => c.rows = shown[k]

Reading ==
  /\ IsReader(scan)
  /\ \A k \in DOMAIN scan.sections : Faithful(k)
  /\ section = "dpc" => DOMAIN scan.sections = {"dpc"}
  /\ section = "isr" => "dpc" \in DOMAIN scan.sections
  /\ Unheaded \/ Followed \/ PassedOver

DInv ==
  /\ section \in Kind \union {Nothing}
  /\ shown \in [Kind -> SUBSET Module]
  /\ section # "isr" => shown["isr"] = {}
  /\ section = Nothing => shown["dpc"] = {}
  /\ scan.mode # "error" => Reading
  /\ ObservedIsWhole

-----------------------------------------------------------------------------
(* What a line does to the reader.                                         *)

\* t has of section k what s has, but for field f, which is v.
Given(s, t, k, f, v) ==
  \A g \in {"span", "rows", "total", "totals"} :
    t.sections[k][g] = IF g = f THEN v ELSE s.sections[k][g]

\* ... and of the other sections all it has; it stands where s does.
Stands(s, t) ==
  /\ IsReader(t) /\ t.kind = s.kind /\ DOMAIN t.sections = DOMAIN s.sections
  /\ \A k \in DOMAIN s.sections : k # s.kind => t.sections[k] = s.sections[k]

\* A field of the section being read is given a value.
LEMMA PutIs ==
  ASSUME NEW s, IsReader(s), s.kind \in DOMAIN s.sections, NEW f \in Field, NEW v,
         f = "span" => v \in BOOLEAN,
         NEW t, t = Put(s, f, v)
  PROVE  Stands(s, t) /\ Given(s, t, s.kind, f, v) /\ t.mode = s.mode /\ t.into = s.into
<1> DEFINE c == s.sections[s.kind]
           d == [c EXCEPT ![f] = v]
           sections == [s.sections EXCEPT ![s.kind] = d]
<1>1. c = [g \in Field |-> c[g]]
  BY DEF IsReader
<1>2. d = [g \in Field |-> d[g]] /\ \A g \in Field : d[g] = IF g = f THEN v ELSE c[g]
  BY <1>1
<1>3. t = [mode |-> s.mode, into |-> s.into, kind |-> s.kind, sections |-> sections]
  <2>1. s = [mode |-> s.mode, into |-> s.into, kind |-> s.kind, sections |-> s.sections]
    BY DEF IsReader
  <2> QED
    BY <2>1 DEF Put
<1> HIDE DEF d
<1>4. /\ DOMAIN sections = DOMAIN s.sections
      /\ sections = [k \in DOMAIN s.sections |-> sections[k]]
      /\ sections[s.kind] = d
      /\ \A k \in DOMAIN s.sections : k # s.kind => sections[k] = s.sections[k]
  BY DEF IsReader
<1> HIDE DEF sections
<1>5. t.mode = s.mode /\ t.into = s.into /\ t.kind = s.kind /\ t.sections = sections
  BY <1>3
<1>6. d.span \in BOOLEAN
  BY <1>2 DEF Field, IsReader
<1>7. IsReader(t)
  BY <1>2, <1>3, <1>4, <1>5, <1>6 DEF IsReader
<1>8. Given(s, t, s.kind, f, v)
  BY <1>2, <1>4, <1>5 DEF Given, Field
<1> QED
  BY <1>4, <1>5, <1>7, <1>8 DEF Stands

\* A line other than a heading, of a report whose heading was read: where the reader
\* goes, and what it learns.
Moves(s, t, l) ==
  /\ s.mode = "scan" =>
       IF l.is = "span" THEN t.mode = "seek" /\ t.into = "module"
       ELSE IF l.is = "interval" THEN t.mode = "seek" /\ t.into = "interval"
       ELSE t.mode = "scan" /\ t.into = s.into
  /\ s.mode # "scan" => t.into = s.into
  /\ s.mode = "seek" => t.mode = IF l.is = "cpus" THEN "legend" ELSE "seek"
  /\ s.mode = "legend" => t.mode = "rows"
  /\ s.mode = "rows" /\ l.is = "blank" => t.mode = "scan"
  /\ s.mode = "rows" /\ l.is # "blank" =>
       /\ t.mode = "rows"
       /\ \/ l.is = "row" /\ s.into = "module"
          \/ l.is = "cells" /\ s.into = "interval"

Learns(s, t, l) ==
  LET c == s.sections[s.kind]
  IN  IF s.mode = "scan" /\ l.is = "span" THEN Given(s, t, s.kind, "span", TRUE)
      ELSE IF s.mode = "scan" /\ l.is = "count"
           THEN Given(s, t, s.kind, "totals", With(c.totals, l.module, l.n))
      ELSE IF s.mode = "scan" /\ l.is = "total"
           THEN Given(s, t, s.kind, "total", IF c.total = Nothing THEN l.n ELSE c.total)
      ELSE IF s.mode = "rows" /\ l.is = "row"
           THEN Given(s, t, s.kind, "rows", c.rows \union {l.module})
      ELSE Given(s, t, s.kind, "rows", c.rows)

\* A step that only moves the reader.
LEMMA Unmoved ==
  ASSUME NEW s, IsReader(s), s.kind \in DOMAIN s.sections, NEW mode, NEW into,
         NEW t, t = [mode |-> mode, into |-> into, kind |-> s.kind, sections |-> s.sections]
  PROVE  Stands(s, t) /\ Given(s, t, s.kind, "rows", s.sections[s.kind].rows)
<1>1. t.kind = s.kind /\ t.sections = s.sections /\ t.mode = mode /\ t.into = into
  OBVIOUS
<1> QED
  BY <1>1 DEF Stands, Given, IsReader

\* What a line does to a reader that does not fail of it.
LEMMA ReadIs ==
  ASSUME NEW s, IsReader(s), s.kind \in DOMAIN s.sections, s.kind # Nothing,
         s.mode \in {"scan", "seek", "legend", "rows"},
         NEW l, l.is # "heading",
         NEW t, t = ReadLine(s, l), t.mode # "error"
  PROVE  Stands(s, t) /\ Moves(s, t, l) /\ Learns(s, t, l)
<1> DEFINE c == s.sections[s.kind]
           To(mode, into) == [mode |-> mode, into |-> into, kind |-> s.kind, sections |-> s.sections]
<1>1. /\ s = To(s.mode, s.into)
      /\ \A m : [s EXCEPT !.mode = m] = To(m, s.into)
      /\ \A into : Seek(s, into) = To("seek", into)
  <2>1. s = To(s.mode, s.into)
    BY DEF IsReader
  <2>2. ASSUME NEW into PROVE Seek(s, into) = To("seek", into)
    <3> DEFINE r == [s EXCEPT !.into = into]
    <3>1. r = To(s.mode, into)
      BY <2>1
    <3>2. Seek(s, into) = [r EXCEPT !.mode = "seek"]
      BY DEF Seek
    <3> HIDE DEF r
    <3> QED
      BY <3>1, <3>2
  <2> QED
    BY <2>1, <2>2
<1>2. \A m, n : /\ Stands(s, To(m, n)) /\ Given(s, To(m, n), s.kind, "rows", c.rows)
               /\ To(m, n).mode = m /\ To(m, n).into = n
  BY Unmoved
<1> HIDE DEF To
<1>3. CASE s.mode = "scan"
  <2>1. t = ScanLine(s, l)
    BY <1>3 DEF ReadLine
  <2>2. CASE l.is = "span"
    <3> DEFINE u == Put(s, "span", TRUE)
    <3>1. Stands(s, u) /\ Given(s, u, s.kind, "span", TRUE)
      BY PutIs DEF Field
    <3>2. t = Seek(u, "module")
      BY <2>1, <2>2 DEF ScanLine
    <3> HIDE DEF u
    <3>3. t = [mode |-> "seek", into |-> "module", kind |-> u.kind, sections |-> u.sections]
      BY <3>1, <3>2 DEF Stands, IsReader, Seek
    <3>4. t.mode = "seek" /\ t.into = "module" /\ t.kind = u.kind /\ t.sections = u.sections
      BY <3>3
    <3>5. IsReader(t)
      <4>1. IsReader(u) /\ u.kind \in DOMAIN u.sections
        BY <3>1 DEF Stands
      <4> QED
        BY <3>3, <4>1, Unmoved DEF Stands
    <3>6. Stands(s, t) /\ Given(s, t, s.kind, "span", TRUE)
      BY <3>1, <3>4, <3>5 DEF Stands, Given
    <3> QED
      BY <1>3, <2>2, <3>4, <3>6 DEF Moves, Learns
  <2>3. CASE l.is = "interval"
    <3>1. t = To("seek", "interval")
      BY <1>1, <2>1, <2>3 DEF ScanLine
    <3> QED
      BY <1>2, <1>3, <2>3, <3>1 DEF Moves, Learns
  <2>4. CASE l.is = "count"
    <3>1. t = Put(s, "totals", With(c.totals, l.module, l.n))
      BY <2>1, <2>4 DEF ScanLine, Current
    <3>2. Stands(s, t) /\ Given(s, t, s.kind, "totals", With(c.totals, l.module, l.n))
          /\ t.mode = s.mode /\ t.into = s.into
      BY <3>1, PutIs DEF Field
    <3> QED
      BY <1>3, <2>4, <3>2 DEF Moves, Learns
  <2>5. CASE l.is = "total"
    <3>1. CASE c.total = Nothing
      <4>1. t = Put(s, "total", l.n)
        BY <2>1, <2>5, <3>1 DEF ScanLine, Current
      <4>2. Stands(s, t) /\ Given(s, t, s.kind, "total", l.n) /\ t.mode = s.mode /\ t.into = s.into
        BY <4>1, PutIs DEF Field
      <4> QED
        BY <1>3, <2>5, <3>1, <4>2 DEF Moves, Learns
    <3>2. CASE c.total # Nothing
      <4>1. t = s
        BY <2>1, <2>5, <3>2 DEF ScanLine, Current
      <4>2. Given(s, t, s.kind, "total", c.total)
        BY <4>1 DEF Given
      <4> QED
        BY <1>1, <1>2, <1>3, <2>5, <3>2, <4>1, <4>2 DEF Moves, Learns
    <3> QED
      BY <3>1, <3>2
  <2>6. CASE l.is = "equal"
    <3>1. t = Put(s, "equal", l.ok)
      BY <2>1, <2>6 DEF ScanLine, Current
    <3>2. Stands(s, t) /\ Given(s, t, s.kind, "equal", l.ok) /\ t.mode = s.mode /\ t.into = s.into
      BY <3>1, PutIs DEF Field
    <3>3. Given(s, t, s.kind, "rows", c.rows)
      BY <3>2 DEF Given
    <3> QED
      BY <1>3, <2>6, <3>2, <3>3 DEF Moves, Learns
  <2>7. CASE l.is \notin {"span", "interval", "count", "total", "equal"}
    <3>1. t = s
      BY <2>1, <2>7 DEF ScanLine
    <3>2. t.mode = "scan" /\ t.into = s.into /\ Stands(s, t) /\ Given(s, t, s.kind, "rows", c.rows)
      BY <1>1, <1>2, <1>3, <3>1
    <3> QED
      BY <1>3, <2>7, <3>2 DEF Moves, Learns
  <2> QED
    BY <2>2, <2>3, <2>4, <2>5, <2>6, <2>7
<1>4. CASE s.mode \in {"seek", "legend"}
  <2> DEFINE m == IF s.mode = "legend" THEN "rows" ELSE IF l.is = "cpus" THEN "legend" ELSE "seek"
  <2>1. t = To(m, s.into)
    BY <1>1, <1>4 DEF ReadLine
  <2>2. t.mode = m /\ t.into = s.into /\ Stands(s, t) /\ Given(s, t, s.kind, "rows", c.rows)
    BY <1>2, <2>1
  <2> QED
    BY <1>4, <2>2 DEF Moves, Learns
<1>5. CASE s.mode = "rows"
  <2>1. t = RowLine(s, l)
    BY <1>5 DEF ReadLine
  <2>2. CASE l.is = "blank"
    <3>1. t = To("scan", s.into)
      BY <1>1, <2>1, <2>2 DEF RowLine
    <3> QED
      BY <1>2, <1>5, <2>2, <3>1 DEF Moves, Learns
  <2>3. CASE l.is = "row" /\ s.into = "module"
    <3>1. t = Put(s, "rows", c.rows \union {l.module})
      BY <2>1, <2>3 DEF RowLine, Current
    <3>2. Stands(s, t) /\ Given(s, t, s.kind, "rows", c.rows \union {l.module}) /\ t.mode = s.mode /\ t.into = s.into
      BY <3>1, PutIs DEF Field
    <3> QED
      BY <1>5, <2>3, <3>2 DEF Moves, Learns
  <2>4. CASE l.is = "cells" /\ s.into = "interval"
    <3>1. t = Put(s, "intervals", c.intervals + 1)
      BY <2>1, <2>4 DEF RowLine, Current
    <3>2. Stands(s, t) /\ Given(s, t, s.kind, "intervals", c.intervals + 1) /\ t.mode = s.mode /\ t.into = s.into
      BY <3>1, PutIs DEF Field
    <3>3. Given(s, t, s.kind, "rows", c.rows)
      BY <3>2 DEF Given
    <3> QED
      BY <1>5, <2>4, <3>2, <3>3 DEF Moves, Learns
  <2>5. CASE ~(l.is = "blank" \/ (l.is = "row" /\ s.into = "module") \/ (l.is = "cells" /\ s.into = "interval"))
    <3>1. t = To("error", s.into)
      BY <1>1, <2>1, <2>5 DEF RowLine, Failed
    <3> QED
      BY <1>2, <3>1
  <2> QED
    BY <2>2, <2>3, <2>4, <2>5
<1> QED
  BY <1>3, <1>4, <1>5

-----------------------------------------------------------------------------
(* The lines of the report.                                                *)

\* No section is without a name.
LEMMA NothingIs == Nothing # "dpc" /\ Nothing # "isr"
  BY NothingAssumption DEF Kind

\* A reader that does not fail was at work, whatever line is printed.
LEMMA ReadingModes ==
  ASSUME Reading, section \in Kind
  PROVE  /\ scan.mode \in {"scan", "seek", "legend", "rows"}
         /\ scan.kind \in DOMAIN scan.sections /\ scan.kind # Nothing
<1>1. section # Nothing
  BY NothingIs DEF Kind
<1>2. CASE Followed
  BY <1>1, <1>2 DEF Followed, InStep, IntervalsLost, TableLost
<1>3. CASE PassedOver
  BY <1>3, NothingIs DEF PassedOver
<1> QED
  BY <1>1, <1>2, <1>3 DEF Reading, Unheaded

\* The line that is read, and what the reader makes of it.
Read(l) ==
  Stands(scan, scan') /\ Moves(scan, scan', l) /\ Learns(scan, scan', l)

LEMMA ShowIs ==
  ASSUME DInv, section \in Kind, NEW to, NEW l, l.is # "heading", Show(to, l), scan'.mode # "error"
  PROVE  /\ Reading /\ table = Nothing /\ at' = to /\ UNCHANGED <<counted, table>>
         /\ \E said : /\ Read(said)
                      /\ \/ said = l /\ damaged' = damaged
                         \/ said.is = "noise" /\ ~damaged /\ damaged'
<1>1. PICK said : /\ scan' = ReadLine(scan, said) /\ said.is # "heading"
                  /\ \/ said = l /\ damaged' = damaged
                     \/ said.is = "noise" /\ ~damaged /\ damaged'
  <2>1. [is |-> "noise"].is = "noise"
    OBVIOUS
  <2> QED
    BY <2>1 DEF Show
<1>2. scan.mode # "error"
  BY <1>1 DEF ReadLine
<1>3. Reading
  BY <1>2 DEF DInv
<1>4. Read(said)
  BY <1>1, <1>3, ReadIs, ReadingModes DEF Reading, Read
<1> QED
  BY <1>1, <1>3, <1>4 DEF Show

\* What is known of modules and totals stays as it was, in every section.
Untold ==
  /\ IsReader(scan') /\ scan'.kind = scan.kind /\ DOMAIN scan'.sections = DOMAIN scan.sections
  /\ \A k \in DOMAIN scan.sections :
       /\ Faithful(k)' /\ TableRead(k)' = TableRead(k)
       /\ scan'.sections[k].span = scan.sections[k].span
       /\ scan'.sections[k].rows = scan.sections[k].rows
       /\ scan'.sections[k].total = scan.sections[k].total

\* A line that tells nothing of them.
LEMMA UntoldIs ==
  ASSUME Reading, section \in Kind, NEW l, Read(l), UNCHANGED <<counted, shown>>,
         ~(l.is = "span" /\ scan.mode = "scan"), l.is \notin {"count", "total", "row"}
  PROVE  Untold
<1>1. Stands(scan, scan') /\ Given(scan, scan', scan.kind, "rows", scan.sections[scan.kind].rows)
  BY DEF Read, Learns
<1>2. \A k \in DOMAIN scan.sections :
         /\ scan'.sections[k].span = scan.sections[k].span
         /\ scan'.sections[k].rows = scan.sections[k].rows
         /\ scan'.sections[k].total = scan.sections[k].total
         /\ scan'.sections[k].totals = scan.sections[k].totals
  BY <1>1 DEF Stands, Given
<1>3. \A k \in DOMAIN scan.sections : Faithful(k)
  BY DEF Reading
<1>4. \A k \in DOMAIN scan.sections : Faithful(k)'
  BY <1>2, <1>3 DEF Faithful
<1>5. \A k \in DOMAIN scan.sections : TableRead(k)' = TableRead(k)
  BY <1>2 DEF TableRead
<1> QED
  BY <1>1, <1>2, <1>4, <1>5 DEF Stands, Untold

\* The line of a mark, or what was unreadable of it, leads from a place to the next.
Marks(l, from, to, said) ==
  /\ at = from /\ at' = to
  /\ \/ l.is = said /\ damaged' = damaged
     \/ l.is = "noise" /\ ~damaged /\ damaged'

AnyMark(l) ==
  \/ Marks(l, "heading", "span", "span")
  \/ Marks(l, "span", "cpus", "cpus")
  \/ Marks(l, "cpus", "rows", "legend")
  \/ Marks(l, "rows", "tail", "blank")
  \/ Marks(l, "equal", "interval", "interval")
  \/ Marks(l, "interval", "icpus", "cpus")
  \/ Marks(l, "icpus", "irows", "legend")
  \/ Marks(l, "irows", "irow", "cells")
  \/ Marks(l, "irows", "end", "blank")
  \/ Marks(l, "irow", "end", "blank")
  \/ Marks(l, "end", "end", "distribution")

LEMMA MarkIs ==
  ASSUME DInv, section \in Kind, PrintMark, scan'.mode # "error"
  PROVE  /\ Reading /\ UNCHANGED <<counted, shown, section>>
         /\ \E l : Read(l) /\ AnyMark(l) /\ l.is \notin {"count", "total", "row"}
<1>1. PICK mark \in Mark : at = mark[1] /\ Show(mark[2], [is |-> mark[3]])
  BY DEF PrintMark
<1> DEFINE line == [is |-> mark[3]]
<1>2. line.is = mark[3] /\ mark[3] # "heading"
  BY DEF Mark
<1> HIDE DEF line
<1>3. Show(mark[2], line)
  BY <1>1 DEF line
<1>4. /\ Reading /\ at' = mark[2] /\ UNCHANGED counted
      /\ \E l : /\ Read(l)
                /\ \/ l = line /\ damaged' = damaged
                   \/ l.is = "noise" /\ ~damaged /\ damaged'
  BY <1>2, <1>3, ShowIs
<1>5. PICK l : /\ Read(l)
               /\ \/ l = line /\ damaged' = damaged
                  \/ l.is = "noise" /\ ~damaged /\ damaged'
  BY <1>4
<1>6. Marks(l, mark[1], mark[2], mark[3])
  BY <1>1, <1>2, <1>4, <1>5 DEF Marks
<1>7. l.is \notin {"count", "total", "row"}
  BY <1>2, <1>5 DEF Mark
<1>8. AnyMark(l)
  BY <1>6 DEF Mark, AnyMark
<1> QED
  BY <1>4, <1>5, <1>7, <1>8 DEF PrintMark

\* A line that only marks a place.
LEMMA MarkNext ==
  ASSUME DInv, section \in Kind, PrintMark, scan'.mode # "error"
  PROVE  Reading'
<1>1. Reading /\ UNCHANGED <<counted, shown, section>>
  BY MarkIs
<1>2. PICK l : Read(l) /\ AnyMark(l) /\ l.is \notin {"count", "total", "row"}
  BY MarkIs
<1>3. scan.kind \in DOMAIN scan.sections /\ scan.mode \in {"scan", "seek", "legend", "rows"}
  BY <1>1, ReadingModes
<1>4. CASE l.is = "span" /\ scan.mode = "scan"
  <2>1. at = "heading" /\ at' = "span"
    BY <1>2, <1>4 DEF AnyMark, Marks
  <2>2. Followed /\ shown[section] = {}
    BY <1>1, <1>4, <2>1 DEF Reading, Unheaded, Followed, PassedOver
  <2>3. Stands(scan, scan') /\ Given(scan, scan', section, "span", TRUE)
    BY <1>2, <1>4, <2>2 DEF Read, Learns, Followed
  <2>4. scan'.mode = "seek" /\ scan'.into = "module"
    BY <1>2, <1>4 DEF Read, Moves
  <2>5. scan.sections[section].rows = {}
    BY <1>4, <2>1, <2>2 DEF Followed, InStep, IntervalsLost, TableLost
  <2>6. /\ scan'.kind = section /\ section' = section /\ section \in Kind
        /\ section \in DOMAIN scan.sections /\ DOMAIN scan'.sections = DOMAIN scan.sections
        /\ shown'[section] = {} /\ IsReader(scan')
    BY <1>1, <2>2, <2>3 DEF Stands, Followed
  <2>7. scan'.sections[section].rows = {}
    BY <2>3, <2>5 DEF Given
  <2>8. Followed'
    BY <2>1, <2>4, <2>6, <2>7 DEF Followed, InStep
  <2>9. ASSUME NEW k \in DOMAIN scan.sections PROVE Faithful(k)'
    <3>1. Faithful(k)
      BY <1>1 DEF Reading
    <3>2. CASE k = section
      <4>1. scan'.sections[k].totals = scan.sections[k].totals
        BY <2>3, <3>2 DEF Given
      <4> QED
        BY <1>1, <2>6, <2>7, <3>1, <3>2, <4>1 DEF Faithful
    <3>3. CASE k # section
      <4>1. scan'.sections[k] = scan.sections[k]
        BY <2>2, <2>3, <3>3 DEF Stands, Followed
      <4> QED
        BY <1>1, <3>1, <4>1 DEF Faithful
    <3> QED
      BY <3>2, <3>3
  <2> QED
    BY <1>1, <2>6, <2>8, <2>9 DEF Reading
<1>5. CASE ~(l.is = "span" /\ scan.mode = "scan")
  <2>1. Untold
    BY <1>1, <1>2, <1>5, UntoldIs
  <2>2. Moves(scan, scan', l)
    BY <1>2 DEF Read
  <2>3. ASSUME Followed PROVE Followed'
    <3>1. /\ section' = section /\ shown' = shown /\ scan'.kind = section /\ section \in DOMAIN scan'.sections
          /\ scan'.sections[section].span = scan.sections[section].span
          /\ scan'.sections[section].rows = scan.sections[section].rows
          /\ scan'.sections[section].total = scan.sections[section].total
          /\ TableRead(section)' = TableRead(section)
          /\ section \in Kind
      BY <1>1, <2>1, <2>3 DEF Untold, Followed
    <3>2. ASSUME InStep PROVE Followed'
      <4> DEFINE c == scan.sections[section]
      <4>1. CASE scan.mode = "scan" /\ TableRead(section)
        BY <1>2, <1>5, <2>2, <2>3, <3>1, <3>2, <4>1 DEF AnyMark, Marks, Moves, Followed, InStep
      <4>2. CASE at \in {"span", "cpus", "rows"} /\ scan.mode # "scan"
        BY <1>2, <1>5, <2>2, <2>3, <3>1, <3>2, <4>2 DEF AnyMark, Marks, Moves, Followed, InStep, TableLost, TableRead
      <4>3. CASE TableRead(section) /\ at \in {"interval", "icpus", "irows", "irow"} /\ scan.mode # "scan"
        BY <1>2, <1>5, <2>2, <2>3, <3>1, <3>2, <4>3 DEF AnyMark, Marks, Moves, Followed, InStep, IntervalsLost
      <4> QED
        BY <3>2, <4>1, <4>2, <4>3 DEF InStep
    <3>3. ASSUME IntervalsLost PROVE Followed'
      BY <1>2, <1>5, <2>2, <2>3, <3>1, <3>3 DEF AnyMark, Marks, Moves, Followed, InStep, IntervalsLost
    <3>4. ASSUME TableLost PROVE Followed'
      BY <1>2, <1>5, <2>2, <2>3, <3>1, <3>4 DEF AnyMark, Marks, Moves, Followed, InStep, TableLost
    <3> QED
      BY <2>3, <3>2, <3>3, <3>4 DEF Followed
  <2>4. ASSUME PassedOver PROVE PassedOver'
    BY <1>1, <1>2, <1>5, <2>1, <2>2, <2>4 DEF AnyMark, Marks, PassedOver, Moves, Untold
  <2>5. section \in {"dpc", "isr"} /\ section # Nothing
    BY NothingIs DEF Kind
  <2>6. Followed' \/ PassedOver'
    BY <1>1, <2>3, <2>4, <2>5 DEF Reading, Unheaded
  <2>7. DOMAIN scan'.sections = DOMAIN scan.sections /\ section' = section
    BY <1>1, <2>1 DEF Untold
  <2>8. IsReader(scan') /\ \A k \in DOMAIN scan'.sections : Faithful(k)'
    BY <2>1 DEF Untold
  <2> QED
    BY <1>1, <2>6, <2>7, <2>8 DEF Reading
<1> QED
  BY <1>4, <1>5

\* A module of the table.
LEMMA RowNext ==
  ASSUME DInv, section \in Kind, NEW m \in Module, PrintRow(m), scan'.mode # "error"
  PROVE  Reading'
<1> DEFINE line == [is |-> "row", module |-> m]
<1>1. line.is = "row" /\ line.is # "heading" /\ line.module = m
  OBVIOUS
<1>2. at = "rows" /\ section' = section /\ Show("rows", line)
      /\ shown' = [shown EXCEPT ![section] = @ \union {m}]
  BY DEF PrintRow
<1> HIDE DEF line
<1>3. /\ Reading /\ at' = "rows" /\ UNCHANGED counted
      /\ \E l : /\ Read(l)
                /\ \/ l = line /\ damaged' = damaged
                   \/ l.is = "noise" /\ ~damaged /\ damaged'
  BY <1>1, <1>2, ShowIs
<1>4. PICK l : /\ Read(l)
               /\ \/ l = line /\ damaged' = damaged
                  \/ l.is = "noise" /\ ~damaged /\ damaged'
  BY <1>3
<1> DEFINE c == scan.sections[section]
<1>5. /\ shown'[section] = shown[section] \union {m}
      /\ \A k \in Kind : k # section => shown'[k] = shown[k]
  BY <1>2 DEF DInv
<1>6. Stands(scan, scan') /\ Moves(scan, scan', l) /\ l.is \in {"row", "noise"}
  BY <1>1, <1>4 DEF Read
<1>7. Followed
  BY <1>2, <1>3, <1>6 DEF Reading, Unheaded, PassedOver, Moves
<1>8. /\ scan.kind = section /\ section \in DOMAIN scan.sections
      /\ scan'.kind = section /\ DOMAIN scan'.sections = DOMAIN scan.sections /\ IsReader(scan')
  BY <1>6, <1>7 DEF Followed, Stands
<1>9. ASSUME scan.mode = "rows"
      PROVE  /\ scan'.mode = "rows" /\ scan'.into = "module" /\ l = line
             /\ Given(scan, scan', section, "rows", c.rows \union {m}) /\ c.rows = shown[section]
  <2>1. scan'.mode = "rows" /\ l = line /\ scan.into = "module"
    BY <1>1, <1>4, <1>6, <1>9 DEF Moves
  <2>2. Given(scan, scan', section, "rows", c.rows \union {m})
    BY <1>1, <1>4, <1>8, <1>9, <2>1 DEF Read, Learns
  <2>3. c.rows = shown[section]
    BY <1>2, <1>7, <1>9 DEF Followed, InStep, IntervalsLost, TableLost
  <2> QED
    BY <1>6, <1>9, <2>1, <2>2, <2>3 DEF Moves
<1>10. ASSUME scan.mode # "rows"
       PROVE  /\ Given(scan, scan', section, "rows", c.rows) /\ scan'.mode = scan.mode /\ scan'.into = scan.into
              /\ \/ scan.mode = "scan" /\ ~c.span
                 \/ scan.mode = "seek" /\ scan.into = "module" /\ damaged /\ damaged' /\ c.total = Nothing
  <2>1. \/ scan.mode = "scan" /\ ~c.span
        \/ scan.mode = "seek" /\ scan.into = "module" /\ damaged /\ c.total = Nothing
    BY <1>2, <1>7, <1>10 DEF Followed, InStep, IntervalsLost, TableLost
  <2>2. Given(scan, scan', section, "rows", c.rows)
    BY <1>4, <1>6, <1>8, <1>10 DEF Read, Learns
  <2>3. scan'.mode = scan.mode /\ scan'.into = scan.into
    BY <1>6, <2>1 DEF Moves
  <2> QED
    BY <1>4, <2>1, <2>2, <2>3
<1>11. Followed'
  <2>1. CASE scan.mode = "rows"
    <3>1. scan'.sections[section].rows = shown'[section]
      BY <1>5, <1>9, <2>1 DEF Given
    <3> QED
      BY <1>2, <1>3, <1>8, <1>9, <2>1, <3>1 DEF Followed, InStep
  <2>2. CASE scan.mode # "rows"
    <3>1. /\ scan'.sections[section].span = c.span
          /\ scan'.sections[section].total = c.total
      BY <1>10, <2>2 DEF Given
    <3> QED
      BY <1>2, <1>3, <1>8, <1>10, <2>2, <3>1 DEF Followed, InStep, TableLost, TableRead
  <2> QED
    BY <2>1, <2>2
<1>12. ASSUME NEW k \in DOMAIN scan.sections PROVE Faithful(k)'
  <2>1. Faithful(k) /\ k \in Kind
    BY <1>3 DEF Reading, IsReader
  <2>2. CASE k # section
    <3>1. scan'.sections[k] = scan.sections[k]
      BY <1>6, <1>8, <2>2 DEF Stands
    <3> QED
      BY <1>3, <1>5, <2>1, <2>2, <3>1 DEF Faithful
  <2>3. CASE k = section /\ scan.mode = "rows"
    <3>1. /\ scan'.sections[k].totals = scan.sections[k].totals
          /\ scan'.sections[k].rows = shown'[k]
      BY <1>5, <1>9, <2>3 DEF Given
    <3> QED
      BY <1>3, <2>1, <3>1 DEF Faithful
  <2>4. CASE k = section /\ scan.mode # "rows"
    <3>1. /\ scan'.sections[k].totals = scan.sections[k].totals
          /\ ~ (scan'.sections[k].span /\ scan'.sections[k].total # Nothing)
      BY <1>10, <2>4 DEF Given
    <3> QED
      BY <1>3, <2>1, <3>1 DEF Faithful
  <2> QED
    BY <2>2, <2>3, <2>4
<1> QED
  BY <1>2, <1>3, <1>8, <1>11, <1>12 DEF Reading

\* A line of a section's sums: the reader stands between tables, or seeks one.
LEMMA SumNext ==
  ASSUME DInv, section \in Kind, at \in {"tail", "total"}, at' \in {"total", "equal"},
         NEW l, Read(l), Reading, l.is \in {"total", "count", "equal", "noise"},
         damaged => damaged', UNCHANGED <<counted, shown, section>>,
         \A k \in DOMAIN scan.sections : Faithful(k)'
  PROVE  Reading'
<1>1. Stands(scan, scan') /\ Moves(scan, scan', l)
  BY DEF Read
<1>2. /\ scan'.mode = scan.mode /\ scan'.into = scan.into /\ scan'.kind = scan.kind
      /\ DOMAIN scan'.sections = DOMAIN scan.sections /\ IsReader(scan')
      /\ scan.mode \in {"scan", "seek"}
  BY <1>1 DEF Reading, Unheaded, Followed, PassedOver, InStep, IntervalsLost, TableLost, Moves, Stands
<1>3. /\ scan.kind \in DOMAIN scan.sections
      /\ \A k \in DOMAIN scan.sections :
           /\ scan'.sections[k].span = scan.sections[k].span
           /\ scan'.sections[k].rows = scan.sections[k].rows
           /\ scan.mode # "scan" => scan'.sections[k].total = scan.sections[k].total
  <2>1. scan.kind \in DOMAIN scan.sections
    BY ReadingModes
  <2>2. ASSUME NEW k \in DOMAIN scan.sections, k # scan.kind PROVE scan'.sections[k] = scan.sections[k]
    BY <1>1, <2>2 DEF Stands
  <2>3. LET k == scan.kind
        IN  /\ scan'.sections[k].span = scan.sections[k].span
            /\ scan'.sections[k].rows = scan.sections[k].rows
            /\ scan.mode # "scan" => scan'.sections[k].total = scan.sections[k].total
    BY <1>2 DEF Read, Learns, Given
  <2> QED
    BY <2>1, <2>2, <2>3
<1>4. \A k \in DOMAIN scan.sections : TableRead(k) => TableRead(k)'
  BY <1>3 DEF TableRead
<1>5. Followed => Followed'
  <2>1. ASSUME Followed PROVE InStep \/ TableLost
    BY <2>1 DEF Followed, IntervalsLost
  <2>2. ASSUME Followed, InStep PROVE Followed'
    <3>1. scan.mode = "scan" /\ TableRead(section)
      BY <2>2 DEF InStep
    <3> QED
      BY <1>2, <1>4, <2>2, <3>1 DEF Followed, InStep
  <2>3. ASSUME Followed, TableLost PROVE Followed'
    BY <1>2, <1>3, <2>3 DEF Followed, TableLost
  <2> QED
    BY <2>1, <2>2, <2>3
<1>6. PassedOver => PassedOver'
  BY <1>2, <1>4 DEF PassedOver
<1>7. Followed' \/ PassedOver'
  BY <1>5, <1>6 DEF Reading, Unheaded
<1> QED
  BY <1>2, <1>7 DEF Reading

\* A section's total.
LEMMA TotalNext ==
  ASSUME DInv, section \in Kind, PrintTotal, scan'.mode # "error"
  PROVE  Reading'
<1> DEFINE line == [is |-> "total", n |-> Sum(Printed(section))]
<1>1. line.is = "total" /\ line.is # "heading"
  OBVIOUS
<1>2. at = "tail" /\ UNCHANGED <<section, shown>> /\ Show("total", line)
  BY DEF PrintTotal
<1> HIDE DEF line
<1>3. /\ Reading /\ at' = "total" /\ UNCHANGED counted
      /\ \E l : /\ Read(l)
                /\ \/ l = line /\ damaged' = damaged
                   \/ l.is = "noise" /\ ~damaged /\ damaged'
  BY <1>1, <1>2, ShowIs
<1>4. PICK l : /\ Read(l)
               /\ \/ l = line /\ damaged' = damaged
                  \/ l.is = "noise" /\ ~damaged /\ damaged'
  BY <1>3
<1> DEFINE k == scan.kind
           c == scan.sections[k]
<1>5. l.is \in {"total", "noise"} /\ (damaged => damaged')
  BY <1>1, <1>4
<1>6. Stands(scan, scan') /\ k \in DOMAIN scan.sections
  BY <1>3, <1>4, ReadingModes DEF Read
<1>7. /\ scan'.sections[k].totals = c.totals /\ scan'.sections[k].rows = c.rows
      /\ scan'.sections[k].span = c.span
      /\ scan.mode # "scan" => scan'.sections[k].total = c.total
  BY <1>2, <1>3, <1>4, <1>5 DEF Read, Learns, Given, Reading, Unheaded, Followed, PassedOver, InStep, IntervalsLost, TableLost
<1>8. scan.mode = "scan" => TableRead(k)
  BY <1>2, <1>3 DEF Reading, Unheaded, Followed, PassedOver, InStep, TableLost, IntervalsLost
<1>9. ASSUME NEW j \in DOMAIN scan.sections PROVE Faithful(j)'
  <2>1. Faithful(j)
    BY <1>3 DEF Reading
  <2>2. CASE j = k
    BY <1>2, <1>3, <1>7, <1>8, <2>1, <2>2 DEF Faithful, TableRead
  <2>3. CASE j # k
    <3>1. scan'.sections[j] = scan.sections[j]
      BY <1>6, <2>3 DEF Stands
    <3> QED
      BY <1>2, <1>3, <2>1, <3>1 DEF Faithful
  <2> QED
    BY <2>2, <2>3
<1> QED
  BY <1>2, <1>3, <1>4, <1>5, <1>9, SumNext

\* xperf's comparison of its own two sums.
LEMMA EqualNext ==
  ASSUME DInv, section \in Kind, PrintEqual, scan'.mode # "error"
  PROVE  Reading'
<1>1. PICK ok \in BOOLEAN : Show("equal", [is |-> "equal", ok |-> ok])
  BY DEF PrintEqual
<1> DEFINE line == [is |-> "equal", ok |-> ok]
<1>2. line.is = "equal" /\ line.is # "heading"
  OBVIOUS
<1>3. at = "total" /\ UNCHANGED <<section, shown>> /\ Show("equal", line)
  BY <1>1 DEF PrintEqual
<1> HIDE DEF line
<1>4. /\ Reading /\ at' = "equal" /\ UNCHANGED counted
      /\ \E l : /\ Read(l)
                /\ \/ l = line /\ damaged' = damaged
                   \/ l.is = "noise" /\ ~damaged /\ damaged'
  BY <1>2, <1>3, ShowIs
<1>5. PICK l : /\ Read(l)
               /\ \/ l = line /\ damaged' = damaged
                  \/ l.is = "noise" /\ ~damaged /\ damaged'
  BY <1>4
<1>6. l.is \in {"equal", "noise"} /\ (damaged => damaged')
  BY <1>2, <1>5
<1>7. Untold
  BY <1>3, <1>4, <1>5, <1>6, UntoldIs
<1>8. \A k \in DOMAIN scan.sections : Faithful(k)'
  BY <1>7 DEF Untold
<1> QED
  BY <1>3, <1>4, <1>5, <1>6, <1>8, SumNext

\* A module's total.
LEMMA CountNext ==
  ASSUME DInv, section \in Kind, NEW m \in Module, PrintCount(m), scan'.mode # "error"
  PROVE  Reading'
<1> DEFINE line == [is |-> "count", module |-> m, n |-> counted[section][m]]
<1>1. line.is = "count" /\ line.is # "heading" /\ line.module = m /\ line.n = counted[section][m]
  OBVIOUS
<1>2. at = "total" /\ UNCHANGED <<section, shown>> /\ Show("total", line) /\ shown[section] # {}
  BY DEF PrintCount
<1> HIDE DEF line
<1>3. /\ Reading /\ at' = "total" /\ UNCHANGED counted
      /\ \E l : /\ Read(l)
                /\ \/ l = line /\ damaged' = damaged
                   \/ l.is = "noise" /\ ~damaged /\ damaged'
  BY <1>1, <1>2, ShowIs
<1>4. PICK l : /\ Read(l)
               /\ \/ l = line /\ damaged' = damaged
                  \/ l.is = "noise" /\ ~damaged /\ damaged'
  BY <1>3
<1> DEFINE c == scan.sections[section]
<1>5. l.is \in {"count", "noise"} /\ (damaged => damaged')
  BY <1>1, <1>4
<1>6. Followed
  BY <1>2, <1>3 DEF Reading, Unheaded, PassedOver
<1>7. Stands(scan, scan') /\ scan.kind = section /\ section \in DOMAIN scan.sections
  BY <1>4, <1>6 DEF Read, Followed
<1>8. Faithful(section)
  BY <1>3, <1>7 DEF Reading
<1>9. Faithful(section)'
  <2>1. CASE scan.mode = "scan" /\ l = line
    <3> DEFINE totals == With(c.totals, m, counted[section][m])
    <3>1. Given(scan, scan', section, "totals", totals)
      BY <1>1, <1>4, <1>7, <2>1 DEF Read, Learns
    <3>2. totals = [x \in DOMAIN totals |-> counted[section][x]]
      <4>1. DOMAIN totals = {m} \union DOMAIN c.totals
        BY DEF With
      <4>2. \A x \in DOMAIN totals : totals[x] = IF x = m THEN counted[section][m] ELSE c.totals[x]
        BY DEF With
      <4>3. totals = [x \in DOMAIN totals |-> totals[x]]
        BY DEF With
      <4>4. \A x \in DOMAIN c.totals : c.totals[x] = counted[section][x]
        BY <1>8 DEF Faithful
      <4> HIDE DEF totals
      <4> QED
        BY <4>1, <4>2, <4>3, <4>4
    <3> HIDE DEF totals
    <3>3. /\ scan'.sections[section].totals = totals /\ scan'.sections[section].rows = c.rows
          /\ scan'.sections[section].span = c.span /\ scan'.sections[section].total = c.total
      BY <3>1 DEF Given
    <3> QED
      BY <1>2, <1>3, <1>8, <3>2, <3>3 DEF Faithful
  <2>2. CASE ~(scan.mode = "scan" /\ l = line)
    <3>1. Given(scan, scan', section, "rows", c.rows)
      BY <1>4, <1>5, <1>7, <2>2 DEF Read, Learns
    <3>2. /\ scan'.sections[section].totals = c.totals /\ scan'.sections[section].rows = c.rows
          /\ scan'.sections[section].span = c.span /\ scan'.sections[section].total = c.total
      BY <3>1 DEF Given
    <3> QED
      BY <1>2, <1>3, <1>8, <3>2 DEF Faithful
  <2> QED
    BY <2>1, <2>2
<1>10. ASSUME NEW k \in DOMAIN scan.sections PROVE Faithful(k)'
  <2>1. CASE k = section
    BY <1>2, <1>9, <2>1 DEF Faithful
  <2>2. CASE k # section
    <3>1. scan'.sections[k] = scan.sections[k] /\ Faithful(k)
      BY <1>3, <1>7, <2>2 DEF Stands, Reading
    <3> QED
      BY <1>2, <1>3, <3>1 DEF Faithful
  <2> QED
    BY <2>1, <2>2
<1> QED
  BY <1>2, <1>3, <1>4, <1>5, <1>10, SumNext

\* A reader that stands between tables opens a section at its heading.
LEMMA HeadingIs ==
  ASSUME NEW s, IsReader(s), s.mode = "scan", NEW l, l.is = "heading", l.kind \in Kind,
         NEW t, t = ReadLine(s, l)
  PROVE  /\ IsReader(t) /\ t.mode = "scan" /\ t.into = s.into /\ t.kind = l.kind
         /\ DOMAIN t.sections = {l.kind} \union DOMAIN s.sections
         /\ t.sections[l.kind] = EmptySection
         /\ \A k \in DOMAIN s.sections : k # l.kind => t.sections[k] = s.sections[k]
<1> DEFINE sections == With(s.sections, l.kind, EmptySection)
           r == [s EXCEPT !.kind = l.kind]
<1>1. t = [r EXCEPT !.sections = With(@, l.kind, EmptySection)]
  BY DEF ReadLine, ScanLine
<1>2. r = [mode |-> s.mode, into |-> s.into, kind |-> l.kind, sections |-> s.sections]
  BY DEF IsReader
<1> HIDE DEF r
<1>3. t = [mode |-> "scan", into |-> s.into, kind |-> l.kind, sections |-> sections]
  <2>1. r.sections = s.sections
    BY <1>2
  <2> HIDE DEF sections
  <2>2. t = [r EXCEPT !.sections = sections]
    BY <1>1, <2>1 DEF sections
  <2> QED
    BY <1>2, <2>2
<1>4. /\ DOMAIN sections = {l.kind} \union DOMAIN s.sections
      /\ sections = [k \in DOMAIN sections |-> sections[k]]
      /\ sections[l.kind] = EmptySection
      /\ \A k \in DOMAIN s.sections : k # l.kind => sections[k] = s.sections[k]
  BY DEF With
<1> HIDE DEF sections
<1>5. EmptySection = [f \in Field |-> EmptySection[f]] /\ EmptySection.span \in BOOLEAN
  BY DEF EmptySection, Field
<1>6. t.mode = "scan" /\ t.into = s.into /\ t.kind = l.kind /\ t.sections = sections
  BY <1>3
<1>7. \A k \in DOMAIN sections : sections[k] = [f \in Field |-> sections[k][f]] /\ sections[k].span \in BOOLEAN
  <2>1. SUFFICES ASSUME NEW k \in DOMAIN sections
                 PROVE  sections[k] = [f \in Field |-> sections[k][f]] /\ sections[k].span \in BOOLEAN
    OBVIOUS
  <2>2. CASE k = l.kind
    BY <1>4, <1>5, <2>2
  <2>3. CASE k # l.kind
    BY <1>4, <2>3 DEF IsReader
  <2> QED
    BY <2>2, <2>3
<1> QED
  BY <1>3, <1>4, <1>6, <1>7 DEF IsReader

\* The heading of a section.
LEMMA HeadingNext ==
  ASSUME DInv, NEW k \in Kind, PrintHeading(k), scan'.mode # "error"
  PROVE  Reading'
<1> DEFINE line == [is |-> "heading", kind |-> k]
<1>1. line.is = "heading" /\ line.kind = k
  OBVIOUS
<1>2. /\ section' = k /\ at' = "heading" /\ UNCHANGED <<shown, counted>>
      /\ \/ at = "start" /\ section = Nothing /\ k = "dpc"
         \/ at = "end" /\ section = "dpc" /\ k = "isr"
      /\ scan' = ReadLine(scan, line) /\ UNCHANGED damaged
  BY <1>1 DEF PrintHeading, Show
<1> HIDE DEF line
<1>3. Reading
  BY <1>2 DEF DInv, ReadLine
<1>4. CASE scan.mode = "scan"
  <2>1. /\ IsReader(scan') /\ scan'.mode = "scan" /\ scan'.kind = k
        /\ DOMAIN scan'.sections = {k} \union DOMAIN scan.sections
        /\ scan'.sections[k] = EmptySection
        /\ \A j \in DOMAIN scan.sections : j # k => scan'.sections[j] = scan.sections[j]
    BY <1>1, <1>2, <1>3, <1>4, HeadingIs DEF Reading
  <2>2. Faithful(k)' /\ TableRead(k)' /\ ~scan'.sections[k].span /\ scan'.sections[k].rows = {}
    <3>1. /\ EmptySection.totals = << >> /\ EmptySection.span = FALSE /\ EmptySection.rows = {}
          /\ << >> = [m \in DOMAIN << >> |-> counted'[k][m]]
      BY DEF EmptySection
    <3> QED
      BY <2>1, <3>1 DEF Faithful, TableRead
  <2>3. shown[k] = {}
    BY <1>2 DEF DInv, Kind
  <2>4. Followed'
    <3>1. InStep'
      BY <1>2, <2>1, <2>2 DEF InStep, TableRead
    <3> QED
      BY <1>2, <2>1, <2>3, <3>1 DEF Followed
  <2>5. ASSUME NEW j \in DOMAIN scan'.sections PROVE Faithful(j)'
    <3>1. CASE j = k
      BY <2>2, <3>1
    <3>2. CASE j # k
      <4>1. scan'.sections[j] = scan.sections[j] /\ Faithful(j)
        BY <1>3, <2>1, <3>2 DEF Reading
      <4> QED
        BY <1>2, <4>1 DEF Faithful
    <3> QED
      BY <3>1, <3>2
  <2>6. section' = "dpc" => DOMAIN scan'.sections = {"dpc"}
    <3>1. ASSUME k = "dpc" PROVE DOMAIN scan.sections = {}
      <4>1. Unheaded
        BY <1>2, <1>3, <3>1, NothingIs DEF Reading, Followed, PassedOver, Kind
      <4> QED
        BY <4>1 DEF Unheaded
    <3> QED
      BY <1>2, <2>1, <3>1
  <2>7. section' = "isr" => "dpc" \in DOMAIN scan'.sections
    BY <1>2, <1>3, <2>1 DEF Reading
  <2> QED
    BY <2>1, <2>4, <2>5, <2>6, <2>7 DEF Reading
<1>5. CASE scan.mode # "scan"
  <2>1. at = "end" /\ section = "dpc" /\ k = "isr" /\ Followed
    <3>1. ~Unheaded /\ ~PassedOver
      BY <1>2, <1>5 DEF Unheaded, PassedOver
    <3>2. Followed
      BY <1>3, <3>1 DEF Reading
    <3> QED
      BY <1>2, <3>2, NothingIs DEF Followed, Kind
  <2>2. IntervalsLost
    BY <1>5, <2>1 DEF Followed, InStep, TableLost
  <2>3. scan' = scan
    BY <1>1, <1>2, <2>2 DEF ReadLine, IntervalsLost
  <2>4. shown["isr"] = {} /\ DOMAIN scan.sections = {"dpc"}
    BY <1>3, <2>1 DEF DInv, Reading
  <2>5. TableRead("dpc")'
    BY <1>2, <2>1, <2>2, <2>3 DEF IntervalsLost, TableRead
  <2>6. PassedOver'
    BY <1>2, <2>1, <2>2, <2>3, <2>4, <2>5 DEF PassedOver, IntervalsLost, Followed
  <2>7. \A j \in DOMAIN scan'.sections : Faithful(j)'
    BY <1>2, <1>3, <2>3 DEF Reading, Faithful
  <2> QED
    BY <1>2, <1>3, <2>1, <2>3, <2>4, <2>6, <2>7 DEF Reading
<1> QED
  BY <1>4, <1>5

\* What a line leaves as it was, for the reader that failed too.
LEMMA ShowLeaves ==
  ASSUME NEW to, NEW l, Show(to, l)
  PROVE  /\ table = Nothing /\ table' = Nothing
         /\ scan'.mode # "error" => scan.mode # "error"
<1>1. PICK said : scan' = ReadLine(scan, said)
  BY DEF Show
<1>2. scan'.mode # "error" => scan.mode # "error"
  BY <1>1 DEF ReadLine
<1> QED
  BY <1>2 DEF Show

\* Past the start of the report a section is being printed.
LEMMA SectionBegun ==
  ASSUME DInv, at # "start", scan.mode # "error"
  PROVE  section \in Kind
BY DEF DInv, Reading, Unheaded, Followed, PassedOver, Kind

\* Every line leaves the reader following the report, lost in it, or failed.
LEMMA LineNext ==
  ASSUME DInv,
         \/ \E k \in Kind : PrintHeading(k)
         \/ PrintMark
         \/ \E m \in Module : PrintRow(m) \/ PrintCount(m)
         \/ PrintTotal \/ PrintEqual
  PROVE  DInv'
<1>1. table = Nothing /\ table' = Nothing /\ (scan'.mode # "error" => scan.mode # "error")
  BY ShowLeaves DEF PrintHeading, PrintMark, PrintRow, PrintCount, PrintTotal, PrintEqual
<1>2. ASSUME scan'.mode # "error" PROVE Reading'
  <2>1. CASE \E k \in Kind : PrintHeading(k)
    BY <1>2, <2>1, HeadingNext
  <2>2. CASE ~ \E k \in Kind : PrintHeading(k)
    <3>1. at # "start"
      <4>1. \A mark \in Mark : mark[1] # "start"
        BY DEF Mark
      <4> QED
        BY <2>2, <4>1 DEF PrintMark, PrintRow, PrintCount, PrintTotal, PrintEqual
    <3>2. section \in Kind
      BY <1>1, <1>2, <3>1, SectionBegun
    <3> QED
      BY <1>2, <2>2, <3>2, MarkNext, RowNext, CountNext, TotalNext, EqualNext
  <2> QED
    BY <2>1, <2>2
<1>3. /\ section' \in Kind \union {Nothing}
      /\ shown' \in [Kind -> SUBSET Module]
      /\ section' # "isr" => shown'["isr"] = {}
      /\ section' = Nothing => shown'["dpc"] = {}
  <2>1. CASE \E k \in Kind : PrintHeading(k)
    <3>1. PICK k \in Kind : PrintHeading(k)
      BY <2>1
    <3> QED
      BY <3>1, NothingIs DEF PrintHeading, DInv, Kind
  <2>2. CASE \E m \in Module : PrintRow(m)
    <3>1. PICK m \in Module : PrintRow(m)
      BY <2>2
    <3>2. section' = section /\ shown' = [shown EXCEPT ![section] = @ \union {m}]
      BY <3>1 DEF PrintRow
    <3>3. \A k \in Kind : shown'[k] = IF k = section THEN shown[k] \union {m} ELSE shown[k]
      BY <3>2 DEF DInv
    <3>4. shown' \in [Kind -> SUBSET Module]
      BY <3>2, <3>3 DEF DInv
    <3> QED
      BY <3>2, <3>3, <3>4, NothingIs DEF DInv, Kind
  <2>3. CASE PrintMark \/ PrintTotal \/ PrintEqual \/ \E m \in Module : PrintCount(m)
    <3>1. UNCHANGED <<section, shown>>
      BY <2>3 DEF PrintMark, PrintTotal, PrintEqual, PrintCount
    <3> QED
      BY <3>1 DEF DInv
  <2> QED
    BY <2>1, <2>2, <2>3
<1>4. ObservedIsWhole'
  BY <1>1 DEF ObservedIsWhole
<1> QED
  BY <1>2, <1>3, <1>4 DEF DInv

-----------------------------------------------------------------------------
\* A table is observed only when every section reconciles, and then the table of
\* modules is.
LEMMA SidecarsIs ==
  ASSUME NEW secs, NEW refused, NEW t \in Table, NEW s, s = Sidecars(secs, refused),
         s[t].status # "decode_failed"
  PROVE  /\ s["module"].status = "observed" /\ secs # << >>
         /\ \A k \in DOMAIN secs : Reconciles(secs[k])
<1> DEFINE fails(u) == u \in refused /\ Rows(u, secs) > 0
           status(u) == IF Verdict(secs) = "observed" /\ ~fails("module") /\ ~fails(u)
                        THEN "observed" ELSE "decode_failed"
           rows(u) == IF fails(u) THEN 0 ELSE Rows(u, secs)
           told(u) == IF status(u) = "observed" /\ rows(u) = 0 THEN "observed_zero" ELSE status(u)
<1>1. \A u \in Table : s[u] = [rows |-> rows(u), status |-> told(u)]
  BY DEF Sidecars
<1> HIDE DEF rows, told
<1>2. \A u \in Table : s[u].status = told(u)
  <2>1. \A a, b : [rows |-> a, status |-> b].status = b
    OBVIOUS
  <2> QED
    BY <1>1, <2>1, Zenon
<1>3. Verdict(secs) = "observed" /\ ~fails("module")
  BY <1>2 DEF told
<1>4. /\ secs # << >> /\ \A k \in DOMAIN secs : Reconciles(secs[k])
      /\ Rows("module", secs) > 0
  BY <1>3 DEF Verdict
<1>5. rows("module") # 0 /\ status("module") = "observed"
  BY <1>3, <1>4 DEF rows
<1>6. s["module"].status = "observed"
  BY <1>2, <1>5 DEF told, Table
<1> QED
  BY <1>4, <1>6

\* The tables are written at the end of the report.
LEMMA WriteNext ==
  ASSUME DInv, WriteTables
  PROVE  DInv'
<1>1. PICK refused \in SUBSET Table : table' = Sidecars(Sections(scan), refused)
  BY DEF WriteTables
<1>2. UNCHANGED <<counted, at, section, shown, summed, damaged, scan>>
  BY DEF WriteTables
<1>3. ASSUME NEW t \in Table, table'[t].status # "decode_failed"
      PROVE  /\ table'["module"].status = "observed"
             /\ \A k \in Kind :
                  IF k \in DOMAIN scan.sections
                  THEN scan.sections[k].rows = shown[k] /\ scan.sections[k].totals = Printed(k)
                  ELSE shown[k] = {}
  <2>1. /\ table'["module"].status = "observed" /\ Sections(scan) # << >>
        /\ \A k \in DOMAIN Sections(scan) : Reconciles(Sections(scan)[k])
    BY <1>1, <1>3, SidecarsIs
  <2>2. Sections(scan) = scan.sections /\ scan.mode # "error"
    BY <2>1 DEF Sections
  <2>3. Reading
    BY <2>2 DEF DInv
  <2>4. ASSUME NEW k \in DOMAIN scan.sections
        PROVE  scan.sections[k].rows = shown[k] /\ scan.sections[k].totals = Printed(k)
    <3> DEFINE c == scan.sections[k]
    <3>1. Faithful(k) /\ Reconciles(c)
      BY <2>1, <2>2, <2>3 DEF Reading
    <3>2. c.rows = shown[k] /\ DOMAIN c.totals = c.rows
      BY <3>1 DEF Faithful, Reconciles
    <3>3. c.totals = [m \in shown[k] |-> counted[k][m]]
      BY <3>1, <3>2 DEF Faithful
    <3> QED
      BY <3>2, <3>3 DEF Printed, Restrict
  <2>5. ASSUME NEW k \in Kind, k \notin DOMAIN scan.sections
        PROVE  shown[k] = {}
    <3>1. CASE k = "dpc"
      BY <2>3, <2>5, <3>1, NothingIs DEF DInv, Reading, Kind
    <3>2. CASE k = "isr"
      BY <2>3, <2>5, <3>2 DEF DInv, Reading, Unheaded, Followed, PassedOver
    <3> QED
      BY <3>1, <3>2 DEF Kind
  <2> QED
    BY <2>1, <2>4, <2>5
<1>4. ObservedIsWhole'
  BY <1>2, <1>3 DEF ObservedIsWhole, Printed
<1>5. (scan.mode # "error" => Reading)'
  BY <1>2 DEF DInv, Reading, Faithful, Unheaded, Followed, PassedOver, InStep, IntervalsLost, TableLost, TableRead
<1> QED
  BY <1>2, <1>4, <1>5 DEF DInv

\* The invariant holds of a report not yet begun, ...
LEMMA DInitInv == DInit => DInv
<1> SUFFICES ASSUME DInit PROVE DInv
  OBVIOUS
<1>1. scan = [mode |-> "scan", into |-> "module", kind |-> Nothing, sections |-> << >>]
  BY DEF DInit
<1>2. scan.mode = "scan" /\ scan.into = "module" /\ scan.kind = Nothing /\ scan.sections = << >>
  BY <1>1
<1>3. DOMAIN scan.sections = {} /\ scan.sections = [k \in DOMAIN scan.sections |-> scan.sections[k]]
  BY <1>2
<1>4. IsReader(scan)
  BY <1>1, <1>2, <1>3 DEF IsReader
<1>5. Reading
  BY <1>2, <1>3, <1>4, NothingIs DEF DInit, Reading, Unheaded
<1>6. shown = [k \in Kind |-> {}] /\ section = Nothing /\ table = Nothing
  BY DEF DInit
<1> QED
  BY <1>5, <1>6 DEF DInv, ObservedIsWhole, Kind

\* ... and every step keeps it.
LEMMA DNextInv == DInv /\ [DNext]_dvars => DInv'
<1> SUFFICES ASSUME DInv, [DNext]_dvars PROVE DInv'
  OBVIOUS
<1>1. CASE WriteTables
  BY <1>1, WriteNext
<1>2. CASE UNCHANGED dvars
  BY <1>2 DEF dvars, DInv, ObservedIsWhole, Printed, Reading, Faithful, Unheaded, Followed, PassedOver, InStep, IntervalsLost, TableLost, TableRead
<1> QED
  BY <1>1, <1>2, LineNext DEF DNext

-----------------------------------------------------------------------------
\* A table is observed only when every module xperf printed is in the table of
\* modules, under its own section and with the totals of the trace, wherever the
\* report was cut and whichever line was unreadable (parse_report, checks_for, decode).
THEOREM WholeIfObserved == DSpec => []ObservedIsWhole
<1>1. DInv => ObservedIsWhole
  BY DEF DInv
<1> QED
  BY <1>1, DInitInv, DNextInv, PTL DEF DSpec
=============================================================================
