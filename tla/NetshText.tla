----------------------------- MODULE NetshText -----------------------------
(***************************************************************************)
(* What scripts/decode_rf_survey.py reads out of the netsh wlan outputs,   *)
(* in English and in a display language it does not know.                  *)
(*                                                                         *)
(* netsh prints one labelled line after the other.  The decoder classifies *)
(* a line by its English label, and by the shape of its value when the     *)
(* label is unknown; the shape of a number says little by itself, so the   *)
(* reading depends on the lines before it.  Two readers follow the same    *)
(* listing: one knows the labels, the other never does.                    *)
(*                                                                         *)
(* The order of the lines is netsh's (fixtures/collector-bundles/          *)
(* rf-survey*/raw/wlan_*/output.txt); the Band line, the nested load lines *)
(* and the rates may be missing.                                           *)
(***************************************************************************)
EXTENDS Integers, Sequences

CONSTANTS
  Percent,    \* signal percentages
  Number,     \* channel numbers, and the integers of other lines
  MaxAdapters \* most adapters listed

Band == {2, 5, 6}       \* 2 stands for 2.4 GHz
Radio == {"802.11n", "802.11ax"}
Languages == {"english", "blind"}

VARIABLES
  command,    \* which listing is read: "networks" or "interfaces"
  place,      \* the line of netsh's layout printed last
  printed,    \* what netsh printed of the current access point
  reader,     \* the decoder's state inside the current access point, per language
  field,      \* the decoder's state inside a block of fields, per language
  key,        \* how the last line of a field was classified, per language
  connected,  \* the first value classified as an SSID, per language
  adapter,    \* interfaces whose lines have begun
  joined      \* those of them whose state is connected, in order

nvars == <<command, place, printed, reader, field, key, connected, adapter, joined>>

-----------------------------------------------------------------------------
(* Access points: decode_wlan_bss.  A line is a label ("other" is one that *)
(* no table knows), a value with its shape, and an indentation: 2 for the  *)
(* fields of an access point, 3 for the lines nested under Bss Load.  A    *)
(* field of a row is the set of the values read: empty, or one value.      *)

Line(label, shape, value, indent) ==
  [label |-> label, shape |-> shape, value |-> value, indent |-> indent]

Unread == [depth |-> 0, signal |-> {}, radio |-> {}, band |-> {}, channel |-> {},
           last |-> "none"]

\* The indentation of an access point's fields is that of the first of them.
Depth(r, l) == IF r.depth = 0 THEN l.indent ELSE r.depth

\* Mutant of ByShape: any integer is taken for the channel.
ByShapeEager(r, l) ==
  IF l.shape = "percent" /\ l.indent <= Depth(r, l) THEN "signal"
  ELSE IF l.shape \in {"radio", "band"} THEN l.shape
  ELSE IF l.shape = "integer" THEN "channel"
  ELSE "none"

\* The field a line sets when its label is unknown.
ByShape(r, l) ==
  IF l.shape = "percent" /\ l.indent <= Depth(r, l) THEN "signal"
  ELSE IF l.shape \in {"radio", "band"} THEN l.shape
  ELSE IF l.shape = "integer" /\ l.indent <= Depth(r, l) /\ r.last \in {"radio", "band"}
       THEN "channel"
  ELSE "none"

\* The reader's state after a line.
ReadBss(lang, r, l) ==
  LET f == IF lang = "english" /\ l.label # "other" THEN l.label ELSE ByShape(r, l)
      s == [r EXCEPT !.depth = Depth(r, l)]
  IN  IF f = "signal" THEN [s EXCEPT !.signal = {l.value}, !.last = f]
      ELSE IF f = "radio" THEN [s EXCEPT !.radio = {l.value}, !.last = f]
      ELSE IF f = "band" THEN [s EXCEPT !.band = {l.value}, !.last = f]
      ELSE IF f = "channel" THEN [s EXCEPT !.channel = {l.value}, !.last = f]
      ELSE s

\* Channels 1 to 14 are the 2.4 GHz numbering, 36 to 165 the 5 GHz one.
BandFromChannel(c) ==
  IF c # {} /\ c \subseteq 1 .. 14 THEN {2}
  ELSE IF c # {} /\ c \subseteq 36 .. 165 THEN {5}
  ELSE {}

\* The row of an access point: the band is inferred only when none was read.
Row(r) ==
  [signal |-> r.signal, radio |-> r.radio, channel |-> r.channel,
   band |-> IF r.band = {} THEN BandFromChannel(r.channel) ELSE r.band]

-----------------------------------------------------------------------------
(* Fields of show interfaces: decode_netsh_fields.                         *)

\* Mutant of ClassifyByValue: the address after the SSID is not the access point's.
ClassifyForgetting(shape, s) ==
  IF shape = "mac" THEN "physical_address"
  ELSE IF shape = "ssid" THEN IF s.ssidSeen THEN "profile" ELSE "ssid"
  ELSE IF shape = "guid" THEN "guid"
  ELSE IF shape \in {"radio", "band"} THEN shape
  ELSE IF shape = "percent" THEN "signal"
  ELSE IF shape = "integer" /\ s.last \in {"radio", "band"} THEN "channel"
  ELSE IF shape \in {"integer", "decimal"} /\ s.last = "channel" THEN "receive_rate"
  ELSE IF shape \in {"integer", "decimal"} /\ s.last = "receive_rate" THEN "transmit_rate"
  ELSE "none"

\* The key a value's shape gives, from what came before in the block.
ClassifyByValue(shape, s) ==
  IF shape = "guid" THEN "guid"
  ELSE IF shape = "mac" THEN IF s.last = "ssid" THEN "bssid" ELSE "physical_address"
  ELSE IF shape = "ssid" THEN IF s.ssidSeen THEN "profile" ELSE "ssid"
  ELSE IF shape \in {"radio", "band"} THEN shape
  ELSE IF shape = "percent" THEN "signal"
  ELSE IF shape = "integer" /\ s.last \in {"radio", "band"} THEN "channel"
  ELSE IF shape \in {"integer", "decimal"} /\ s.last = "channel" THEN "receive_rate"
  ELSE IF shape \in {"integer", "decimal"} /\ s.last = "receive_rate" THEN "transmit_rate"
  ELSE "none"

Classify(lang, label, shape, s) ==
  IF lang = "english" THEN label ELSE ClassifyByValue(shape, s)

Remember(k, s) ==
  IF k = "none" THEN s ELSE [last |-> k, ssidSeen |-> s.ssidSeen \/ k = "ssid"]

-----------------------------------------------------------------------------
NInit ==
  /\ command \in {"networks", "interfaces"}
  /\ place = "start"
  /\ printed = Unread
  /\ reader = [lang \in Languages |-> Unread]
  /\ field = [lang \in Languages |-> [last |-> "none", ssidSeen |-> FALSE]]
  /\ key = [lang \in Languages |-> "none"]
  /\ connected = [lang \in Languages |-> 0]
  /\ adapter = 0
  /\ joined = << >>

\* A line of an access point is printed, and read by both readers.
BssLine(from, to, l) ==
  /\ command = "networks"
  /\ place \in from
  /\ place' = to
  /\ reader' = [lang \in Languages |-> ReadBss(lang, reader[lang], l)]
  /\ UNCHANGED <<command, field, key, connected, adapter, joined>>

\* The BSSID line opens a group; the SSID block around it changes nothing here.
PrintBssid ==
  /\ command = "networks"
  /\ place \in {"start", "channel", "nested", "rates"}
  /\ place' = "bssid"
  /\ printed' = Unread
  /\ reader' = [lang \in Languages |-> Unread]
  /\ UNCHANGED <<command, field, key, connected, adapter, joined>>

PrintSignal ==
  \E v \in Percent :
    /\ BssLine({"bssid"}, "signal", Line("signal", "percent", v, 2))
    /\ printed' = [printed EXCEPT !.signal = {v}]

PrintRadio ==
  \E v \in Radio :
    /\ BssLine({"signal"}, "radio", Line("radio", "radio", v, 2))
    /\ printed' = [printed EXCEPT !.radio = {v}]

\* Windows 11 prints the band, Windows 10 does not.
PrintBand ==
  \E v \in Band :
    /\ BssLine({"radio"}, "band", Line("band", "band", v, 2))
    /\ printed' = [printed EXCEPT !.band = {v}]

PrintChannel ==
  \E v \in Number :
    /\ BssLine({"radio", "band"}, "channel", Line("channel", "integer", v, 2))
    /\ printed' = [printed EXCEPT !.channel = {v}]

\* The Bss Load header has no value; the lines under it are one step deeper.
PrintLoad ==
  /\ BssLine({"channel"}, "load", Line("other", "empty", 0, 2))
  /\ UNCHANGED printed

PrintNested ==
  /\ \/ \E v \in Number : BssLine({"load", "nested"}, "nested", Line("other", "integer", v, 3))
     \/ \E v \in Percent : BssLine({"load", "nested"}, "nested", Line("other", "percent", v, 3))
  /\ UNCHANGED printed

\* A single basic rate is an integer, several are text.
PrintRates ==
  /\ \/ \E v \in Number : BssLine({"channel", "nested", "rates"}, "rates", Line("other", "integer", v, 2))
     \/ BssLine({"channel", "nested", "rates"}, "rates", Line("other", "text", 0, 2))
  /\ UNCHANGED printed

-----------------------------------------------------------------------------
\* A labelled line of show interfaces is printed, and classified by both readers.
FieldLine(from, to, label, shape) ==
  /\ command = "interfaces"
  /\ place \in from
  /\ place' = to
  /\ key' = [lang \in Languages |-> Classify(lang, label, shape, field[lang])]
  /\ field' = [lang \in Languages |-> Remember(key'[lang], field[lang])]
  /\ connected' = [lang \in Languages |->
       IF key'[lang] = "ssid" /\ connected[lang] = 0 THEN adapter ELSE connected[lang]]
  /\ UNCHANGED <<command, printed, reader>>

\* The first line of an adapter names it; all adapters are in one block, for no
\* labelled line between them starts at the margin.
PrintName ==
  /\ adapter < MaxAdapters
  /\ adapter' = adapter + 1
  /\ FieldLine({"start", "state", "profile"}, "name", "name", "text")
  /\ UNCHANGED joined

PrintGuid ==
  /\ FieldLine({"name"}, "guid", "guid", "guid")
  /\ UNCHANGED <<adapter, joined>>

PrintAddress ==
  /\ FieldLine({"guid"}, "address", "physical_address", "mac")
  /\ UNCHANGED <<adapter, joined>>

\* A disconnected adapter ends with its state.
PrintState ==
  /\ FieldLine({"address"}, "state", "state", "text")
  /\ UNCHANGED <<adapter, joined>>

PrintSsid ==
  /\ FieldLine({"state"}, "ssid", "ssid", "ssid")
  /\ joined' = Append(joined, adapter)
  /\ UNCHANGED adapter

\* The lines of a connected adapter, in netsh's order.
PrintConnection ==
  /\ \/ FieldLine({"ssid"}, "bssid", "bssid", "mac")
     \/ FieldLine({"bssid"}, "radio", "radio", "radio")
     \/ FieldLine({"radio"}, "cipher", "cipher", "text")
     \/ FieldLine({"cipher"}, "band", "band", "band")
     \/ FieldLine({"cipher", "band"}, "channel", "channel", "integer")
     \/ \E shape \in {"integer", "decimal"} :
          FieldLine({"channel"}, "receive", "receive_rate", shape)
     \/ \E shape \in {"integer", "decimal"} :
          FieldLine({"receive"}, "transmit", "transmit_rate", shape)
     \/ FieldLine({"transmit"}, "signal", "signal", "percent")
     \/ FieldLine({"signal"}, "profile", "profile", "ssid")
  /\ UNCHANGED <<adapter, joined>>

NNext ==
  \/ PrintBssid \/ PrintSignal \/ PrintRadio \/ PrintBand \/ PrintChannel
  \/ PrintLoad \/ PrintNested \/ PrintRates
  \/ PrintName \/ PrintGuid \/ PrintAddress \/ PrintState \/ PrintSsid \/ PrintConnection

NSpec == NInit /\ [][NNext]_nvars

-----------------------------------------------------------------------------
(* Properties.                                                             *)

Readings ==
  [depth : {0, 2}, signal : SUBSET Percent, radio : SUBSET Radio, band : SUBSET Band,
   channel : SUBSET Number, last : {"none", "signal", "radio", "band", "channel"}]

Keys == {"none", "name", "guid", "physical_address", "state", "ssid", "bssid", "radio",
         "cipher", "band", "channel", "receive_rate", "transmit_rate", "signal", "profile"}

\* Both readers keep to the fields of decode_wlan_bss and to the keys of
\* classify_by_value.
NTypeOK ==
  /\ command \in {"networks", "interfaces"}
  /\ printed \in Readings
  /\ reader \in [Languages -> Readings]
  /\ field \in [Languages -> [last : Keys, ssidSeen : BOOLEAN]]
  /\ key \in [Languages -> Keys]
  /\ adapter \in Nat
  /\ connected \in [Languages -> Nat]

\* The row of an access point says what netsh printed of it, in any language:
\* no nested load line, no rate and no earlier access point is taken for its
\* signal or its channel, and a printed band is never overruled by an inferred
\* one (decode_wlan_bss).
RowIsPrinted ==
  \A lang \in Languages :
    LET row == Row(reader[lang])
    IN  /\ row.signal = printed.signal
        /\ row.radio = printed.radio
        /\ row.channel = printed.channel
        /\ printed.band # {} => row.band = printed.band

\* The names the values' shapes can give.
ByItsValue == {"guid", "physical_address", "ssid", "bssid", "radio", "band", "channel",
               "receive_rate", "transmit_rate", "signal", "profile"}

\* Up to the end of the first connected adapter, the values alone give every
\* line the name its English label has, and never a wrong name
\* (classify_by_value against LABELS_INTERFACES).
FirstConnectionBlind ==
  Len(joined) = 0 \/ joined = <<adapter>> =>
    key["blind"] = IF key["english"] \in ByItsValue THEN key["english"] ELSE "none"

\* The network the analyzer takes for this PC's own (the first ssid row of
\* netsh_fields, analyze_radios) is the first connected adapter's, in any
\* language and whatever other adapters are listed.
OwnNetworkBlind ==
  \A lang \in Languages : connected[lang] = IF joined = << >> THEN 0 ELSE joined[1]

\* A PC whose display language has no labels here is read as one whose has, as far as
\* its connection goes: its lines get their names, its network is its own
\* (classify_by_value, decode_netsh_fields).
ConnectionKnown == FirstConnectionBlind /\ OwnNetworkBlind
=============================================================================
