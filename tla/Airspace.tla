----------------------------- MODULE Airspace -----------------------------
(***************************************************************************)
(* The channel arithmetic of scripts/analyze_rf_survey.py: which of the    *)
(* non overlapping 2.4 GHz channels it recommends to the owner of a        *)
(* network, from the access points of one scan.                            *)
(*                                                                         *)
(* An access point is a record of its address, its network, its band (2    *)
(* stands for 2.4 GHz), its channel and its signal; what netsh did not     *)
(* print is None.                                                          *)
(***************************************************************************)
EXTENDS Integers, FiniteSetsExt

CONSTANT None

Candidates == {1, 6, 11}
OverlapDistance == 4
SignalUnknown == 101    \* ranks after every measured percentage

In24(aps) == {a \in aps : a.band = 2 /\ a.channel # None}
High(aps) == {a \in aps : a.band \in {5, 6}}
Unplaced(aps) == {a \in aps : a.band = None \/ a.channel = None}

\* The access points of the network the owner named, if he named one.
Own(aps, owner) == {a \in aps : owner # None /\ a.ssid = owner}

Ids(aps) == {a.id : a \in aps}

\* Mutant of Overlap: the owner's own access points load the channels too.
OverlapAll(aps, owner, c) ==
  {a \in In24(aps) : a.channel - c <= OverlapDistance /\ c - a.channel <= OverlapDistance}

\* The access points of others that a router on channel c shares the air with.
Overlap(aps, owner, c) ==
  {a \in In24(aps) : /\ a.channel - c <= OverlapDistance
                     /\ c - a.channel <= OverlapDistance
                     /\ a.id \notin Ids(Own(aps, owner))}

Strongest(aps) ==
  LET signals == {a.signal : a \in aps} \ {None}
  IN  IF signals = {} THEN None ELSE Max(signals)

\* load_rank: the count first, then the strongest signal.
Load(aps, owner, c) ==
  LET s == Strongest(Overlap(aps, owner, c))
  IN  [count |-> Cardinality(Overlap(aps, owner, c)),
       signal |-> IF s = None THEN SignalUnknown ELSE s]

Loads(aps, owner) == [c \in Candidates |-> Load(aps, owner, c)]

Lighter(x, y) == x.count < y.count \/ (x.count = y.count /\ x.signal < y.signal)

\* The candidate with the lightest load, the lowest of them on a tie.
Lightest(load) ==
  CHOOSE c \in Candidates :
    \A d \in Candidates : Lighter(load[c], load[d]) \/ (load[c] = load[d] /\ c <= d)

Best(aps, owner) == Lightest(Loads(aps, owner))

OwnChannels(aps, owner) == {a.channel : a \in In24(Own(aps, owner))}

\* The router stays when all its access points share one candidate channel and
\* none is lighter.
KeepsChannel(aps, owner) ==
  \E c \in Candidates :
    /\ OwnChannels(aps, owner) = {c}
    /\ ~Lighter(Loads(aps, owner)[Best(aps, owner)], Loads(aps, owner)[c])

\* What the owner is told: nothing without a named network that the scan saw.
Advice(aps, owner) ==
  IF Own(aps, owner) = {} \/ In24(aps) = {} THEN "none"
  ELSE IF OwnChannels(aps, owner) = {} THEN "no channel"
  ELSE IF KeepsChannel(aps, owner) THEN "keep" ELSE "move"

\* The owner moves every 2.4 GHz access point of his to channel c.
Moved(aps, owner, c) ==
  {IF a \in In24(Own(aps, owner))
   THEN [id |-> a.id, ssid |-> a.ssid, band |-> 2, channel |-> c, signal |-> a.signal]
   ELSE a : a \in aps}

\* What a scan is: netsh lists an address once, on a channel that is a number, with
\* a signal in percent, or without.
IsScan(aps) ==
  /\ IsFiniteSet(aps)
  /\ \A a \in aps : a.channel \in Int \union {None} /\ a.signal \in 0 .. 100 \union {None}
  /\ \A a, b \in aps : a.id = b.id => a = b

ASSUME NoneAssumption == None \notin Int

-----------------------------------------------------------------------------
\* The owner who follows the advice is told to stay where he went: the load of a
\* channel does not count his own network, so a second survey of the same air does
\* not send him on (analyze_airspace).
AdviceSettlesOn(aps, owner) ==
  Advice(aps, owner) = "move" =>
    /\ Advice(Moved(aps, owner, Best(aps, owner)), owner) = "keep"
    /\ OwnChannels(Moved(aps, owner, Best(aps, owner)), owner) = {Best(aps, owner)}

\* Whatever channel the owner is told to use, on no candidate would he share the
\* air with fewer access points of others (docs/rf-survey.md: "the one of 1, 6 and
\* 11 with the fewest networks within four channels").
AdviceIsLightestOn(aps, owner) ==
  LET others(c) == {a \in aps \ Own(aps, owner) : a.band = 2 /\ a.channel \in c - 4 .. c + 4}
      advised == IF Advice(aps, owner) = "keep" THEN OwnChannels(aps, owner)
                 ELSE {Best(aps, owner)}
  IN  Advice(aps, owner) \in {"keep", "move"} =>
        \A c \in advised, d \in Candidates : Cardinality(others(c)) <= Cardinality(others(d))
=============================================================================
