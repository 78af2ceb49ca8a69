-------------------------- MODULE MC_RfAnalysis --------------------------
(***************************************************************************)
(* Decoded bundles for the analysis: one bundle, and the bundles that      *)
(* differ from it in the tables of one section.                            *)
(***************************************************************************)
EXTENDS RfAnalysis, TLC

Table(s, rows) == [status |-> s, rows |-> rows]
Statuses == {"observed_zero", "decode_failed", "not_collected"}

Route(family, metric, index) ==
  [default |-> TRUE, family |-> family, metric |-> metric, index |-> index]
Adapter(index, wifi) == [index |-> index, wifi |-> wifi, enabled |-> TRUE]

Ap(id, ssid, band, channel, signal) ==
  [id |-> id, ssid |-> ssid, band |-> band, channel |-> channel, signal |-> signal]
Device(parent, driver, receiver) == [parent |-> parent, driver |-> driver, receiver |-> receiver]

Desk ==
  [routes |-> Table("observed", <<Route(2, 25, 1)>>),
   adapters |-> Table("observed", <<Adapter(1, FALSE), Adapter(2, TRUE)>>),
   scan |-> Table("observed", {Ap(1, "mine", 2, 6, 90), Ap(2, "other", 2, 6, 40), Ap(3, "mine", 5, 36, 70)}),
   devices |-> Table("observed",
     "host" :> Device(NoDevice, "usbxhci", FALSE) @@ "hub" :> Device("host", "hub", FALSE)
     @@ "r1" :> Device("hub", "other", TRUE)),
   fields |-> [status |-> "observed"],
   bluetooth |-> [status |-> "observed", radio |-> "on"],
   events |-> [status |-> "observed", entry |-> "observed", ids |-> 2],
   owner |-> "mine"]

\* Two default routes, in either order, with Wi-Fi behind one or both.
RouteBundles ==
  {[Desk EXCEPT !.routes = Table("observed", rows)] :
     rows \in {<<Route(f1, m1, i1), Route(f2, m2, 2)>> :
                 f1 \in {2, 23, None}, m1 \in {25, 50, None}, i1 \in {1, 2},
                 f2 \in {2, 23}, m2 \in {25, 50, None}}
              \union {<< >>, <<[Route(2, 25, 1) EXCEPT !.default = FALSE]>>}}

\* Up to two access points of others beside two of the owner's, one perhaps without
\* a band or on 5 GHz.
ScanBundles ==
  {[Desk EXCEPT !.scan = Table("observed", own \union others), !.owner = owner] :
     own \in {{Ap(1, "mine", 2, c, 90), Ap(2, "mine", b, d, None)} :
               c \in {1, 3, 11}, b \in {2, 5, None}, d \in {6, 11}},
     others \in {{}} \union {{Ap(3, "other", 2, c, s), Ap(4, "far", 2, d, 40)} :
                  c \in {1, 6, 13}, d \in {1, 9}, s \in {40, 60, None}},
     owner \in {"mine", None}}
  \union {[Desk EXCEPT !.scan = Table("observed", {Ap(1, "other", b, 36, 40)})] : b \in {5, None}}

\* Two devices named receiver and a hub below one of two controllers, with any
\* parents, in a circle too.
DeviceBundles ==
  {[Desk EXCEPT !.devices = Table("observed",
      "host" :> Device(NoDevice, driver, FALSE) @@ "hub" :> Device(p1, "hub", FALSE)
      @@ "r1" :> Device(p2, below, TRUE) @@ "r2" :> Device(p3, "storage", named))] :
     driver \in {"usbxhci", "pci"}, below \in {"other", "usbehci"}, named \in BOOLEAN,
     p1 \in {"host", "r1"}, p2 \in {"host", "hub", "r2", NoDevice, "lost"},
     p3 \in {"hub", "r1", "host"}}

\* The tables that give rows, all without any.
Unread(s) ==
  [Desk EXCEPT !.routes = Table(s, << >>), !.adapters = Table(s, << >>), !.scan = Table(s, {}),
     !.devices = Table(s, << >>), !.events.status = s, !.events.ids = 0]

\* Each table unread in each way.
StatusBundles ==
  UNION {{[Desk EXCEPT !.routes = Table(s, << >>)], [Desk EXCEPT !.adapters = Table(s, << >>)],
          [Desk EXCEPT !.scan = Table(s, {})], [Desk EXCEPT !.devices = Table(s, << >>)],
          [Desk EXCEPT !.events.status = s, !.events.ids = 0],
          [Desk EXCEPT !.bluetooth.status = s, !.bluetooth.radio = "none"],
          Unread(s), [Unread(s) EXCEPT !.fields.status = s]} : s \in Statuses}
  \union {Desk, [Desk EXCEPT !.bluetooth.radio = "disabled"],
          [Desk EXCEPT !.events.entry = None, !.events.status = "not_collected", !.events.ids = 0],
          [Desk EXCEPT !.events.entry = "not_collected"]}

MCBundles == RouteBundles \union ScanBundles \union DeviceBundles \union StatusBundles

\* What two runs leave to each other does not depend on the routes, the scan or the
\* tree: two runs for the bundles of the last kind, one for the others.
MCMaxRuns == [b \in MCBundles |-> IF b \in StatusBundles THEN 2 ELSE 1]
=============================================================================
