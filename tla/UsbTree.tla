------------------------------ MODULE UsbTree ------------------------------
(***************************************************************************)
(* The device tree of the RF survey: decode_pnp of decode_rf_survey.py and *)
(* the receivers of analyze_rf_survey.py.                                  *)
(*                                                                         *)
(* A tree is a function from the devices of one export to records of the   *)
(* parent's name, the driver ("usbxhci", "usbehci", "hub", "storage"; or   *)
(* "pci", a USB class device on PCI whose driver is not one of the known)  *)
(* and whether the name says receiver.  A parent may be NoDevice, or a device  *)
(* the export does not hold; a damaged export may have parents in a circle.*)
(***************************************************************************)
EXTENDS Naturals, Sequences, SequencesExt, FiniteSetsExt

CONSTANT NoDevice

\* The decoded devices; what a parent names may be none of them.
IsTree(tree) == IsFiniteSet(DOMAIN tree) /\ NoDevice \notin DOMAIN tree

KnownDrivers == {"usbxhci", "usbehci", "usbohci", "usbuhci"}

\* The chain of a device: its ancestors, as far as the export knows them and as
\* long as they are new.  The walk is bounded by the number of devices.
HubChain(tree, d) ==
  LET walk[n \in 0 .. Cardinality(DOMAIN tree)] ==
        IF n = 0 THEN <<d>>
        ELSE LET sofar == walk[n - 1]
                 parent == tree[Last(sofar)].parent
             IN  IF parent \in DOMAIN tree /\ parent \notin Range(Tail(sofar))
                 THEN Append(sofar, parent) ELSE sofar
  IN  Tail(walk[Cardinality(DOMAIN tree)])

IsController(tree, d) == tree[d].driver \in KnownDrivers \union {"pci"}

\* Mutant of Controller: the controller farthest up the chain.
ControllerFarthest(tree, d) ==
  LET chain == HubChain(tree, d)
      up == {i \in DOMAIN chain : IsController(tree, chain[i])}
  IN  IF up # {} THEN chain[Max(up)]
      ELSE IF tree[d].driver \in KnownDrivers THEN d ELSE NoDevice

\* The host controller of a device: the nearest above it, else itself if its own
\* driver is known.
Controller(tree, d) ==
  LET chain == HubChain(tree, d)
      up == {i \in DOMAIN chain : IsController(tree, chain[i])}
  IN  IF up # {} THEN chain[Min(up)]
      ELSE IF tree[d].driver \in KnownDrivers THEN d ELSE NoDevice

\* "pci" stands for the stack the report calls unknown.
Stack(tree, d) ==
  IF Controller(tree, d) = NoDevice THEN "none" ELSE tree[Controller(tree, d)].driver

ReceiverNames(tree) == {d \in DOMAIN tree : tree[d].receiver}

\* The receivers reported: those with a parent and no receiver above them.
Receivers(tree) ==
  {d \in ReceiverNames(tree) :
     /\ tree[d].parent # NoDevice
     /\ Range(HubChain(tree, d)) \intersect ReceiverNames(tree) = {}}

Controllers(tree) == {d \in DOMAIN tree : Controller(tree, d) = d}

\* Storage and hubs on a USB 3 controller.
Noisy(tree) ==
  {d \in DOMAIN tree : /\ Stack(tree, d) = "usbxhci"
                       /\ ~tree[d].receiver
                       /\ tree[d].driver \in {"storage", "hub"}}

-----------------------------------------------------------------------------
(* What the chain is for, stated on the tree alone.                        *)

\* p is above d.
Above(tree, p, d) ==
  \E path \in UNION {[1 .. n -> DOMAIN tree] : n \in 2 .. Cardinality(DOMAIN tree) + 1} :
    /\ path[1] = d /\ path[Len(path)] = p
    /\ \A i \in 1 .. Len(path) - 1 : tree[path[i]].parent = path[i + 1]

\* One report per receiver: of a receiver and everything above it that has a
\* receiver's name, exactly the topmost is reported, so none is lost behind another
\* and none reported twice (analyze_receivers); a topmost one without a parent is
\* left out, and so are those a damaged export has in a circle.
OneReportPerReceiverOn(tree) ==
  \A d \in ReceiverNames(tree) :
    LET family == {d} \union {p \in ReceiverNames(tree) : Above(tree, p, d)}
        top == {p \in family : ~\E q \in family : Above(tree, q, p)}
    IN  family \intersect Receivers(tree) = {p \in top : tree[p].parent # NoDevice}

\* A device's controller is a controller above it with no other controller between,
\* or the device itself when none is above it, even in a damaged tree (decode_pnp).
NearestControllerOn(tree) ==
  \A d \in DOMAIN tree :
    LET c == Controller(tree, d)
        above == {p \in DOMAIN tree : IsController(tree, p) /\ Above(tree, p, d)}
    IN  IF above = {}
        THEN c = IF tree[d].driver \in KnownDrivers THEN d ELSE NoDevice
        ELSE c \in above /\ \A p \in above : p = c \/ Above(tree, p, c)
=============================================================================
