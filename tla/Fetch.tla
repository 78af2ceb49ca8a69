------------------------------- MODULE Fetch -------------------------------
(***************************************************************************)
(* remote-access/mac/wf-fetch.sh: one bundle is fetched, checked, kept,    *)
(* and perhaps unpacked, any number of times.                              *)
(*                                                                         *)
(* The dispatcher's side, what a bundle's zip holds and when it is sent,   *)
(* is Dispatch; here a zip is the base64 lines it is sent in.  Nothing is  *)
(* assumed of the channel: lines are cut off, lost or changed, and the     *)
(* exit code says what it says.  The script may be stopped anywhere, and   *)
(* the person moves what it unpacked away.                                 *)
(***************************************************************************)
EXTENDS Naturals, Sequences

CONSTANTS
  MaxFetches,  \* most fetches of the bundle
  MaxLines,    \* most base64 lines of a zip
  NoFile, BrokenZip

VARIABLES
  phase,    \* where the script is
  extract,  \* it was called with --extract
  sent,     \* the zips the PC made, one for each fetch
  got,      \* the stream as it arrived
  zip,      \* <out>/<bundle dir>.zip
  dir,      \* <out>/<bundle dir>
  code      \* how the last fetch ended: "ok" (0), "integrity" (3, by integrity_fail),
            \* "failed" (1, or the code of the cp or unzip that failed) or "none"

fvars == <<phase, extract, sent, got, zip, dir, code>>

-----------------------------------------------------------------------------
(* The frame.  The header says the length and the SHA-256 of the zip, that *)
(* is, which lines are its body.                                           *)

Begin == [is |-> "begin", n |-> 0]
End == [is |-> "end", n |-> 0]
Noise == [is |-> "noise", n |-> 0]                 \* not base64
Base64(n) == [is |-> "base64", n |-> n]            \* n = 0: of no zip

BodyOf(z) == [i \in 1 .. z.lines |-> Base64(i)]

Stream(z) == <<Begin>> \o BodyOf(z) \o <<End>>

Replaced(s, k, lines) == SubSeq(s, 1, k - 1) \o lines \o SubSeq(s, k + 1, Len(s))

\* What may arrive of a stream: all of it, a part that ends between two lines or
\* within one, or all but a line that is lost or changed.
Cut(s) == {SubSeq(s, 1, k) : k \in 0 .. Len(s)}
CutWithin(s) == {Append(SubSeq(s, 1, k - 1), l) : k \in 1 .. Len(s), l \in {Noise, Base64(0)}}
Altered(s) ==
  {Replaced(s, k, lines) : k \in 1 .. Len(s), lines \in {<< >>, <<Noise>>, <<Base64(0)>>}}

Arrives(s) == Cut(s) \union CutWithin(s) \union Altered(s)

Body(s) == SubSeq(s, 2, Len(s) - 1)

\* Mutant of Accepts: the size is compared, the SHA-256 is not.
AcceptsSize(s, z) ==
  /\ s # << >> /\ s[1] = Begin
  /\ s[Len(s)] = End
  /\ \A i \in 2 .. Len(s) - 1 : s[i].is = "base64"
  /\ Len(Body(s)) = z.lines

\* The header, the end marker, the alphabet of the body, its size and its SHA-256.
Accepts(s, z) ==
  /\ s # << >> /\ s[1] = Begin
  /\ s[Len(s)] = End
  /\ \A i \in 2 .. Len(s) - 1 : s[i].is = "base64"
  /\ Len(Body(s)) = z.lines
  /\ Body(s) = BodyOf(z)

Latest == Len(sent)
File(torn) == [fetch |-> Latest, body |-> Body(got), torn |-> torn]
Part == File(TRUE)
Whole == File(FALSE)

-----------------------------------------------------------------------------
FInit ==
  /\ phase = "idle"
  /\ extract = FALSE
  /\ sent = << >>
  /\ got = << >>
  /\ zip = NoFile
  /\ dir = NoFile
  /\ code = "none"

\* The PC makes a zip for each fetch anew.  Its entries are all in its own
\* directory, or else the script does not unpack it.
StartFetch ==
  /\ phase = "idle"
  /\ Latest < MaxFetches
  /\ phase' = "stream"
  /\ extract' \in BOOLEAN
  /\ \E n \in 1 .. MaxLines, own \in BOOLEAN : sent' = Append(sent, [lines |-> n, own |-> own])
  /\ got' = << >>
  /\ code' = "none"
  /\ UNCHANGED <<zip, dir>>

\* The script ends.
Exit(how) ==
  /\ phase' = "idle"
  /\ code' = how

\* wf_verb: an exit code that is not 0 ends the script, whatever arrived.
Answer ==
  /\ phase = "stream"
  /\ \/ Exit("failed") /\ UNCHANGED got
     \/ /\ got' \in Arrives(Stream(sent[Latest]))
        /\ phase' = "check"
        /\ UNCHANGED code
  /\ UNCHANGED <<extract, sent, zip, dir>>

Check ==
  /\ phase = "check"
  /\ \/ ~Accepts(got, sent[Latest]) /\ Exit("integrity")
     \/ /\ Accepts(got, sent[Latest])
        /\ phase' = IF extract THEN "names" ELSE "open zip"
        /\ UNCHANGED code
  /\ UNCHANGED <<extract, sent, got, zip, dir>>

\* Before anything is unpacked: no such directory, and no entry outside it.
CheckNames ==
  /\ phase = "names"
  /\ \/ dir # NoFile /\ Exit("failed")
     \/ dir = NoFile /\ ~sent[Latest].own /\ Exit("integrity")
     \/ dir = NoFile /\ sent[Latest].own /\ phase' = "open zip" /\ UNCHANGED code
  /\ UNCHANGED <<extract, sent, got, zip, dir>>

\* Mutant of OpenZip: the copy is kept from its first byte under the name of a whole one.
OpenZipAtOnce ==
  /\ phase = "open zip"
  /\ zip' = Whole
  /\ phase' = "close zip"
  /\ UNCHANGED <<extract, sent, got, dir, code>>

\* cp empties the file it writes over.
OpenZip ==
  /\ phase = "open zip"
  /\ zip' = Part
  /\ phase' = "close zip"
  /\ UNCHANGED <<extract, sent, got, dir, code>>

CloseZip ==
  /\ phase = "close zip"
  /\ zip' = Whole
  /\ IF extract THEN phase' = "unzip" /\ UNCHANGED code ELSE Exit("ok")
  /\ UNCHANGED <<extract, sent, got, dir>>

Unzip ==
  /\ phase = "unzip"
  /\ dir' = Part
  /\ phase' = "unzipping"
  /\ UNCHANGED <<extract, sent, got, zip, code>>

Unzipped ==
  /\ phase = "unzipping"
  /\ dir' = Whole
  /\ Exit("ok")
  /\ UNCHANGED <<extract, sent, got, zip>>

\* Mutant of Stop: unzip's own failure is passed over.
StopQuietly ==
  /\ phase # "idle"
  /\ Exit(IF phase = "unzipping" THEN "ok" ELSE "failed")
  /\ UNCHANGED <<extract, sent, got, zip, dir>>

\* A call fails (a full disk), which ends the script with that call's exit code, or
\* the script is killed.  The temporary directory goes, what was written stays.
Stop ==
  /\ phase # "idle"
  /\ Exit("failed") \/ Exit("none")
  /\ UNCHANGED <<extract, sent, got, zip, dir>>

\* "move it away first"
MoveAway ==
  /\ phase = "idle"
  /\ dir # NoFile
  /\ dir' = NoFile
  /\ UNCHANGED <<phase, extract, sent, got, zip, code>>

FNext ==
  \/ StartFetch \/ Answer \/ Check \/ CheckNames \/ OpenZip \/ CloseZip
  \/ Unzip \/ Unzipped \/ Stop \/ MoveAway

FSpec == FInit /\ [][FNext]_fvars

-----------------------------------------------------------------------------
(* Properties.                                                             *)

Lines == [is : {"begin", "end", "noise", "base64"}, n : Nat]
Files == [fetch : Nat \ {0}, body : Seq(Lines), torn : BOOLEAN]

ASSUME BoundsAssumption == MaxFetches \in Nat /\ MaxLines \in Nat
ASSUME FilesAssumption == NoFile \notin Files

\* The script's place, the zips and the files keep their form.
FTypeOK ==
  /\ phase \in {"idle", "stream", "check", "names", "open zip", "close zip", "unzip", "unzipping"}
  /\ extract \in BOOLEAN
  /\ sent \in Seq([lines : Nat, own : BOOLEAN])
  /\ phase # "idle" => Latest > 0
  /\ got \in Seq(Lines)
  /\ zip \in Files \union {NoFile}
  /\ dir \in Files \union {NoFile}
  /\ code \in {"ok", "failed", "integrity", "none"}

\* Whatever arrived, what lies under the bundle's name is of a zip the PC made for
\* one fetch, and what was unpacked has all its entries in the bundle's directory
\* (wf-fetch.sh: "The zip is kept only if its size and SHA-256 equal the header").
KeptIsSent ==
  /\ zip # NoFile => zip.body = BodyOf(sent[zip.fetch])
  /\ dir # NoFile => dir.body = BodyOf(sent[dir.fetch]) /\ sent[dir.fetch].own

\* Exit code 3 means that nothing of this fetch was kept, 0 that the zip is whole
\* and, with --extract, that the directory is, both of this fetch, unless the person
\* has moved it away since (wf-fetch.sh: "Exit codes").
CodeIsTrue ==
  /\ code = "integrity" => \A f \in {zip, dir} : f # NoFile => f.fetch # Latest
  /\ code = "ok" =>
       /\ zip # NoFile /\ zip.fetch = Latest /\ ~zip.torn
       /\ extract /\ dir # NoFile => dir.fetch = Latest /\ ~dir.torn

\* What was unpacked is never changed by another fetch: at most the person moves it.
UnpackedStays ==
  [][dir # NoFile /\ dir' # NoFile => dir' = dir \/ (dir.torn /\ dir.fetch = Latest)]_fvars

\* What a reader finds of the zip.
FoundZip ==
  IF zip = NoFile THEN NoFile
  ELSE IF zip.torn THEN BrokenZip ELSE [run |-> zip.fetch, status |-> "kept"]

Delivery == INSTANCE TableStore WITH
  Tables <- {"zip"}, Status <- {"kept"}, Absent <- NoFile, Broken <- BrokenZip,
  store <- [t \in {"zip"} |-> FoundZip], latest <- Latest

\* The fetches implement a store of one file: it changes only through a broken copy
\* to the zip of the fetch under way, and does not disappear; a fetch that ends
\* before the copy leaves the zip of an earlier one.
ImplementsDelivery == Delivery!Spec
=============================================================================
