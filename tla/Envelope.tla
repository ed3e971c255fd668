------------------------------ MODULE Envelope ------------------------------
(***************************************************************************)
(* Identifiers sent as a run of frames and read back from bytes that are   *)
(* still arriving (src/src/owid.rs, src/src/parse.rs).                     *)
(*                                                                         *)
(* Either a creator of this crate creates identifiers and writes them, and *)
(* markers for nodes that are not there, one after another; or anyone at   *)
(* all sends units of their choosing.  The bytes arrive one at a time, and *)
(* a reader takes frames from what it has, with the loop of the doc of     *)
(* read_from_prefix: it waits for more where a read says the data stopped  *)
(* early, and gives up on any other failure.                               *)
(***************************************************************************)
EXTENDS OwidFormat

CONSTANTS
  Senders,      \* the senders considered, of "creator" and "anyone"
  Domains,      \* the domains creators are configured with
  Privates,     \* the texts given as their private keys, Keys and others
  Payloads,     \* the payloads identifiers are created with
  Clocks,       \* what the creator's clock may say, in ticks
  Rooms,        \* what the builds considered can reserve
  Scribbles,    \* the units anyone sends
  FirstUnits,   \* the units anyone may begin with as well
  MaxFrames,    \* bound on the frames sent
  MaxUnits      \* bound on the units anyone sends

\* A domain is a String, so no unit of one is a unit no text holds.
ASSUME EnvelopeAssumption ==
  /\ Senders \subseteq {"creator", "anyone"}
  /\ Domains \subseteq Seq(Bytes \ NotText)
  /\ Payloads \subseteq Seq(Bytes)
  /\ Clocks \subseteq Int
  /\ Rooms \subseteq Nat
  /\ Scribbles \cup FirstUnits \subseteq Bytes
  /\ MaxFrames \in Nat
  /\ Absent \notin [version : Nat, domain : Seq(Nat), date : Int, payload : Seq(Nat),
                    signature : Seq(Nat)]

VARIABLES
  sender,    \* who sends
  room,      \* what this build can reserve
  creator,   \* the result of configuring a creator
  sent,      \* the frames sent, identifiers as they were created
  wire,      \* the units on their way
  arrived,   \* every unit that has arrived
  rest,      \* the units arrived and not consumed
  taken,     \* the frames read, in order
  ended      \* the ParseStatus the reader gave up with, or "none"

envelopeVars == <<sender, room, creator, sent, wire, arrived, rest, taken, ended>>

EnvelopeInit ==
  /\ sender \in Senders
  /\ room \in Rooms
  /\ creator \in (IF sender = "creator"
                  THEN {NewCreator(domain, private) : domain \in Domains, private \in Privates}
                  ELSE {[error |-> "Unasked"]})
  /\ sent = << >> /\ wire = << >> /\ arrived = << >> /\ rest = << >> /\ taken = << >>
  /\ ended = "none"

\* create, then to_buffer.
SendOwid ==
  /\ creator.error = "none"
  /\ Len(sent) < MaxFrames
  /\ \E payload \in Payloads, now \in Clocks :
       LET created == CreateVersion(creator, Version3, payload, now, room)
       IN /\ created.error = "none"
          /\ sent' = Append(sent, created.owid)
          /\ wire' = wire \o ToBuffer(created.owid).units
  /\ UNCHANGED <<sender, room, creator, arrived, rest, taken, ended>>

\* empty_to_buffer.
SendMarker ==
  /\ creator.error = "none"
  /\ Len(sent) < MaxFrames
  /\ sent' = Append(sent, Absent)
  /\ wire' = wire \o Marker
  /\ UNCHANGED <<sender, room, creator, arrived, rest, taken, ended>>

Arrives(unit) ==
  /\ arrived' = Append(arrived, unit)
  /\ rest' = Append(rest, unit)

\* The next unit of what was sent arrives.
Arrive ==
  /\ wire # << >>
  /\ Arrives(Head(wire))
  /\ wire' = Tail(wire)
  /\ UNCHANGED <<sender, room, creator, sent, taken, ended>>

\* A unit of anyone's choosing arrives.
Scribble ==
  /\ sender = "anyone"
  /\ Len(arrived) < MaxUnits
  /\ \E unit \in IF arrived = << >> THEN Scribbles \cup FirstUnits ELSE Scribbles :
       Arrives(unit)
  /\ UNCHANGED <<sender, room, creator, sent, wire, taken, ended>>

\* The answers on which more bytes are worth waiting for.
Waits(result) == result.status \in {"UnexpectedEnd", "MissingInput"}

\* read_from_prefix hands back a frame and the bytes after it.
Take ==
  LET result == ParsePrefix(rest, room)
  IN /\ ended = "none"
     /\ Read(result)
     /\ taken' = Append(taken, result.owid)
     /\ rest' = After(rest, result.used)
     /\ UNCHANGED <<sender, room, creator, sent, wire, arrived, ended>>

\* read_from_prefix fails for good.
GiveUp ==
  LET result == ParsePrefix(rest, room)
  IN /\ ended = "none"
     /\ ~Read(result) /\ ~Waits(result)
     /\ ended' = result.status
     /\ UNCHANGED <<sender, room, creator, sent, wire, arrived, rest, taken>>

EnvelopeNext == SendOwid \/ SendMarker \/ Arrive \/ Scribble \/ Take \/ GiveUp

\* What is on its way arrives, and the reader reads what it can.
EnvelopeSpec ==
  EnvelopeInit /\ [][EnvelopeNext]_envelopeVars
    /\ WF_envelopeVars(Arrive) /\ WF_envelopeVars(Take)

-----------------------------------------------------------------------------
(***************************************************************************)
(* Properties.                                                             *)
(***************************************************************************)
Owids(frames) == {frames[i] : i \in DOMAIN frames} \ {Absent}

WrittenFrame(frame) == IF frame = Absent THEN Marker ELSE ToBuffer(frame).units

WrittenFrames(frames) ==
  LET upTo[n \in 0 .. Len(frames)] ==
        IF n = 0 THEN << >> ELSE upTo[n - 1] \o WrittenFrame(frames[n])
  IN upTo[Len(frames)]

\* An identifier as it is read back: its date is whole minutes, cut.
AsRead(frame) ==
  IF frame = Absent THEN Absent
  ELSE [frame EXCEPT !.date = Whole(@, Minute) * Minute]

Creators == {c \in {NewCreator(domain, private) : domain \in Domains, private \in Privates} :
               c.error = "none"}

Created ==
  {created \in {CreateVersion(c, Version3, payload, now, reserve) :
                  c \in Creators, payload \in Payloads, now \in Clocks, reserve \in Rooms} :
     created.error = "none"}

CreatedFrames == {Absent} \cup {AsRead(created.owid) : created \in Created}

\* The variables hold what their comments say, and an identifier in hand is one
\* of a supported version with a signature of the right length.
EnvelopeTypeOK ==
  /\ sender \in Senders /\ room \in Rooms
  /\ rest = After(arrived, Len(arrived) - Len(rest))
  /\ ended \in {"none", "UnsupportedVersion", "InvalidDomainEncoding",
                "ImplementationCapacityExceeded"}
  /\ \A o \in Owids(taken) \cup Owids(sent) :
       o.version \in Versions /\ Len(o.signature) = SignatureLength

\* A run of frames is a channel: whoever reads takes exactly the frames that were
\* sent, the markers among them, and in the end all of them, however the bytes
\* arrive; an identifier loses nothing but the part of its minute.
Channel ==
  INSTANCE FrameChannel
    WITH Frames <- CreatedFrames,
         MaxFrames <- MaxFrames,
         sent <- [i \in DOMAIN sent |-> AsRead(sent[i])],
         received <- IF sender = "creator" THEN taken ELSE << >>

ChannelSpec == Channel!Spec

EveryFrameArrives == Channel!EveryFrameArrives

\* Every unit that arrived is accounted for: the frames taken, written again, and
\* what is left are what arrived, so a signature is checked over the very bytes
\* that were sent and no unit is read twice or passed over.
Accounted == WrittenFrames(taken) \o rest = arrived

\* What a framed read says of a buffer it says of every longer one, unless it
\* said that the data stopped early: no answer to give up on, and no frame handed
\* back, depends on how much has arrived.
DecisionIsFinal ==
  [][LET before == ParsePrefix(rest, room)
         after == ParsePrefix(rest', room)
     IN Len(rest') > Len(rest) => Waits(before) \/ after = before]_envelopeVars

\* The two reads differ in three answers and no other (src/src/parse.rs:25): a
\* count that is not met, bytes that follow the frame, and a marker.
TwoReadsDiffer ==
  LET prefix == ParsePrefix(rest, room)
      whole == ParseExact(rest, room)
  IN CASE prefix.status = "AbsentNode" -> whole = Fail("AbsentNode")
       [] prefix.status = "Parsed" ->
            whole = IF prefix.used = Len(rest) THEN prefix ELSE Fail("ByteCountMismatch")
       [] OTHER -> whole = prefix \/ /\ prefix.status \in {"UnexpectedEnd",
                                                          "ImplementationCapacityExceeded"}
                                     /\ whole = Fail("ByteCountMismatch")

\* Whoever holds an identifier, read or created, can write it: the write never
\* fails part of the way, is exactly as long as what was reserved for it, and
\* where there is no room for it nothing has been written.
WritesWhatItReserved ==
  \A o \in Owids(taken) \cup Owids(sent) :
    /\ ToBuffer(o).error = "none"
    /\ Len(ToBuffer(o).units) = EncodedLen(o, TRUE)
    /\ Len(NoSignature(o).units) = EncodedLen(o, FALSE)
    /\ AsByteArray(o, room) \in {ToBuffer(o), Refused("ImplementationCapacityExceeded")}

\* An identifier that was read is judged as the one that was created, under every
\* key: valid under its creator's key and no other, and a text that is no key is an
\* invalid key.  The room to write it again is the room it was read with, so a build
\* that read it can judge it.
JudgedAsCreated ==
  \A i \in DOMAIN taken :
    sender = "creator" /\ taken[i] # Absent =>
      \A pem \in Keys \cup Privates :
        LET status == VerifyStatus(taken[i], pem, room)
        IN /\ status = VerifyStatus(sent[i], pem, room)
           /\ status = CASE pem \notin Keys -> "InvalidKey"
                         [] pem = creator.key -> "Valid"
                         [] OTHER -> "Invalid"
=============================================================================
