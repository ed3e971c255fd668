--------------------------- MODULE EnvelopeProofs ---------------------------
(***************************************************************************)
(* Proofs about Envelope: the frames read are the frames sent, written out *)
(* again they are the bytes that arrived, what a read decided stays        *)
(* decided, and an identifier read is judged as the one created, whatever  *)
(* the widths, the domains, the payloads and the dates.                    *)
(***************************************************************************)
EXTENDS Envelope, OwidFormatProofs

-----------------------------------------------------------------------------
(***************************************************************************)
(* The units of a run of frames.                                           *)
(***************************************************************************)

Identifiers ==
  [version : Nat, domain : Seq(Nat), date : Int, payload : Seq(Nat), signature : Seq(Nat)]

\* Whatever can be in hand: a marker, or an identifier no field of which is
\* refused, with a signature of the right length.
Frames ==
  {Absent} \cup {o \in Identifiers : Writable(o) /\ Len(o.signature) = SignatureLength}

\* The units of the first n of the frames, for each n.
Spelled(f, frames) ==
  /\ f \in [0 .. Len(frames) -> Seq(Nat)]
  /\ f[0] = << >>
  /\ \A n \in 1 .. Len(frames) : f[n] = f[n - 1] \o WrittenFrame(frames[n])

\* One frame more.
Spelling(frames) ==
  [p \in (1 .. Len(frames)) \X Seq(Nat) |-> p[2] \o WrittenFrame(frames[p[1]])]

\* A marker is one unit, an identifier is its fields and its signature.
LEMMA FrameUnits ==
  ASSUME NEW frame \in Frames
  PROVE  /\ WrittenFrame(frame) \in Seq(Nat)
         /\ frame = Absent => WrittenFrame(frame) = <<0>>
         /\ frame # Absent => /\ frame \in Identifiers /\ Writable(frame)
                              /\ Len(frame.signature) = SignatureLength
                              /\ frame.signature \in Seq(Nat)
                              /\ WrittenFrame(frame) = OwidUnits(frame)
  <1>1. CASE frame = Absent
    BY <1>1 DEF WrittenFrame, Marker, Empty
  <1>2. CASE frame # Absent
    <2>1. /\ frame \in Identifiers /\ Writable(frame)
          /\ Len(frame.signature) = SignatureLength
      BY <1>2 DEF Frames
    <2>2. frame.signature \in Seq(Nat)
      BY <2>1 DEF Identifiers
    <2>3. ToBuffer(frame) = Written(OwidUnits(frame)) /\ OwidUnits(frame) \in Seq(Nat)
      BY <2>1, <2>2, WritesFields
    <2>4. WrittenFrame(frame) = OwidUnits(frame)
      BY <1>2, <2>3 DEF WrittenFrame, Written
    <2>. QED BY <1>2, <2>1, <2>2, <2>3, <2>4
  <1>. QED BY <1>1, <1>2

\* WrittenFrames joins the writing of each frame to those of the frames before it.
LEMMA SpellingExists ==
  ASSUME NEW frames \in Seq(Frames)
  PROVE  \E f : Spelled(f, frames) /\ f[Len(frames)] = WrittenFrames(frames)
  <1>1. PICK top \in Nat : top = Len(frames)
    OBVIOUS
  <1>2. ASSUME NEW i \in 1 .. top PROVE i - 1 \in Nat /\ WrittenFrame(frames[i]) \in Seq(Nat)
    <2>1. i - 1 \in Nat /\ frames[i] \in Frames
      BY <1>1
    <2>. QED BY <2>1, FrameUnits
  <1>3. Spelling(frames) \in [(1 .. top) \X Seq(Nat) -> Seq(Nat)]
    <2>1. ASSUME NEW p \in (1 .. top) \X Seq(Nat)
          PROVE  p[2] \o WrittenFrame(frames[p[1]]) \in Seq(Nat)
      <3>1. PICK i \in 1 .. top, s \in Seq(Nat) : i = p[1] /\ s = p[2]
        OBVIOUS
      <3>2. s \o WrittenFrame(frames[i]) \in Seq(Nat)
        BY <1>2, Joined
      <3>. QED BY <3>1, <3>2
    <2>. QED BY <1>1, <2>1 DEF Spelling
  <1>4. PICK g : Recursive(g, Seq(Nat), << >>, Spelling(frames), top)
    <2>1. << >> \in Seq(Nat)
      OBVIOUS
    <2>. QED BY <1>3, <2>1, RecursionExists, Zenon
  <1>5. g \in [0 .. top -> Seq(Nat)] /\ g[0] = << >>
    BY <1>4 DEF Recursive
  <1>6. ASSUME NEW i \in 1 .. top PROVE g[i] = g[i - 1] \o WrittenFrame(frames[i])
    <2>1. g[i] = Spelling(frames)[<<i, g[i - 1]>>]
      BY <1>4 DEF Recursive
    <2>2. <<i, g[i - 1]>> \in (1 .. Len(frames)) \X Seq(Nat)
      <3>1. i - 1 \in 0 .. top
        OBVIOUS
      <3>2. g[i - 1] \in Seq(Nat)
        BY <1>5, <3>1
      <3>. QED BY <1>1, <3>2
    <2>. QED BY <2>1, <2>2 DEF Spelling
  <1>. DEFINE nothing == << >>
              next(s, i) == s \o WrittenFrame(frames[i])
  <1>7. g = [i \in 0 .. top |-> IF i = 0 THEN nothing ELSE next(g[i - 1], i)]
    <2>1. g = [i \in 0 .. top |-> g[i]]
      BY <1>5
    <2>2. g[0] = nothing /\ \A i \in 1 .. top : g[i] = next(g[i - 1], i)
      BY <1>5, <1>6
    <2>. HIDE DEF nothing, next
    <2>3. \A i \in 0 .. top : g[i] = IF i = 0 THEN nothing ELSE next(g[i - 1], i)
      BY <2>2
    <2>. QED BY <2>1, <2>3
  <1>8. PICK h : /\ h = [i \in 0 .. Len(frames) |-> IF i = 0 THEN nothing ELSE next(h[i - 1], i)]
                 /\ WrittenFrames(frames) = h[Len(frames)]
    BY <1>1, <1>7, Zenon DEF WrittenFrames
  <1>9. h[0] = << >> /\ \A i \in 1 .. top : h[i] = h[i - 1] \o WrittenFrame(frames[i])
    <2>. HIDE DEF nothing, next
    <2>1. h[0] = nothing /\ \A i \in 1 .. top : h[i] = next(h[i - 1], i)
      BY <1>1, <1>8
    <2>. USE DEF nothing, next
    <2>. QED BY <2>1, Zenon
  <1>10. h[top] = g[top]
    <2>. DEFINE S == {i \in 0 .. top : h[i] = g[i]}
    <2>1. 0 \in S
      BY <1>5, <1>9
    <2>2. ASSUME NEW i \in 0 .. top - 1, i \in S PROVE i + 1 \in S
      <3>1. i + 1 \in 1 .. top /\ (i + 1) - 1 = i /\ h[i] = g[i] /\ i + 1 \in 0 .. top
        BY <2>2
      <3>2. h[i + 1] = h[i] \o WrittenFrame(frames[i + 1])
        BY <1>9, <3>1
      <3>3. g[i + 1] = g[i] \o WrittenFrame(frames[i + 1])
        BY <1>6, <3>1
      <3>. QED BY <3>1, <3>2, <3>3
    <2>3. \A i \in S : h[i] = g[i]
      OBVIOUS
    <2>. HIDE DEF S
    <2>4. \A i \in 0 .. top : i \in S
      BY <2>1, <2>2, Inductive
    <2>. QED BY <2>3, <2>4
  <1>11. Spelled(g, frames)
    BY <1>1, <1>5, <1>6 DEF Spelled
  <1>. QED BY <1>1, <1>8, <1>10, <1>11

\* Runs that begin with frames of the same units begin with the same units.
LEMMA SpelledAlike ==
  ASSUME NEW s \in Seq(Frames), NEW t \in Seq(Frames), NEW f, NEW g,
         Spelled(f, s), Spelled(g, t), NEW k \in Nat, k <= Len(s), k <= Len(t),
         \A i \in 1 .. k : WrittenFrame(s[i]) = WrittenFrame(t[i])
  PROVE  f[k] = g[k]
  <1>. DEFINE S == {i \in 0 .. k : f[i] = g[i]}
  <1>1. 0 \in S
    BY DEF Spelled
  <1>2. ASSUME NEW i \in 0 .. k - 1, i \in S PROVE i + 1 \in S
    <2>1. /\ i + 1 \in 1 .. k /\ (i + 1) - 1 = i /\ f[i] = g[i] /\ i + 1 \in 0 .. k
          /\ i + 1 \in 1 .. Len(s) /\ i + 1 \in 1 .. Len(t)
      BY <1>2
    <2>2. f[i + 1] = f[i] \o WrittenFrame(s[i + 1]) /\ g[i + 1] = g[i] \o WrittenFrame(t[i + 1])
      BY <2>1 DEF Spelled
    <2>3. WrittenFrame(s[i + 1]) = WrittenFrame(t[i + 1])
      BY <2>1
    <2>. QED BY <2>1, <2>2, <2>3
  <1>3. \A i \in S : f[i] = g[i]
    OBVIOUS
  <1>. HIDE DEF S
  <1>4. \A i \in 0 .. k : i \in S
    BY <1>1, <1>2, Inductive
  <1>. QED BY <1>3, <1>4

\* What is spelled of a run is the beginning of what is spelled of more of it.
LEMMA SpelledFurther ==
  ASSUME NEW frames \in Seq(Frames), NEW f, Spelled(f, frames), NEW k \in 0 .. Len(frames)
  PROVE  \E more \in Seq(Nat) : f[Len(frames)] = f[k] \o more
  <1>1. PICK left \in Nat : left = Len(frames) - k
    OBVIOUS
  <1>2. PICK first \in Seq(Nat) : first = f[k]
    BY DEF Spelled
  <1>. DEFINE S == {i \in 0 .. left : \E more \in Seq(Nat) : f[k + i] = first \o more}
  <1>3. 0 \in S
    <2>1. << >> \in Seq(Nat) /\ first \o << >> = first /\ k + 0 = k /\ 0 \in 0 .. left
      OBVIOUS
    <2>2. \E more \in Seq(Nat) : f[k + 0] = first \o more
      BY <1>2, <2>1, Zenon
    <2>. QED BY <2>1, <2>2, Zenon
  <1>4. ASSUME NEW i \in 0 .. left - 1, i \in S PROVE i + 1 \in S
    <2>1. PICK more \in Seq(Nat) : f[k + i] = first \o more
      BY <1>4
    <2>2. /\ k + (i + 1) \in 1 .. Len(frames) /\ (k + (i + 1)) - 1 = k + i
          /\ i + 1 \in 0 .. left
      BY <1>1
    <2>3. f[k + (i + 1)] = f[k + i] \o WrittenFrame(frames[k + (i + 1)])
      BY <2>2 DEF Spelled
    <2>4. PICK u \in Seq(Nat) : u = WrittenFrame(frames[k + (i + 1)])
      BY <2>2, FrameUnits
    <2>5. (first \o more) \o u = first \o (more \o u)
      BY Regrouped
    <2>6. more \o u \in Seq(Nat)
      BY Joined
    <2>. QED BY <2>1, <2>2, <2>3, <2>4, <2>5, <2>6
  <1>5. \A i \in S : \E more \in Seq(Nat) : f[k + i] = first \o more
    OBVIOUS
  <1>. HIDE DEF S
  <1>6. \A i \in 0 .. left : i \in S
    BY <1>3, <1>4, Inductive
  <1>7. left \in 0 .. left /\ k + left = Len(frames)
    BY <1>1
  <1>. QED BY <1>2, <1>5, <1>6, <1>7

\* Frames are written as units.
LEMMA FramesUnits ==
  ASSUME NEW frames \in Seq(Frames)
  PROVE  WrittenFrames(frames) \in Seq(Nat)
  <1>1. PICK f : Spelled(f, frames) /\ f[Len(frames)] = WrittenFrames(frames)
    BY SpellingExists
  <1>2. Len(frames) \in 0 .. Len(frames)
    OBVIOUS
  <1>. QED BY <1>1, <1>2 DEF Spelled

\* No frames are written as nothing.
LEMMA NoFrames == WrittenFrames(<< >>) = << >>
  <1>1. << >> \in Seq(Frames) /\ Len(<< >>) = 0
    OBVIOUS
  <1>2. PICK f : Spelled(f, << >>) /\ f[Len(<< >>)] = WrittenFrames(<< >>)
    BY <1>1, SpellingExists
  <1>. QED BY <1>1, <1>2 DEF Spelled

\* A frame more is its units more.
LEMMA FrameAppended ==
  ASSUME NEW frames \in Seq(Frames), NEW frame \in Frames
  PROVE  WrittenFrames(Append(frames, frame)) = WrittenFrames(frames) \o WrittenFrame(frame)
  <1>. DEFINE longer == Append(frames, frame)
              n == Len(frames)
  <1>1. /\ longer \in Seq(Frames) /\ Len(longer) = n + 1 /\ longer[n + 1] = frame
        /\ \A i \in 1 .. n : longer[i] = frames[i]
    OBVIOUS
  <1>2. PICK f : Spelled(f, longer) /\ f[Len(longer)] = WrittenFrames(longer)
    BY <1>1, SpellingExists
  <1>3. PICK g : Spelled(g, frames) /\ g[Len(frames)] = WrittenFrames(frames)
    BY SpellingExists
  <1>4. /\ n \in Nat /\ n <= Len(longer) /\ n <= Len(frames)
        /\ n + 1 \in 1 .. Len(longer) /\ (n + 1) - 1 = n
    BY <1>1
  <1>5. f[n] = g[n]
    <2>1. \A i \in 1 .. n : WrittenFrame(longer[i]) = WrittenFrame(frames[i])
      BY <1>1
    <2>. HIDE DEF longer, n
    <2>. QED BY <1>1, <1>2, <1>3, <1>4, <2>1, SpelledAlike
  <1>6. f[n + 1] = f[n] \o WrittenFrame(frame)
    <2>1. f[n + 1] = f[(n + 1) - 1] \o WrittenFrame(longer[n + 1])
      BY <1>2, <1>4 DEF Spelled
    <2>. QED BY <1>1, <1>4, <2>1
  <1>. QED BY <1>1, <1>2, <1>3, <1>5, <1>6

\* A run whose beginning has the units of another run goes on with its next
\* frame; one that is no longer has the same units.
LEMMA FramesSplit ==
  ASSUME NEW s \in Seq(Frames), NEW t \in Seq(Frames), Len(t) <= Len(s),
         \A i \in 1 .. Len(t) : WrittenFrame(s[i]) = WrittenFrame(t[i])
  PROVE  /\ Len(t) = Len(s) => WrittenFrames(s) = WrittenFrames(t)
         /\ Len(t) < Len(s) =>
              \E more \in Seq(Nat) :
                WrittenFrames(s) = WrittenFrames(t) \o (WrittenFrame(s[Len(t) + 1]) \o more)
  <1>1. PICK f : Spelled(f, s) /\ f[Len(s)] = WrittenFrames(s)
    BY SpellingExists
  <1>2. PICK g : Spelled(g, t) /\ g[Len(t)] = WrittenFrames(t)
    BY SpellingExists
  <1>3. PICK k \in Nat : k = Len(t)
    OBVIOUS
  <1>4. f[k] = WrittenFrames(t)
    <2>1. f[k] = g[k]
      BY <1>1, <1>2, <1>3, SpelledAlike
    <2>. QED BY <1>2, <1>3, <2>1
  <1>5. ASSUME k < Len(s)
        PROVE  \E more \in Seq(Nat) : WrittenFrames(s) = f[k] \o (WrittenFrame(s[k + 1]) \o more)
    <2>1. k + 1 \in 1 .. Len(s) /\ (k + 1) - 1 = k /\ k + 1 \in 0 .. Len(s) /\ k \in 0 .. Len(s)
      BY <1>5
    <2>2. PICK more \in Seq(Nat) : f[Len(s)] = f[k + 1] \o more
      BY <1>1, <2>1, SpelledFurther
    <2>3. f[k + 1] = f[k] \o WrittenFrame(s[k + 1])
      BY <1>1, <2>1 DEF Spelled
    <2>4. PICK first \in Seq(Nat) : first = f[k]
      BY <1>1, <2>1 DEF Spelled
    <2>5. PICK second \in Seq(Nat) : second = WrittenFrame(s[k + 1])
      BY <2>1, FrameUnits
    <2>6. (first \o second) \o more = first \o (second \o more)
      BY Regrouped
    <2>. QED BY <1>1, <2>2, <2>3, <2>4, <2>5, <2>6
  <1>. QED BY <1>1, <1>3, <1>4, <1>5

-----------------------------------------------------------------------------
(***************************************************************************)
(* Identifiers created.                                                    *)
(***************************************************************************)

\* An identifier as the creator c makes it in a build with that room: a version
\* 3 identifier of its domain, signed with its key over its fields.
MadeBy(c, reserve, o) ==
  /\ o \in Frames \ {Absent} /\ o.version = Version3
  /\ o.domain = c.domain /\ \A i \in 1 .. Len(o.domain) : o.domain[i] \notin NotText
  /\ o.signature = SignByteArray(c.key, FieldUnits(o))
  /\ EncodedLen(o, FALSE) <= reserve
  /\ WriteDate(o.date, Version3).error = "none"
  /\ AsRead(o) \in CreatedFrames

\* A creator that was configured has a domain that can be written and a key.
LEMMA CreatorFacts ==
  ASSUME NEW domain \in Domains, NEW private \in Privates,
         NEW c, c = NewCreator(domain, private), c.error = "none"
  PROVE  /\ c.domain = domain /\ c.key = private /\ private \in Keys
         /\ domain \in Seq(Nat) /\ Len(domain) <= MaxDomain
         /\ \A i \in 1 .. Len(domain) : domain[i] \notin NotText
         /\ c \in Creators
  <1>1. private \in Keys /\ ~(\A i \in DOMAIN domain : domain[i] \in Blanks) /\ ~(Len(domain) > MaxDomain)
    BY DEF NewCreator
  <1>2. c = [error |-> "none", domain |-> domain, key |-> private]
    BY <1>1 DEF NewCreator
  <1>3. domain \in Seq(Bytes \ NotText)
    BY EnvelopeAssumption
  <1>4. Len(domain) \in Nat /\ MaxDomain \in Nat /\ \A i \in 1 .. Len(domain) : domain[i] \in Bytes \ NotText
    BY <1>3, UnitsType
  <1>5. domain \in Seq(Nat)
    <2>1. Bytes \ NotText \subseteq Nat
      BY BytesAreNaturals
    <2>. QED BY <1>3, <2>1, SeqMonotonic
  <1>6. c \in Creators
    BY DEF Creators
  <1>. QED BY <1>1, <1>2, <1>4, <1>5, <1>6

\* Where a write went through, both of its parts did.
LEMMA ThenWritten ==
  ASSUME NEW first, NEW next, Then(first, next).error = "none"
  PROVE  first.error = "none" /\ next.error = "none"
  BY DEF Then

\* Identifiers of the same fields are written alike, whatever their signatures.
LEMMA SameFields ==
  ASSUME NEW o, NEW u, o.version = u.version, o.domain = u.domain, o.payload = u.payload,
         WriteDate(o.date, o.version) = WriteDate(u.date, u.version)
  PROVE  /\ FieldUnits(o) = FieldUnits(u)
         /\ EncodedLen(o, FALSE) = EncodedLen(u, FALSE)
         /\ Writable(u) => Writable(o)
  <1>1. FieldUnits(o) = FieldUnits(u)
    BY DEF FieldUnits, DateUnits, LengthUnits
  <1>2. EncodedLen(o, FALSE) = EncodedLen(u, FALSE)
    BY DEF EncodedLen
  <1>3. Writable(u) => Writable(o)
    BY DEF Writable
  <1>. QED BY <1>1, <1>2, <1>3

\* What is created is signed over its fields, and no field of it is refused.
LEMMA CreatedIsMade ==
  ASSUME NEW c \in Creators, NEW payload \in Payloads, NEW now \in Clocks, NEW reserve \in Rooms,
         NEW created, created = CreateVersion(c, Version3, payload, now, reserve),
         created.error = "none"
  PROVE  MadeBy(c, reserve, created.owid)
  <1>1. PICK domain \in Domains, private \in Privates :
          c = NewCreator(domain, private) /\ c.error = "none"
    BY DEF Creators
  <1>2. /\ c.domain = domain /\ c.key = private /\ private \in Keys
        /\ domain \in Seq(Nat) /\ Len(domain) <= MaxDomain
        /\ \A i \in 1 .. Len(domain) : domain[i] \notin NotText
    BY <1>1, CreatorFacts
  <1>. DEFINE u == Unsigned(c, Version3, payload, now)
              data == SignedBytes(u, reserve)
              o == created.owid
  <1>3. /\ u.version = Version3 /\ u.domain = domain /\ u.date = now
        /\ u.payload = payload /\ u.signature = << >>
    BY <1>2 DEF Unsigned
  <1>4. /\ payload \in Seq(Nat) /\ Len(payload) \in Nat /\ now \in Int /\ reserve \in Nat
        /\ Version3 \in Nat /\ Version3 \in Versions
    <2>1. payload \in Seq(Bytes) /\ now \in Int /\ reserve \in Nat
      BY EnvelopeAssumption
    <2>2. payload \in Seq(Nat)
      BY <2>1, BytesAreNaturals
    <2>. QED BY <2>1, <2>2 DEF Version3, Versions
  <1>5. data.error = "none"
    BY DEF CreateVersion
  <1>6. created = [error |-> "none",
                   owid |-> [u EXCEPT !.signature = SignByteArray(c.key, data.units)]]
    BY <1>5 DEF CreateVersion
  <1>. HIDE DEF u
  <1>7. /\ LengthRefused(u, FALSE) = "none" /\ ~(EncodedLen(u, FALSE) > reserve)
        /\ data = NoSignature(u)
    BY <1>5 DEF SignedBytes, Reserved, Refused
  <1>8. WriteDomain(domain).error = "none" /\ WriteDate(now, Version3).error = "none"
    <2>1. NoSignature(u).error = "none"
      BY <1>5, <1>7
    <2>2. Then(Then(Written(<<u.version>>), WriteDomain(u.domain)),
               WriteDate(u.date, u.version)).error = "none"
      BY <2>1, ThenWritten DEF NoSignature
    <2>3. /\ Then(Written(<<u.version>>), WriteDomain(u.domain)).error = "none"
          /\ WriteDate(u.date, u.version).error = "none"
      BY <2>2, ThenWritten
    <2>4. WriteDomain(u.domain).error = "none"
      BY <2>3, ThenWritten
    <2>. QED BY <1>3, <2>3, <2>4
  <1>9. Writable(u)
    <2>1. \A i \in 1 .. Len(domain) : domain[i] # 0
      <3>1. ~(\E i \in DOMAIN domain : domain[i] = 0)
        BY <1>8 DEF WriteDomain, Refused
      <3>. QED BY <1>2, <3>1
    <2>2. /\ Whole(now, Minute) \in 0 .. Power[LongWidth] - 1
          /\ WriteDate(now, Version3) = Written(LittleEndian(Whole(now, Minute), LongWidth))
      BY <1>4, <1>8, ReadsDateWritten
    <2>3. /\ LittleEndian(Whole(now, Minute), LongWidth) \in Seq(Bytes)
          /\ Len(LittleEndian(Whole(now, Minute), LongWidth)) = LongWidth
      <3>1. Whole(now, Minute) \in Nat /\ LongWidth \in Nat
        BY <2>2, UnitsType
      <3>. QED BY <3>1, DigitsType
    <2>4. /\ WriteDate(u.date, u.version) = Written(WriteDate(u.date, u.version).units)
          /\ WriteDate(u.date, u.version).units \in Seq(Bytes)
          /\ Len(WriteDate(u.date, u.version).units) = DateLength(u.version)
      <3>1. DateLength(Version3) = LongWidth
        BY DEF DateLength, Version3, Version1
      <3>. QED BY <1>3, <2>2, <2>3, <3>1 DEF Written
    <2>5. Fits(Len(u.payload), LongWidth)
      BY <1>7 DEF LengthRefused
    <2>. QED BY <1>2, <1>3, <1>4, <2>1, <2>4, <2>5 DEF Writable
  <1>10. /\ data.units = FieldUnits(u) /\ FieldUnits(u) \in Seq(Nat)
         /\ EncodedLen(u, FALSE) \in Nat
    <2>1. NoSignature(u) = Written(FieldUnits(u))
      BY <1>9, WritesFields
    <2>2. FieldUnits(u) \in Seq(Nat) /\ Len(FieldUnits(u)) = EncodedLen(u, FALSE)
      BY <1>9, WritableUnits
    <2>3. Len(FieldUnits(u)) \in Nat
      BY <2>2, LenProperties, Zenon
    <2>4. data.units = FieldUnits(u)
      BY <1>7, <2>1 DEF Written
    <2>. QED BY <2>2, <2>3, <2>4
  <1>11. /\ o.version = Version3 /\ o.domain = domain /\ o.date = now /\ o.payload = payload
         /\ o.signature = SignByteArray(private, FieldUnits(u))
         /\ o = [version |-> Version3, domain |-> domain, date |-> now, payload |-> payload,
                 signature |-> SignByteArray(private, FieldUnits(u))]
    <2>1. o = [u EXCEPT !.signature = SignByteArray(private, FieldUnits(u))]
      BY <1>2, <1>6, <1>10
    <2>2. u = [version |-> Version3, domain |-> domain, date |-> now, payload |-> payload,
               signature |-> << >>]
      BY <1>2 DEF u, Unsigned
    <2>. QED BY <2>1, <2>2
  <1>12. /\ SignByteArray(private, FieldUnits(u)) \in Seq(Nat)
         /\ Len(SignByteArray(private, FieldUnits(u))) = SignatureLength
    BY <1>2, <1>10, SignatureFacts
  <1>13. created \in Created
    BY DEF Created
  <1>. HIDE DEF data, o
  <1>14. o \in Identifiers
    BY <1>2, <1>4, <1>11, <1>12 DEF Identifiers
  <1>15. FieldUnits(o) = FieldUnits(u) /\ EncodedLen(o, FALSE) = EncodedLen(u, FALSE) /\ Writable(o)
    BY <1>3, <1>9, <1>11, SameFields
  <1>16. o \in Frames \ {Absent}
    BY <1>11, <1>12, <1>14, <1>15, EnvelopeAssumption DEF Frames, Identifiers
  <1>17. AsRead(o) \in CreatedFrames
    BY <1>13 DEF CreatedFrames, o
  <1>18. EncodedLen(o, FALSE) <= reserve
    <2>1. PICK length \in Nat, most \in Nat : length = EncodedLen(u, FALSE) /\ most = reserve
      BY <1>4, <1>10
    <2>2. ~(length > most) => length <= most
      OBVIOUS
    <2>. QED BY <1>7, <1>15, <2>1, <2>2
  <1>. QED BY <1>2, <1>8, <1>11, <1>15, <1>16, <1>17, <1>18 DEF MadeBy, o

\* An identifier created is read as itself but for the part of its minute, and
\* what is read is written as what was created.
LEMMA CreatedIsReadBack ==
  ASSUME NEW c, NEW reserve \in Nat, NEW o, MadeBy(c, reserve, o)
  PROVE  /\ AsRead(o) \in Frames \ {Absent}
         /\ FieldUnits(AsRead(o)) = FieldUnits(o)
         /\ AsRead(o).signature = o.signature
         /\ EncodedLen(AsRead(o), FALSE) = EncodedLen(o, FALSE)
         /\ WrittenFrame(AsRead(o)) = WrittenFrame(o)
         /\ ParsePrefix(WrittenFrame(o), reserve)
              = [status |-> "Parsed", used |-> Len(WrittenFrame(o)), owid |-> AsRead(o)]
  <1>1. /\ o \in Frames /\ o # Absent /\ o.version = Version3
        /\ \A i \in 1 .. Len(o.domain) : o.domain[i] \notin NotText
        /\ EncodedLen(o, FALSE) <= reserve
        /\ WriteDate(o.date, Version3).error = "none"
    BY DEF MadeBy
  <1>2. /\ o \in Identifiers /\ Writable(o) /\ Len(o.signature) = SignatureLength
        /\ o.signature \in Seq(Nat) /\ WrittenFrame(o) = OwidUnits(o)
    BY <1>1, FrameUnits
  <1>3. PICK minutes \in Nat :
          /\ minutes = Whole(o.date, Minute)
          /\ WriteDate(o.date, Version3) = Written(LittleEndian(minutes, LongWidth))
          /\ ReadDate(LittleEndian(minutes, LongWidth), Version3) = minutes * Minute
    <2>1. o.date \in Int
      BY <1>2 DEF Identifiers
    <2>2. /\ Whole(o.date, Minute) \in 0 .. Power[LongWidth] - 1
          /\ WriteDate(o.date, Version3) = Written(LittleEndian(Whole(o.date, Minute), LongWidth))
          /\ ReadDate(LittleEndian(Whole(o.date, Minute), LongWidth), Version3)
               = Whole(o.date, Minute) * Minute
      BY <1>1, <2>1, ReadsDateWritten
    <2>3. Whole(o.date, Minute) \in Nat
      BY <2>2
    <2>. QED BY <2>2, <2>3
  <1>4. PICK date \in Nat : date = minutes * Minute /\ Whole(date, Minute) = minutes
    BY UnitsType, WholeOfUnits
  <1>. DEFINE r == AsRead(o)
  <1>5. r = [o EXCEPT !.date = date]
    BY <1>1, <1>3, <1>4 DEF AsRead
  <1>6. o = [version |-> o.version, domain |-> o.domain, date |-> o.date, payload |-> o.payload,
             signature |-> o.signature]
    BY <1>2 DEF Identifiers
  <1>7. /\ r = [version |-> o.version, domain |-> o.domain, date |-> date,
                payload |-> o.payload, signature |-> o.signature]
        /\ r.version = o.version /\ r.domain = o.domain /\ r.date = date
        /\ r.payload = o.payload /\ r.signature = o.signature
    BY <1>5, <1>6
  <1>. HIDE DEF r
  <1>8. r \in Identifiers
    <2>1. date \in Int
      OBVIOUS
    <2>. QED BY <1>2, <1>7, <2>1 DEF Identifiers
  <1>9. WriteDate(r.date, r.version) = WriteDate(o.date, o.version)
    <2>. DEFINE minutesIn(d) == Whole(d, Minute)
    <2>1. minutesIn(date) = minutesIn(o.date)
      BY <1>3, <1>4
    <2>2. \A d : WriteDate(d, Version3) = WriteNumber(minutesIn(d), LongWidth, LittleEndian(minutesIn(d), LongWidth))
      BY DEF WriteDate, Version3, Version2, Version1
    <2>. HIDE DEF minutesIn
    <2>3. WriteDate(date, Version3) = WriteDate(o.date, Version3)
      BY <2>1, <2>2
    <2>. QED BY <1>1, <1>7, <2>3
  <1>10. FieldUnits(r) = FieldUnits(o) /\ EncodedLen(r, FALSE) = EncodedLen(o, FALSE) /\ Writable(r)
    BY <1>2, <1>7, <1>9, SameFields
  <1>11. r \in Frames \ {Absent}
    BY <1>2, <1>7, <1>8, <1>10, EnvelopeAssumption DEF Frames, Identifiers
  <1>12. WrittenFrame(r) = WrittenFrame(o)
    <2>1. WrittenFrame(r) = OwidUnits(r)
      BY <1>11, FrameUnits
    <2>. QED BY <1>2, <1>7, <1>10, <2>1 DEF OwidUnits
  <1>13. ParsePrefix(WrittenFrame(o), reserve)
           = [status |-> "Parsed", used |-> Len(WrittenFrame(o)), owid |-> r]
    <2>1. Len(o.payload) <= reserve
      <3>1. PICK n \in Nat, m \in Nat, k \in Nat, l \in Nat :
              n = Len(o.payload) /\ m = Len(o.domain) /\ k = DateLength(o.version) /\ l = LongWidth
        BY <1>2, UnitsType DEF Identifiers
      <3>2. EncodedLen(o, FALSE) = 1 + m + 1 + k + l + n + 0
        BY <3>1 DEF EncodedLen
      <3>3. \A most \in Nat : 1 + m + 1 + k + l + n + 0 <= most => n <= most
        OBVIOUS
      <3>. QED BY <1>1, <3>1, <3>2, <3>3
    <2>2. ParsePrefix(OwidUnits(o), reserve)
            = [status |-> "Parsed", used |-> Len(OwidUnits(o)),
               owid |-> [version |-> o.version, domain |-> o.domain,
                         date |-> ReadDate(DateUnits(o), o.version),
                         payload |-> o.payload, signature |-> o.signature]]
      BY <1>1, <1>2, <2>1, ReadsWhatItWrites
    <2>3. DateUnits(o) = LittleEndian(minutes, LongWidth)
      BY <1>1, <1>3 DEF DateUnits, Written
    <2>4. ReadDate(DateUnits(o), o.version) = date
      BY <1>1, <1>3, <1>4, <2>3
    <2>. QED BY <1>2, <1>7, <2>2, <2>4
  <1>. QED BY <1>7, <1>10, <1>11, <1>12, <1>13 DEF r

\* Whoever signed the fields of an identifier, and no one else, is found to have
\* signed it, where there is room for the fields.
LEMMA JudgedByItsSigner ==
  ASSUME NEW o \in Frames \ {Absent}, NEW key \in Keys, NEW reserve \in Nat,
         o.signature = SignByteArray(key, FieldUnits(o)), EncodedLen(o, FALSE) <= reserve,
         NEW pem
  PROVE  VerifyStatus(o, pem, reserve) = CASE pem \notin Keys -> "InvalidKey"
                                           [] pem = key -> "Valid"
                                           [] OTHER -> "Invalid"
  <1>1. Writable(o) /\ Len(o.signature) = SignatureLength
    BY FrameUnits
  <1>2. /\ NoSignature(o) = Written(FieldUnits(o)) /\ LengthRefused(o, FALSE) = "none"
        /\ FieldUnits(o) \in Seq(Nat) /\ Len(FieldUnits(o)) = EncodedLen(o, FALSE)
    BY <1>1, WritesFields, WritableUnits
  <1>3. SignedBytes(o, reserve) = Written(FieldUnits(o))
    <2>1. EncodedLen(o, FALSE) \in Nat
      BY <1>2, LenProperties, Zenon
    <2>2. ~(EncodedLen(o, FALSE) > reserve)
      <3>1. PICK length \in Nat : length = EncodedLen(o, FALSE)
        BY <2>1
      <3>2. length <= reserve => ~(length > reserve)
        OBVIOUS
      <3>. QED BY <3>1, <3>2
    <2>. QED BY <1>2, <2>2 DEF SignedBytes, Reserved
  <1>4. CASE pem \notin Keys
    BY <1>4 DEF VerifyStatus, VerifyWithPublicKey, SignatureStatusOf
  <1>5. ASSUME pem \in Keys
        PROVE  VerifyStatus(o, pem, reserve) = IF pem = key THEN "Valid" ELSE "Invalid"
    <2>1. VerifyWithPublicKey(o, pem, reserve) = VerifyByteArray(pem, FieldUnits(o), o.signature)
      BY <1>3, <1>5 DEF VerifyWithPublicKey, Written
    <2>2. o.signature = SignByteArray(pem, FieldUnits(o)) <=> pem = key
      BY <1>2, <1>5, SignatureFacts
    <2>3. VerifyByteArray(pem, FieldUnits(o), o.signature) = IF pem = key THEN "true" ELSE "false"
      BY <1>1, <2>2 DEF VerifyByteArray
    <2>. QED BY <2>1, <2>3 DEF VerifyStatus, SignatureStatusOf
  <1>. QED BY <1>4, <1>5

-----------------------------------------------------------------------------
(***************************************************************************)
(* The invariant.                                                          *)
(***************************************************************************)
SequencesOK ==
  /\ sender \in Senders /\ room \in Rooms
  /\ sent \in Seq(Frames) /\ taken \in Seq(Frames)
  /\ wire \in Seq(Nat) /\ arrived \in Seq(Nat) /\ rest \in Seq(Nat)

Endings ==
  ended \in {"none", "UnsupportedVersion", "InvalidDomainEncoding", "ImplementationCapacityExceeded"}

\* Anyone sends bytes, and no frames that are known of.
AnyonesUnits ==
  sender # "creator" => /\ creator.error = "Unasked"
                        /\ sent = << >> /\ wire = << >>
                        /\ rest \in Seq(Bytes)

\* What a creator sends it made; what was sent has arrived or is on its way, and
\* the frames taken are the first of those sent.
CreatorsFrames ==
  sender = "creator" =>
    /\ creator.error = "none" => creator \in Creators
    /\ \A i \in 1 .. Len(sent) : sent[i] # Absent => /\ creator \in Creators
                                                     /\ MadeBy(creator, room, sent[i])
    /\ Len(taken) <= Len(sent)
    /\ \A i \in 1 .. Len(taken) : taken[i] = AsRead(sent[i])
    /\ WrittenFrames(sent) = arrived \o wire

EnvelopeInv == SequencesOK /\ Endings /\ AnyonesUnits /\ CreatorsFrames /\ Accounted

\* At first nothing was sent, and nothing arrived.
LEMMA InitInv == EnvelopeInit => EnvelopeInv
  <1>. SUFFICES ASSUME EnvelopeInit PROVE EnvelopeInv
    OBVIOUS
  <1>1. /\ sender \in Senders /\ room \in Rooms /\ sent = << >> /\ wire = << >> /\ arrived = << >>
        /\ rest = << >> /\ taken = << >> /\ ended = "none"
    BY DEF EnvelopeInit
  <1>2. << >> \in Seq(Frames) /\ << >> \in Seq(Nat) /\ << >> \in Seq(Bytes) /\ Len(<< >>) = 0
        /\ << >> \o << >> = << >>
    OBVIOUS
  <1>3. SequencesOK /\ Endings
    BY <1>1, <1>2 DEF SequencesOK, Endings
  <1>4. Accounted
    BY <1>1, <1>2, NoFrames DEF Accounted
  <1>5. AnyonesUnits
    <2>1. ASSUME sender # "creator" PROVE creator.error = "Unasked"
      BY <2>1 DEF EnvelopeInit
    <2>. QED BY <1>1, <1>2, <2>1 DEF AnyonesUnits
  <1>6. CreatorsFrames
    <2>1. ASSUME sender = "creator", creator.error = "none" PROVE creator \in Creators
      BY <2>1 DEF EnvelopeInit, Creators
    <2>2. \A i \in 1 .. Len(sent) : FALSE
      BY <1>1, <1>2
    <2>3. \A i \in 1 .. Len(taken) : FALSE
      BY <1>1, <1>2
    <2>4. Len(taken) <= Len(sent)
      BY <1>1, <1>2
    <2>5. WrittenFrames(sent) = arrived \o wire
      BY <1>1, <1>2, NoFrames
    <2>. QED BY <2>1, <2>2, <2>3, <2>4, <2>5 DEF CreatorsFrames
  <1>. QED BY <1>3, <1>4, <1>5, <1>6 DEF EnvelopeInv

\* A unit that arrives is the last of what arrived and the last of what is left.
LEMMA ArrivesKeepsAccount ==
  ASSUME SequencesOK, Accounted, NEW unit \in Nat, Arrives(unit), UNCHANGED taken
  PROVE  /\ arrived' = arrived \o <<unit>> /\ rest' = rest \o <<unit>>
         /\ arrived' \in Seq(Nat) /\ rest' \in Seq(Nat) /\ <<unit>> \in Seq(Nat)
         /\ Accounted'
  <1>1. arrived \in Seq(Nat) /\ rest \in Seq(Nat) /\ WrittenFrames(taken) \in Seq(Nat)
    BY FramesUnits DEF SequencesOK
  <1>2. arrived' = arrived \o <<unit>> /\ rest' = rest \o <<unit>>
    <2>1. ASSUME NEW s \in Seq(Nat) PROVE Append(s, unit) = s \o <<unit>>
      OBVIOUS
    <2>2. arrived' = Append(arrived, unit) /\ rest' = Append(rest, unit)
      BY DEF Arrives
    <2>3. arrived' = arrived \o <<unit>>
      BY <1>1, <2>1, <2>2
    <2>4. rest' = rest \o <<unit>>
      BY <1>1, <2>1, <2>2
    <2>. QED BY <2>3, <2>4
  <1>3. <<unit>> \in Seq(Nat)
    OBVIOUS
  <1>4. arrived' \in Seq(Nat) /\ rest' \in Seq(Nat)
    BY <1>1, <1>2, <1>3, Joined
  <1>5. (WrittenFrames(taken) \o rest) \o <<unit>> = WrittenFrames(taken) \o (rest \o <<unit>>)
    BY <1>1, <1>3, Regrouped
  <1>6. WrittenFrames(taken') = WrittenFrames(taken)
    OBVIOUS
  <1>. QED BY <1>2, <1>3, <1>4, <1>5, <1>6 DEF Accounted

\* A unit that arrives only moves from what is on its way to what is left to read.
LEMMA ArriveKeepsInv == EnvelopeInv /\ Arrive => EnvelopeInv'
  <1>. SUFFICES ASSUME EnvelopeInv, Arrive PROVE EnvelopeInv'
    OBVIOUS
  <1>1. /\ wire # << >> /\ Arrives(Head(wire)) /\ wire' = Tail(wire)
        /\ UNCHANGED <<sender, room, creator, sent, taken, ended>>
    BY DEF Arrive
  <1>2. SequencesOK /\ Accounted /\ wire \in Seq(Nat) /\ arrived \in Seq(Nat)
    BY DEF EnvelopeInv, SequencesOK
  <1>3. Head(wire) \in Nat /\ Tail(wire) \in Seq(Nat) /\ <<Head(wire)>> \o Tail(wire) = wire
    <2>1. Head(wire) \in Nat /\ Tail(wire) \in Seq(Nat)
      BY <1>1, <1>2
    <2>. QED BY <1>1, <1>2, <2>1
  <1>4. /\ arrived' = arrived \o <<Head(wire)>> /\ arrived' \in Seq(Nat) /\ rest' \in Seq(Nat)
        /\ <<Head(wire)>> \in Seq(Nat) /\ Accounted'
    BY <1>1, <1>2, <1>3, ArrivesKeepsAccount
  <1>5. SequencesOK'
    BY <1>1, <1>2, <1>3, <1>4 DEF SequencesOK
  <1>6. Endings'
    BY <1>1 DEF EnvelopeInv, Endings
  <1>7. sender = "creator"
    BY <1>1 DEF EnvelopeInv, AnyonesUnits
  <1>8. AnyonesUnits'
    BY <1>1, <1>7 DEF AnyonesUnits
  <1>9. CreatorsFrames'
    <2>1. (arrived \o <<Head(wire)>>) \o Tail(wire) = arrived \o (<<Head(wire)>> \o Tail(wire))
      BY <1>2, <1>3, <1>4, Regrouped
    <2>2. WrittenFrames(sent) = arrived' \o wire'
      BY <1>1, <1>3, <1>4, <1>7, <2>1 DEF EnvelopeInv, CreatorsFrames
    <2>. QED BY <1>1, <2>2 DEF EnvelopeInv, CreatorsFrames
  <1>. QED BY <1>4, <1>5, <1>6, <1>8, <1>9 DEF EnvelopeInv

\* What anyone but a creator sends makes no claim about frames.
LEMMA ScribbleKeepsInv == EnvelopeInv /\ Scribble => EnvelopeInv'
  <1>. SUFFICES ASSUME EnvelopeInv, Scribble PROVE EnvelopeInv'
    OBVIOUS
  <1>1. PICK unit \in Scribbles \cup FirstUnits : Arrives(unit)
    BY DEF Scribble
  <1>2. /\ sender = "anyone" /\ UNCHANGED <<sender, room, creator, sent, wire, taken, ended>>
    BY DEF Scribble
  <1>3. unit \in Bytes /\ unit \in Nat
    BY EnvelopeAssumption, BytesAreNaturals
  <1>4. SequencesOK /\ Accounted
    BY DEF EnvelopeInv
  <1>5. /\ rest' = rest \o <<unit>> /\ arrived' \in Seq(Nat) /\ rest' \in Seq(Nat) /\ Accounted'
    BY <1>1, <1>2, <1>3, <1>4, ArrivesKeepsAccount
  <1>6. SequencesOK'
    BY <1>2, <1>4, <1>5 DEF SequencesOK
  <1>7. Endings'
    BY <1>2 DEF EnvelopeInv, Endings
  <1>8. AnyonesUnits'
    <2>1. /\ creator.error = "Unasked" /\ sent = << >> /\ wire = << >> /\ rest \in Seq(Bytes)
      BY <1>2 DEF EnvelopeInv, AnyonesUnits
    <2>2. <<unit>> \in Seq(Bytes)
      BY <1>3
    <2>3. rest' \in Seq(Bytes)
      BY <1>5, <2>1, <2>2, Joined
    <2>. QED BY <1>2, <2>1, <2>3 DEF AnyonesUnits
  <1>9. CreatorsFrames'
    BY <1>2 DEF CreatorsFrames
  <1>. QED BY <1>5, <1>6, <1>7, <1>8, <1>9 DEF EnvelopeInv

\* A frame more is sent, a marker or an identifier its creator made.
LEMMA SendingKeepsInv ==
  ASSUME EnvelopeInv, creator.error = "none", NEW frame \in Frames,
         frame # Absent => creator \in Creators /\ MadeBy(creator, room, frame),
         sent' = Append(sent, frame), wire' = wire \o WrittenFrame(frame),
         UNCHANGED <<sender, room, creator, arrived, rest, taken, ended>>
  PROVE  EnvelopeInv'
  <1>1. /\ sender \in Senders /\ room \in Rooms /\ sent \in Seq(Frames) /\ taken \in Seq(Frames)
        /\ wire \in Seq(Nat) /\ arrived \in Seq(Nat) /\ rest \in Seq(Nat)
    BY DEF EnvelopeInv, SequencesOK
  <1>2. WrittenFrame(frame) \in Seq(Nat)
    BY FrameUnits
  <1>3. /\ sent' \in Seq(Frames) /\ Len(sent') = Len(sent) + 1
        /\ \A i \in 1 .. Len(sent') : sent'[i] = IF i <= Len(sent) THEN sent[i] ELSE frame
    BY <1>1, SMTT(30)
  <1>4. wire' \in Seq(Nat)
    BY <1>1, <1>2, Joined
  <1>5. SequencesOK'
    BY <1>1, <1>3, <1>4 DEF SequencesOK
  <1>6. Endings' /\ Accounted'
    BY DEF EnvelopeInv, Endings, Accounted
  <1>7. sender = "creator"
    BY DEF EnvelopeInv, AnyonesUnits
  <1>8. AnyonesUnits'
    BY <1>7 DEF AnyonesUnits
  <1>9. CreatorsFrames'
    <2>1. /\ creator.error = "none" => creator \in Creators
          /\ \A i \in 1 .. Len(sent) : sent[i] # Absent => /\ creator \in Creators
                                                           /\ MadeBy(creator, room, sent[i])
          /\ Len(taken) <= Len(sent)
          /\ \A i \in 1 .. Len(taken) : taken[i] = AsRead(sent[i])
          /\ WrittenFrames(sent) = arrived \o wire
      BY <1>7 DEF EnvelopeInv, CreatorsFrames
    <2>2. Len(sent) \in Nat /\ Len(taken) \in Nat
      BY <1>1
    <2>3. ASSUME NEW i \in 1 .. Len(sent'), sent'[i] # Absent
          PROVE  creator \in Creators /\ MadeBy(creator, room, sent'[i])
      <3>1. CASE i <= Len(sent)
        BY <1>3, <2>1, <2>2, <2>3, <3>1
      <3>2. CASE ~(i <= Len(sent))
        BY <1>3, <2>3, <3>2
      <3>. QED BY <3>1, <3>2
    <2>4. Len(taken) <= Len(sent')
      BY <1>3, <2>1, <2>2
    <2>5. ASSUME NEW i \in 1 .. Len(taken) PROVE taken[i] = AsRead(sent'[i])
      <3>1. i <= Len(sent) /\ i \in 1 .. Len(sent')
        BY <1>3, <2>1, <2>2
      <3>. QED BY <1>3, <2>1, <3>1
    <2>6. WrittenFrames(sent') = arrived \o wire'
      <3>1. WrittenFrames(sent') = WrittenFrames(sent) \o WrittenFrame(frame)
        BY <1>1, FrameAppended
      <3>2. (arrived \o wire) \o WrittenFrame(frame) = arrived \o (wire \o WrittenFrame(frame))
        <4>1. arrived \in Seq(Nat) /\ wire \in Seq(Nat)
          BY <1>1
        <4>. QED BY <1>2, <4>1, Regrouped, SMTT(60)
      <3>. QED BY <2>1, <3>1, <3>2
    <2>. QED BY <2>1, <2>3, <2>4, <2>5, <2>6 DEF CreatorsFrames
  <1>. QED BY <1>5, <1>6, <1>8, <1>9 DEF EnvelopeInv

\* An identifier created and written is one more whole frame on its way.
LEMMA SendOwidKeepsInv == EnvelopeInv /\ SendOwid => EnvelopeInv'
  <1>. SUFFICES ASSUME EnvelopeInv, SendOwid PROVE EnvelopeInv'
    OBVIOUS
  <1>1. PICK payload \in Payloads, now \in Clocks :
          \E created \in {CreateVersion(creator, Version3, payload, now, room)} :
            /\ created.error = "none"
            /\ sent' = Append(sent, created.owid)
            /\ wire' = wire \o ToBuffer(created.owid).units
    BY DEF SendOwid
  <1>2. PICK created \in {CreateVersion(creator, Version3, payload, now, room)} :
          /\ created.error = "none"
          /\ sent' = Append(sent, created.owid)
          /\ wire' = wire \o ToBuffer(created.owid).units
    BY <1>1
  <1>3. creator.error = "none" /\ UNCHANGED <<sender, room, creator, arrived, rest, taken, ended>>
    BY DEF SendOwid
  <1>4. creator \in Creators /\ room \in Rooms
    BY <1>3 DEF EnvelopeInv, SequencesOK, AnyonesUnits, CreatorsFrames
  <1>5. MadeBy(creator, room, created.owid)
    BY <1>2, <1>4, CreatedIsMade
  <1>6. created.owid \in Frames /\ created.owid # Absent
    BY <1>5 DEF MadeBy
  <1>7. wire' = wire \o WrittenFrame(created.owid)
    BY <1>2, <1>6 DEF WrittenFrame
  <1>. QED BY <1>2, <1>3, <1>4, <1>5, <1>6, <1>7, SendingKeepsInv

\* The marker of an absent node is one more whole frame on its way.
LEMMA SendMarkerKeepsInv == EnvelopeInv /\ SendMarker => EnvelopeInv'
  <1>. SUFFICES ASSUME EnvelopeInv, SendMarker PROVE EnvelopeInv'
    OBVIOUS
  <1>1. /\ creator.error = "none" /\ sent' = Append(sent, Absent) /\ wire' = wire \o Marker
        /\ UNCHANGED <<sender, room, creator, arrived, rest, taken, ended>>
    BY DEF SendMarker
  <1>2. Absent \in Frames /\ WrittenFrame(Absent) = Marker
    BY DEF Frames, WrittenFrame
  <1>. QED BY <1>1, <1>2, SendingKeepsInv

\* The reader gives up only with a failure, and never with whole frames of a creator left.
LEMMA GiveUpKeepsInv == EnvelopeInv /\ GiveUp => EnvelopeInv'
  <1>. SUFFICES ASSUME EnvelopeInv, GiveUp PROVE EnvelopeInv'
    OBVIOUS
  <1>1. /\ UNCHANGED <<sender, room, creator, sent, wire, arrived, rest, taken>>
        /\ ~Read(ParsePrefix(rest, room)) /\ ~Waits(ParsePrefix(rest, room))
        /\ ended' = ParsePrefix(rest, room).status
    BY DEF GiveUp
  <1>2. rest \in Seq(Nat) /\ room \in Nat
    BY EnvelopeAssumption DEF EnvelopeInv, SequencesOK
  <1>3. Endings'
    <2>. DEFINE answer == ParsePrefix(rest, room)
    <2>1. ~Read(answer) /\ ~Waits(answer) /\ ended' = answer.status
      BY <1>1
    <2>2. \/ answer = Fail("MissingInput")
          \/ answer = [status |-> "AbsentNode", used |-> 1, owid |-> Absent]
          \/ answer = [status |-> "Parsed", used |-> FrameEnd(rest), owid |-> FrameOwid(rest)]
          \/ \E status \in {"UnsupportedVersion", "InvalidDomainEncoding", "UnexpectedEnd",
                            "ImplementationCapacityExceeded"} : answer = Fail(status)
      BY <1>2, ReadsAnswer
    <2>. HIDE DEF answer
    <2>3. ASSUME answer = [status |-> "AbsentNode", used |-> 1, owid |-> Absent] PROVE FALSE
      BY <2>1, <2>3 DEF Read
    <2>4. ASSUME answer = [status |-> "Parsed", used |-> FrameEnd(rest), owid |-> FrameOwid(rest)]
          PROVE  FALSE
      BY <2>1, <2>4 DEF Read
    <2>5. ASSUME answer = Fail("MissingInput") PROVE FALSE
      BY <2>1, <2>5 DEF Waits, Fail
    <2>6. ASSUME NEW status \in {"UnsupportedVersion", "InvalidDomainEncoding", "UnexpectedEnd",
                                 "ImplementationCapacityExceeded"}, answer = Fail(status)
          PROVE  Endings'
      <3>1. answer.status = status
        BY <2>6 DEF Fail
      <3>2. status # "UnexpectedEnd"
        BY <2>1, <3>1 DEF Waits
      <3>. QED BY <2>1, <3>1, <3>2 DEF Endings
    <2>. QED BY <2>2, <2>3, <2>4, <2>5, <2>6
  <1>4. SequencesOK' /\ Accounted'
    BY <1>1 DEF EnvelopeInv, SequencesOK, Accounted
  <1>5. AnyonesUnits' /\ CreatorsFrames'
    BY <1>1 DEF EnvelopeInv, AnyonesUnits, CreatorsFrames
  <1>. QED BY <1>3, <1>4, <1>5 DEF EnvelopeInv

\* A read that hands back a frame consumes some of the units.
LEMMA ReadConsumes ==
  ASSUME NEW units \in Seq(Nat), NEW reserve \in Nat, Read(ParsePrefix(units, reserve))
  PROVE  /\ units # << >>
         /\ ParsePrefix(units, reserve).status \in {"AbsentNode", "Parsed"}
         /\ ParsePrefix(units, reserve).used \in 1 .. Len(units)
         /\ \/ /\ units[1] = Empty
               /\ ParsePrefix(units, reserve)
                    = [status |-> "AbsentNode", used |-> 1, owid |-> Absent]
            \/ /\ Framed(units, reserve)
               /\ ParsePrefix(units, reserve)
                    = [status |-> "Parsed", used |-> FrameEnd(units), owid |-> FrameOwid(units)]
  <1>. DEFINE answer == ParsePrefix(units, reserve)
  <1>1. \A status : ~Read(Fail(status))
    BY DEF Read, Fail
  <1>2. \/ /\ units # << >> /\ units[1] = Empty
           /\ answer = [status |-> "AbsentNode", used |-> 1, owid |-> Absent]
        \/ /\ Framed(units, reserve)
           /\ answer = [status |-> "Parsed", used |-> FrameEnd(units), owid |-> FrameOwid(units)]
    BY <1>1, ReadsAnswer
  <1>3. units # << >> => 1 \in 1 .. Len(units)
    OBVIOUS
  <1>4. Framed(units, reserve) => units # << >> /\ FrameEnd(units) \in 1 .. Len(units)
    <2>1. Framed(units, reserve) => FrameEnd(units) \in 1 .. Len(units)
      BY FrameIsOwid
    <2>. QED BY <2>1 DEF Framed, Fielded
  <1>. HIDE DEF answer
  <1>. QED BY <1>2, <1>3, <1>4 DEF answer

\* What anyone sends, where it reads as a frame, is the units of that frame.
LEMMA AnyonesFrame ==
  ASSUME NEW units \in Seq(Bytes), NEW reserve \in Nat, Read(ParsePrefix(units, reserve))
  PROVE  /\ ParsePrefix(units, reserve).owid \in Frames
         /\ WrittenFrame(ParsePrefix(units, reserve).owid)
              = SubSeq(units, 1, ParsePrefix(units, reserve).used)
  <1>1. units \in Seq(Nat)
    BY BytesAreNaturals
  <1>. DEFINE answer == ParsePrefix(units, reserve)
  <1>2. /\ units # << >>
        /\ \/ /\ units[1] = Empty
              /\ answer = [status |-> "AbsentNode", used |-> 1, owid |-> Absent]
           \/ /\ Framed(units, reserve)
              /\ answer = [status |-> "Parsed", used |-> FrameEnd(units), owid |-> FrameOwid(units)]
    BY <1>1, ReadConsumes
  <1>. HIDE DEF answer
  <1>3. ASSUME units[1] = Empty, answer = [status |-> "AbsentNode", used |-> 1, owid |-> Absent]
        PROVE  answer.owid \in Frames /\ WrittenFrame(answer.owid) = SubSeq(units, 1, answer.used)
    <2>1. answer.owid = Absent /\ answer.used = 1
      BY <1>3
    <2>2. Absent \in Frames /\ WrittenFrame(Absent) = <<0>>
      BY DEF Frames, WrittenFrame, Marker, Empty
    <2>3. SubSeq(units, 1, 1) = <<0>>
      <3>1. 1 \in Nat \ {0} /\ 1 \in Nat /\ 1 <= 1 + 1 /\ 1 <= Len(units) /\ 1 \in 1 .. (1 - 1) + 1
        BY <1>2
      <3>2. /\ SubSeq(units, 1, 1) \in Seq(Bytes) /\ Len(SubSeq(units, 1, 1)) = 1 - 1 + 1
            /\ SubSeq(units, 1, 1)[1] = units[1 + 1 - 1]
        BY <3>1, PartFacts
      <3>3. \A part \in Seq(Bytes) : Len(part) = 1 /\ part[1] = 0 => part = <<0>>
        OBVIOUS
      <3>4. 1 - 1 + 1 = 1 /\ 1 + 1 - 1 = 1
        OBVIOUS
      <3>. QED BY <1>3, <3>2, <3>3, <3>4 DEF Empty
    <2>. QED BY <2>1, <2>2, <2>3
  <1>4. ASSUME Framed(units, reserve),
               answer = [status |-> "Parsed", used |-> FrameEnd(units), owid |-> FrameOwid(units)]
        PROVE  answer.owid \in Frames /\ WrittenFrame(answer.owid) = SubSeq(units, 1, answer.used)
    <2>. DEFINE o == FrameOwid(units)
    <2>1. answer.owid = o /\ answer.used = FrameEnd(units)
      BY <1>4
    <2>2. Writable(o) /\ OwidUnits(o) = SubSeq(units, 1, FrameEnd(units))
      BY <1>4, WritesWhatItReads
    <2>3. o.version \in Versions /\ o.signature \in Seq(Nat) /\ Len(o.signature) = SignatureLength
      BY <1>1, <1>4, FrameIsOwid
    <2>4. o.domain \in Seq(Nat) /\ o.payload \in Seq(Nat)
      BY <2>2 DEF Writable
    <2>5. o.date \in Nat
      <3>1. PICK end \in Nat \ {0}, d \in Nat, l \in Nat, p \in Nat, f \in Nat, w \in Nat :
              /\ end <= MaxDomain + 1 /\ 1 + end <= Len(units) /\ units[1 + end] = 0
              /\ \A i \in 2 .. end : units[i] # 0 /\ units[i] \notin NotText
              /\ w = DateLength(units[1]) /\ d = (1 + end) + w /\ l = d + LongWidth /\ 1 + end <= d /\ d <= l
              /\ l <= p /\ p <= f /\ f <= Len(units)
              /\ f = p + SignatureLength /\ p = l + LittleEndianValue(SubSeq(units, d + 1, l))
              /\ f = FrameEnd(units)
              /\ FrameOwid(units) =
                   [version |-> units[1], domain |-> SubSeq(units, 2, end),
                    date |-> ReadDate(SubSeq(units, (1 + end) + 1, d), units[1]),
                    payload |-> SubSeq(units, l + 1, p),
                    signature |-> SubSeq(units, p + 1, f)]
        BY <1>1, <1>4, FrameLayout
      <3>2. d <= Len(units) /\ (1 + end) + 1 \in Nat \ {0} /\ (1 + end) + 1 <= d + 1
        <4>1. PICK n \in Nat : n = Len(units)
          OBVIOUS
        <4>2. d <= l /\ l <= p /\ p <= f /\ f <= n /\ 1 + end <= d
          BY <3>1, <4>1
        <4>3. d <= n /\ (1 + end) + 1 \in Nat \ {0} /\ (1 + end) + 1 <= d + 1
          BY <4>2
        <4>. QED BY <4>1, <4>3
      <3>3. /\ SubSeq(units, (1 + end) + 1, d) \in Seq(Bytes)
            /\ Len(SubSeq(units, (1 + end) + 1, d)) = d - ((1 + end) + 1) + 1
        BY <3>2, PartFacts
      <3>4. d - ((1 + end) + 1) + 1 = w
        <4>1. d = (1 + end) + w
          BY <3>1
        <4>. QED BY <4>1
      <3>5. units[1] \in Versions
        BY <1>4 DEF Framed
      <3>6. ReadDate(SubSeq(units, (1 + end) + 1, d), units[1]) \in Nat
        BY <3>1, <3>3, <3>4, <3>5, WritesDateRead
      <3>. QED BY <3>1, <3>6
    <2>6. o \in Identifiers
      <3>1. o = [version |-> o.version, domain |-> o.domain, date |-> o.date,
                 payload |-> o.payload, signature |-> o.signature]
        BY DEF FrameOwid
      <3>2. o.version \in Nat /\ o.date \in Int
        BY <2>3, <2>5 DEF Versions, Version1, Version2, Version3
      <3>. HIDE DEF o
      <3>. QED BY <2>3, <2>4, <3>1, <3>2 DEF Identifiers
    <2>. HIDE DEF o
    <2>7. o \in Frames /\ o # Absent
      BY <2>2, <2>3, <2>6, EnvelopeAssumption DEF Frames, Identifiers
    <2>8. WrittenFrame(o) = OwidUnits(o)
      BY <2>7, FrameUnits
    <2>. QED BY <2>1, <2>2, <2>7, <2>8
  <1>. QED BY <1>2, <1>3, <1>4 DEF answer

\* The units are the first of all of them.
Begins(units, all) == \E more \in Seq(Nat) : all = units \o more

\* The next frame of what a creator sent, where it is read from less or more of
\* what was sent, is read as it was made.
LEMMA CreatorsFrame ==
  ASSUME NEW units \in Seq(Nat), NEW all, Begins(units, all),
         NEW frame \in Frames, Begins(WrittenFrame(frame), all),
         NEW reserve \in Nat, NEW c, frame = Absent \/ MadeBy(c, reserve, frame),
         Read(ParsePrefix(units, reserve))
  PROVE  /\ ParsePrefix(units, reserve).owid = AsRead(frame)
         /\ AsRead(frame) \in Frames
         /\ WrittenFrame(AsRead(frame)) = SubSeq(units, 1, ParsePrefix(units, reserve).used)
  <1>0. PICK more \in Seq(Nat), further \in Seq(Nat) :
          all = units \o more /\ all = WrittenFrame(frame) \o further
    BY DEF Begins
  <1>1. PICK written \in Seq(Nat) : written = WrittenFrame(frame)
    BY FrameUnits
  <1>. DEFINE answer == ParsePrefix(units, reserve)
              whole == ParsePrefix(written, reserve)
  <1>2. /\ AsRead(frame) \in Frames /\ WrittenFrame(AsRead(frame)) = written
        /\ whole.owid = AsRead(frame) /\ whole.used = Len(written)
        /\ whole.status \in {"AbsentNode", "Parsed"}
    <2>1. ASSUME frame = Absent
          PROVE  /\ AsRead(frame) \in Frames /\ WrittenFrame(AsRead(frame)) = written
                 /\ whole = [status |-> "AbsentNode", used |-> Len(written), owid |-> AsRead(frame)]
      <3>1. AsRead(frame) = frame
        BY <2>1 DEF AsRead
      <3>2. written = <<0>>
        BY <1>1, <2>1, FrameUnits
      <3>3. written # << >> /\ written[1] = Empty /\ Len(written) = 1
        BY <3>2 DEF Empty
      <3>. QED BY <1>1, <2>1, <3>1, <3>3 DEF ParsePrefix
    <2>2. ASSUME frame # Absent
          PROVE  /\ AsRead(frame) \in Frames /\ WrittenFrame(AsRead(frame)) = written
                 /\ whole = [status |-> "Parsed", used |-> Len(written), owid |-> AsRead(frame)]
      <3>1. MadeBy(c, reserve, frame)
        BY <2>2
      <3>. QED BY <1>1, <3>1, CreatedIsReadBack
    <2>. HIDE DEF whole
    <2>3. CASE frame = Absent
      BY <2>1, <2>3
    <2>4. CASE frame # Absent
      BY <2>2, <2>4
    <2>. QED BY <2>3, <2>4
  <1>3. answer.status \in {"AbsentNode", "Parsed"} /\ answer.used \in 1 .. Len(units)
    BY ReadConsumes
  <1>4. ParsePrefix(units \o more, reserve) = answer
    BY <1>3, PrefixExtends
  <1>5. ParsePrefix(written \o further, reserve) = whole
    BY <1>2, PrefixExtends
  <1>6. answer = whole
    BY <1>0, <1>1, <1>4, <1>5
  <1>. HIDE DEF answer, whole
  <1>7. SubSeq(units, 1, answer.used) = written
    <2>1. PICK n \in Nat : n = answer.used
      BY <1>3
    <2>2. n = Len(written) /\ n <= Len(units) /\ n <= Len(written) /\ 1 <= n + 1
      BY <1>2, <1>3, <1>6, <2>1
    <2>3. 1 \in Nat \ {0}
      OBVIOUS
    <2>4. SubSeq(units \o more, 1, n) = SubSeq(units, 1, n)
      BY <2>2, <2>3, PartOfLonger
    <2>5. SubSeq(written \o further, 1, n) = SubSeq(written, 1, n)
      BY <2>2, <2>3, PartOfLonger
    <2>6. SubSeq(written, 1, n) = written
      BY <2>2, SubSeqFull
    <2>. QED BY <1>0, <1>1, <2>1, <2>4, <2>5, <2>6
  <1>. QED BY <1>2, <1>6, <1>7 DEF answer

\* A frame taken is written as the units it was read from, and a creator's is
\* the next of those that were sent.
LEMMA TakesNextFrame ==
  ASSUME EnvelopeInv, Take
  PROVE  \E frame \in Frames, used \in 1 .. Len(rest) :
           /\ taken' = Append(taken, frame) /\ rest' = After(rest, used)
           /\ WrittenFrame(frame) = SubSeq(rest, 1, used)
           /\ sender = "creator" => /\ Len(taken) < Len(sent)
                                    /\ frame = AsRead(sent[Len(taken) + 1])
  <1>1. /\ sender \in Senders /\ room \in Rooms /\ sent \in Seq(Frames) /\ taken \in Seq(Frames)
        /\ wire \in Seq(Nat) /\ arrived \in Seq(Nat) /\ rest \in Seq(Nat)
    BY DEF EnvelopeInv, SequencesOK
  <1>2. room \in Nat
    BY <1>1, EnvelopeAssumption
  <1>. DEFINE answer == ParsePrefix(rest, room)
  <1>3. Read(answer) /\ taken' = Append(taken, answer.owid) /\ rest' = After(rest, answer.used)
    BY DEF Take
  <1>4. answer.used \in 1 .. Len(rest) /\ rest # << >>
    BY <1>1, <1>2, <1>3, ReadConsumes
  <1>5. ASSUME sender # "creator"
        PROVE  answer.owid \in Frames /\ WrittenFrame(answer.owid) = SubSeq(rest, 1, answer.used)
    <2>1. rest \in Seq(Bytes)
      BY <1>5 DEF EnvelopeInv, AnyonesUnits
    <2>. QED BY <1>2, <1>3, <2>1, AnyonesFrame
  <1>6. ASSUME sender = "creator"
        PROVE  /\ answer.owid \in Frames /\ WrittenFrame(answer.owid) = SubSeq(rest, 1, answer.used)
               /\ Len(taken) < Len(sent) /\ answer.owid = AsRead(sent[Len(taken) + 1])
    <2>. DEFINE k == Len(taken)
    <2>1. /\ \A i \in 1 .. Len(sent) : sent[i] # Absent => MadeBy(creator, room, sent[i])
          /\ k <= Len(sent) /\ \A i \in 1 .. k : taken[i] = AsRead(sent[i])
          /\ WrittenFrames(sent) = arrived \o wire
      BY <1>6 DEF EnvelopeInv, CreatorsFrames
    <2>2. k \in Nat /\ Len(sent) \in Nat
      BY <1>1
    <2>3. ASSUME NEW i \in 1 .. k PROVE WrittenFrame(sent[i]) = WrittenFrame(taken[i])
      <3>1. i \in 1 .. Len(sent) /\ taken[i] = AsRead(sent[i])
        BY <2>1, <2>2
      <3>2. CASE sent[i] = Absent
        BY <3>1, <3>2 DEF AsRead
      <3>3. CASE sent[i] # Absent
        BY <1>2, <2>1, <3>1, <3>3, CreatedIsReadBack
      <3>. QED BY <3>2, <3>3
    <2>4. PICK first \in Seq(Nat) : first = WrittenFrames(taken)
      BY <1>1, FramesUnits
    <2>5. WrittenFrames(sent) = first \o (rest \o wire) /\ rest \o wire \in Seq(Nat)
      <3>1. arrived = first \o rest
        BY <2>4 DEF EnvelopeInv, Accounted
      <3>2. (first \o rest) \o wire = first \o (rest \o wire)
        BY <1>1, Regrouped, SMTT(60)
      <3>3. rest \o wire \in Seq(Nat)
        BY <1>1, Joined
      <3>. QED BY <2>1, <3>1, <3>2, <3>3
    <2>6. k < Len(sent)
      <3>1. SUFFICES ASSUME k = Len(sent) PROVE FALSE
        BY <2>1, <2>2
      <3>2. WrittenFrames(sent) = WrittenFrames(taken)
        BY <1>1, <2>1, <2>3, <3>1, FramesSplit
      <3>3. first \o (rest \o wire) = first
        BY <2>4, <2>5, <3>2
      <3>4. rest \o wire = << >>
        BY <2>5, <3>3, ConcatEqualIffEmpty
      <3>5. rest = << >>
        BY <1>1, <3>4, ConcatEqualIffEmpty
      <3>. QED BY <1>4, <3>5
    <2>7. PICK further \in Seq(Nat) :
            WrittenFrames(sent) = WrittenFrames(taken) \o (WrittenFrame(sent[k + 1]) \o further)
      BY <1>1, <2>1, <2>3, <2>6, FramesSplit
    <2>. DEFINE frame == sent[k + 1]
    <2>8. frame \in Frames /\ (frame # Absent => MadeBy(creator, room, frame))
      <3>1. k + 1 \in 1 .. Len(sent)
        BY <2>2, <2>6
      <3>. QED BY <1>1, <2>1, <3>1
    <2>. HIDE DEF frame
    <2>9. rest \o wire = WrittenFrame(frame) \o further
      <3>1. PICK next \in Seq(Nat) : next = WrittenFrame(frame)
        BY <2>8, FrameUnits
      <3>2. next \o further \in Seq(Nat)
        BY Joined
      <3>3. first \o (rest \o wire) = first \o (next \o further)
        BY <2>4, <2>5, <2>7, <3>1 DEF frame
      <3>4. rest \o wire = next \o further
        BY <2>5, <3>2, <3>3, ConcatSimplifications
      <3>. QED BY <3>1, <3>4
    <2>10. /\ answer.owid = AsRead(frame) /\ AsRead(frame) \in Frames
           /\ WrittenFrame(AsRead(frame)) = SubSeq(rest, 1, answer.used)
      <3>1. Begins(rest, rest \o wire)
        BY <1>1 DEF Begins
      <3>2. Begins(WrittenFrame(frame), rest \o wire)
        BY <2>9 DEF Begins
      <3>3. rest \in Seq(Nat) /\ Read(ParsePrefix(rest, room))
        BY <1>1, <1>3
      <3>4. frame = Absent \/ MadeBy(creator, room, frame)
        BY <2>8
      <3>. QED BY <1>2, <2>8, <3>1, <3>2, <3>3, <3>4, CreatorsFrame
    <2>. QED BY <2>6, <2>10 DEF frame
  <1>. HIDE DEF answer
  <1>. QED BY <1>3, <1>4, <1>5, <1>6

\* A frame taken moves from what is left to the frames read, which it continues in order.
LEMMA TakeKeepsInv == EnvelopeInv /\ Take => EnvelopeInv'
  <1>. SUFFICES ASSUME EnvelopeInv, Take PROVE EnvelopeInv'
    OBVIOUS
  <1>1. /\ sender \in Senders /\ room \in Rooms /\ sent \in Seq(Frames) /\ taken \in Seq(Frames)
        /\ wire \in Seq(Nat) /\ arrived \in Seq(Nat) /\ rest \in Seq(Nat)
    BY DEF EnvelopeInv, SequencesOK
  <1>2. UNCHANGED <<sender, room, creator, sent, wire, arrived, ended>>
    BY DEF Take
  <1>3. PICK frame \in Frames, used \in 1 .. Len(rest) :
          /\ taken' = Append(taken, frame) /\ rest' = After(rest, used)
          /\ WrittenFrame(frame) = SubSeq(rest, 1, used)
          /\ sender = "creator" => /\ Len(taken) < Len(sent)
                                   /\ frame = AsRead(sent[Len(taken) + 1])
    BY TakesNextFrame
  <1>4. /\ used \in Nat /\ used + 1 \in Nat \ {0} /\ Len(rest) \in Nat /\ 1 \in Nat \ {0}
        /\ 1 <= used + 1 /\ used <= Len(rest) /\ used + 1 <= Len(rest) + 1
        /\ Len(rest) <= Len(rest)
    BY <1>1
  <1>5. taken' \in Seq(Frames)
    BY <1>1, <1>3
  <1>6. rest' \in Seq(Nat)
    BY <1>1, <1>3, <1>4, PartFacts DEF After
  <1>7. SequencesOK' /\ Endings'
    BY <1>1, <1>2, <1>5, <1>6 DEF EnvelopeInv, SequencesOK, Endings
  <1>8. Accounted'
    <2>1. PICK next \in Seq(Nat), left \in Seq(Nat) :
            /\ next = SubSeq(rest, 1, used) /\ left = SubSeq(rest, used + 1, Len(rest))
      <3>1. SubSeq(rest, 1, used) \in Seq(Nat)
        BY <1>1, <1>4, PartFacts
      <3>2. SubSeq(rest, used + 1, Len(rest)) \in Seq(Nat)
        BY <1>1, <1>4, PartFacts
      <3>. QED BY <3>1, <3>2
    <2>2. next \o left = rest
      <3>1. SubSeq(rest, 1, used) \o SubSeq(rest, used + 1, Len(rest)) = SubSeq(rest, 1, Len(rest))
        BY <1>1, <1>4, PartsMeet
      <3>. QED BY <1>1, <2>1, <3>1, SubSeqFull
    <2>3. PICK first \in Seq(Nat) : first = WrittenFrames(taken)
      BY <1>1, FramesUnits
    <2>4. WrittenFrames(taken') = first \o next
      BY <1>1, <1>3, <2>1, <2>3, FrameAppended
    <2>5. rest' = left
      BY <1>3, <2>1 DEF After
    <2>6. (first \o next) \o left = first \o (next \o left)
      BY Regrouped, SMTT(30)
    <2>7. first \o rest = arrived
      BY <2>3 DEF EnvelopeInv, Accounted
    <2>. QED BY <1>2, <2>2, <2>4, <2>5, <2>6, <2>7 DEF Accounted
  <1>9. AnyonesUnits'
    <2>1. ASSUME sender # "creator" PROVE rest' \in Seq(Bytes)
      <3>1. rest \in Seq(Bytes)
        BY <2>1 DEF EnvelopeInv, AnyonesUnits
      <3>. QED BY <1>3, <1>4, <3>1, PartFacts DEF After
    <2>. QED BY <1>2, <2>1 DEF EnvelopeInv, AnyonesUnits
  <1>10. CreatorsFrames'
    <2>1. ASSUME sender = "creator"
          PROVE  /\ Len(taken') <= Len(sent)
                 /\ \A i \in 1 .. Len(taken') : taken'[i] = AsRead(sent[i])
      <3>1. Len(taken) \in Nat /\ Len(sent) \in Nat /\ Len(taken') = Len(taken) + 1
        BY <1>1, <1>3
      <3>2. \A i \in 1 .. Len(taken') : taken'[i] = IF i <= Len(taken) THEN taken[i] ELSE frame
        BY <1>1, <1>3
      <3>3. \A i \in 1 .. Len(taken) : taken[i] = AsRead(sent[i])
        BY <2>1 DEF EnvelopeInv, CreatorsFrames
      <3>4. Len(taken) < Len(sent) /\ frame = AsRead(sent[Len(taken) + 1])
        BY <1>3, <2>1
      <3>5. Len(taken') <= Len(sent)
        BY <3>1, <3>4
      <3>6. ASSUME NEW i \in 1 .. Len(taken') PROVE taken'[i] = AsRead(sent[i])
        <4>1. CASE i <= Len(taken)
          BY <3>1, <3>2, <3>3, <4>1
        <4>2. CASE ~(i <= Len(taken))
          <5>1. i = Len(taken) + 1
            BY <3>1, <4>2
          <5>. QED BY <3>2, <3>4, <4>2, <5>1
        <4>. QED BY <4>1, <4>2
      <3>. QED BY <3>5, <3>6
    <2>. QED BY <1>2, <2>1 DEF EnvelopeInv, CreatorsFrames
  <1>. QED BY <1>7, <1>8, <1>9, <1>10 DEF EnvelopeInv

\* Every state the model reaches satisfies the invariant.
THEOREM EnvelopeInvariant == EnvelopeSpec => []EnvelopeInv
  <1>1. EnvelopeInit => EnvelopeInv
    BY InitInv
  <1>2. EnvelopeInv /\ [EnvelopeNext]_envelopeVars => EnvelopeInv'
    <2>. SUFFICES ASSUME EnvelopeInv, [EnvelopeNext]_envelopeVars PROVE EnvelopeInv'
      OBVIOUS
    <2>1. CASE SendOwid
      BY <2>1, SendOwidKeepsInv
    <2>2. CASE SendMarker
      BY <2>2, SendMarkerKeepsInv
    <2>3. CASE Arrive
      BY <2>3, ArriveKeepsInv
    <2>4. CASE Scribble
      BY <2>4, ScribbleKeepsInv
    <2>5. CASE Take
      BY <2>5, TakeKeepsInv
    <2>6. CASE GiveUp
      BY <2>6, GiveUpKeepsInv
    <2>7. CASE UNCHANGED envelopeVars
      <3>1. UNCHANGED <<sender, room, creator, sent, wire, arrived, rest, taken, ended>>
        BY <2>7 DEF envelopeVars
      <3>. QED BY <3>1 DEF EnvelopeInv, SequencesOK, Endings, AnyonesUnits, CreatorsFrames, Accounted
    <2>. QED BY <2>1, <2>2, <2>3, <2>4, <2>5, <2>6, <2>7 DEF EnvelopeNext
  <1>. QED BY <1>1, <1>2, PTL DEF EnvelopeSpec

-----------------------------------------------------------------------------
(***************************************************************************)
(* What follows of every state.                                            *)
(***************************************************************************)

\* Every identifier in hand is one of the frames.
LEMMA InHand ==
  ASSUME EnvelopeInv, NEW o \in Owids(taken) \cup Owids(sent)
  PROVE  o \in Frames /\ o # Absent
  <1>1. taken \in Seq(Frames) /\ sent \in Seq(Frames)
    BY DEF EnvelopeInv, SequencesOK
  <1>2. ASSUME NEW frames \in Seq(Frames), o \in Owids(frames) PROVE o \in Frames /\ o # Absent
    <2>1. PICK i \in 1 .. Len(frames) : o = frames[i]
      BY <1>2 DEF Owids
    <2>2. frames[i] \in Frames
      OBVIOUS
    <2>. QED BY <1>2, <2>1, <2>2 DEF Owids
  <1>. QED BY <1>1, <1>2

\* The invariant gives the types.
LEMMA InvTypes == EnvelopeInv => EnvelopeTypeOK
  <1>. SUFFICES ASSUME EnvelopeInv PROVE EnvelopeTypeOK
    OBVIOUS
  <1>1. /\ sender \in Senders /\ room \in Rooms /\ rest \in Seq(Nat) /\ arrived \in Seq(Nat)
        /\ taken \in Seq(Frames)
    BY DEF EnvelopeInv, SequencesOK
  <1>2. rest = After(arrived, Len(arrived) - Len(rest))
    <2>1. PICK left \in Seq(Nat), right \in Seq(Nat) : left = WrittenFrames(taken) /\ right = rest
      BY <1>1, FramesUnits
    <2>2. arrived = left \o right
      BY <2>1 DEF EnvelopeInv, Accounted
    <2>3. Len(left \o right) = Len(left) + Len(right)
      BY Joined
    <2>4. (Len(left) + Len(right)) - Len(right) = Len(left)
      OBVIOUS
    <2>5. SubSeq(left \o right, Len(left) + 1, Len(left) + Len(right)) = right
      BY PartAtEnd
    <2>. QED BY <2>1, <2>2, <2>3, <2>4, <2>5 DEF After
  <1>3. ASSUME NEW o \in Owids(taken) \cup Owids(sent)
        PROVE  o.version \in Versions /\ Len(o.signature) = SignatureLength
    <2>1. o \in Frames /\ o # Absent
      BY InHand
    <2>. QED BY <2>1, FrameUnits DEF Writable
  <1>. QED BY <1>1, <1>2, <1>3 DEF EnvelopeInv, Endings, EnvelopeTypeOK

\* The variables hold what their comments say, and an identifier in hand is one
\* of a supported version with a signature of the right length
\* (src/src/owid.rs:190, src/src/parse.rs:68).
THEOREM Types == EnvelopeSpec => []EnvelopeTypeOK
  BY EnvelopeInvariant, InvTypes, PTL

\* Every unit that arrived is in a frame taken, written again, or still there to
\* be read (src/src/parse.rs:100): none is read twice or passed over.
THEOREM EveryUnitAccounted == EnvelopeSpec => []Accounted
  <1>1. EnvelopeInv => Accounted
    BY DEF EnvelopeInv
  <1>. QED BY <1>1, EnvelopeInvariant, PTL

\* The invariant gives that the two reads differ in three answers.
LEMMA InvReads == EnvelopeInv => TwoReadsDiffer
  <1>. SUFFICES ASSUME EnvelopeInv PROVE TwoReadsDiffer
    OBVIOUS
  <1>. DEFINE prefix == ParsePrefix(rest, room)
              whole == ParseExact(rest, room)
  <1>1. rest \in Seq(Nat) /\ room \in Nat
    BY EnvelopeAssumption DEF EnvelopeInv, SequencesOK
  <1>2. \/ prefix = Fail("MissingInput") /\ whole = Fail("MissingInput")
        \/ /\ prefix = [status |-> "AbsentNode", used |-> 1, owid |-> Absent]
           /\ whole = Fail("AbsentNode")
        \/ /\ prefix = [status |-> "Parsed", used |-> FrameEnd(rest), owid |-> FrameOwid(rest)]
           /\ whole = IF FrameEnd(rest) = Len(rest) THEN prefix ELSE Fail("ByteCountMismatch")
        \/ \E status \in {"UnsupportedVersion", "InvalidDomainEncoding", "UnexpectedEnd",
                          "ImplementationCapacityExceeded"} :
             /\ prefix = Fail(status)
             /\ \/ whole = Fail(status)
                \/ /\ status \in {"UnexpectedEnd", "ImplementationCapacityExceeded"}
                   /\ whole = Fail("ByteCountMismatch")
    BY <1>1, ReadsAnswer
  <1>. HIDE DEF prefix, whole
  <1>. DEFINE differ == CASE prefix.status = "AbsentNode" -> whole = Fail("AbsentNode")
                          [] prefix.status = "Parsed" ->
                               whole = IF prefix.used = Len(rest) THEN prefix
                                       ELSE Fail("ByteCountMismatch")
                          [] OTHER -> whole = prefix \/ /\ prefix.status \in {"UnexpectedEnd",
                                                           "ImplementationCapacityExceeded"}
                                                        /\ whole = Fail("ByteCountMismatch")
  <1>3. \A status : Fail(status).status = status
    BY DEF Fail
  <1>4. ASSUME prefix = Fail("MissingInput"), whole = Fail("MissingInput") PROVE differ
    <2>1. prefix.status = "MissingInput" /\ whole = prefix
      BY <1>3, <1>4
    <2>. QED BY <2>1
  <1>5. ASSUME prefix = [status |-> "AbsentNode", used |-> 1, owid |-> Absent],
               whole = Fail("AbsentNode")
        PROVE  differ
    BY <1>5
  <1>6. ASSUME prefix = [status |-> "Parsed", used |-> FrameEnd(rest), owid |-> FrameOwid(rest)],
               whole = IF FrameEnd(rest) = Len(rest) THEN prefix ELSE Fail("ByteCountMismatch")
        PROVE  differ
    <2>1. prefix.status = "Parsed" /\ prefix.used = FrameEnd(rest)
      BY <1>6
    <2>. QED BY <1>6, <2>1
  <1>7. ASSUME NEW status \in {"UnsupportedVersion", "InvalidDomainEncoding", "UnexpectedEnd",
                               "ImplementationCapacityExceeded"},
               prefix = Fail(status),
               \/ whole = Fail(status)
               \/ /\ status \in {"UnexpectedEnd", "ImplementationCapacityExceeded"}
                  /\ whole = Fail("ByteCountMismatch")
        PROVE  differ
    <2>1. prefix.status = status /\ status # "AbsentNode" /\ status # "Parsed"
      BY <1>3, <1>7
    <2>. QED BY <1>7, <2>1
  <1>8. differ
    <2>. HIDE DEF differ
    <2>. QED BY <1>2, <1>4, <1>5, <1>6, <1>7
  <1>. QED BY <1>8 DEF TwoReadsDiffer, prefix, whole

\* The read of a whole buffer and the framed read differ in three answers and no
\* other, of whatever has arrived (src/src/parse.rs:25).
THEOREM ReadsDifferInThree == EnvelopeSpec => []TwoReadsDiffer
  BY EnvelopeInvariant, InvReads, PTL

\* The invariant gives that identifiers are written in the length reserved.
LEMMA InvWrites == EnvelopeInv => WritesWhatItReserved
  <1>. SUFFICES ASSUME EnvelopeInv, NEW o \in Owids(taken) \cup Owids(sent)
       PROVE  /\ ToBuffer(o).error = "none"
              /\ Len(ToBuffer(o).units) = EncodedLen(o, TRUE)
              /\ Len(NoSignature(o).units) = EncodedLen(o, FALSE)
              /\ AsByteArray(o, room) \in {ToBuffer(o), Refused("ImplementationCapacityExceeded")}
    BY DEF WritesWhatItReserved
  <1>1. Writable(o) /\ o.signature \in Seq(Nat) /\ Len(o.signature) = SignatureLength
    BY InHand, FrameUnits
  <1>2. /\ NoSignature(o) = Written(FieldUnits(o)) /\ ToBuffer(o) = Written(OwidUnits(o))
        /\ Len(OwidUnits(o)) = EncodedLen(o, TRUE) /\ LengthRefused(o, TRUE) = "none"
        /\ Len(FieldUnits(o)) = EncodedLen(o, FALSE)
    BY <1>1, WritesFields, WritableUnits
  <1>3. ToBuffer(o).error = "none" /\ ToBuffer(o).units = OwidUnits(o)
    BY <1>2 DEF Written
  <1>4. NoSignature(o).units = FieldUnits(o)
    BY <1>2 DEF Written
  <1>5. AsByteArray(o, room) \in {ToBuffer(o), Refused("ImplementationCapacityExceeded")}
    BY <1>2 DEF AsByteArray, Reserved
  <1>. QED BY <1>2, <1>3, <1>4, <1>5

\* Whoever holds an identifier can write it, in exactly the length reserved for
\* it, or has written nothing (src/src/owid.rs:321).
THEOREM WritesReserved == EnvelopeSpec => []WritesWhatItReserved
  BY EnvelopeInvariant, InvWrites, PTL

\* The invariant gives that an identifier is judged as it was created.
LEMMA InvJudges == EnvelopeInv => JudgedAsCreated
  <1>. SUFFICES ASSUME EnvelopeInv, NEW i \in DOMAIN taken, sender = "creator", taken[i] # Absent,
                       NEW pem \in Keys \cup Privates
       PROVE  /\ VerifyStatus(taken[i], pem, room) = VerifyStatus(sent[i], pem, room)
              /\ VerifyStatus(taken[i], pem, room) = CASE pem \notin Keys -> "InvalidKey"
                                                       [] pem = creator.key -> "Valid"
                                                       [] OTHER -> "Invalid"
    BY DEF JudgedAsCreated
  <1>1. /\ taken \in Seq(Frames) /\ sent \in Seq(Frames) /\ room \in Nat
    BY EnvelopeAssumption DEF EnvelopeInv, SequencesOK
  <1>2. /\ Len(taken) <= Len(sent) /\ \A j \in 1 .. Len(taken) : taken[j] = AsRead(sent[j])
        /\ \A j \in 1 .. Len(sent) : sent[j] # Absent => /\ creator \in Creators
                                                         /\ MadeBy(creator, room, sent[j])
    BY DEF EnvelopeInv, CreatorsFrames
  <1>3. i \in 1 .. Len(taken) /\ i \in 1 .. Len(sent)
    BY <1>1, <1>2
  <1>4. taken[i] = AsRead(sent[i]) /\ sent[i] # Absent
    BY <1>2, <1>3 DEF AsRead
  <1>5. creator \in Creators /\ MadeBy(creator, room, sent[i])
    BY <1>2, <1>3, <1>4
  <1>6. creator.key \in Keys
    <2>1. PICK domain \in Domains, private \in Privates :
            creator = NewCreator(domain, private) /\ creator.error = "none"
      BY <1>5 DEF Creators
    <2>. QED BY <2>1, CreatorFacts
  <1>7. /\ sent[i] \in Frames \ {Absent} /\ EncodedLen(sent[i], FALSE) <= room
        /\ sent[i].signature = SignByteArray(creator.key, FieldUnits(sent[i]))
    BY <1>5 DEF MadeBy
  <1>8. /\ taken[i] \in Frames \ {Absent} /\ EncodedLen(taken[i], FALSE) <= room
        /\ taken[i].signature = SignByteArray(creator.key, FieldUnits(taken[i]))
    BY <1>1, <1>4, <1>5, <1>7, CreatedIsReadBack
  <1>9. VerifyStatus(sent[i], pem, room) = CASE pem \notin Keys -> "InvalidKey"
                                             [] pem = creator.key -> "Valid"
                                             [] OTHER -> "Invalid"
    BY <1>1, <1>6, <1>7, JudgedByItsSigner
  <1>10. VerifyStatus(taken[i], pem, room) = CASE pem \notin Keys -> "InvalidKey"
                                              [] pem = creator.key -> "Valid"
                                              [] OTHER -> "Invalid"
    BY <1>1, <1>6, <1>8, JudgedByItsSigner
  <1>. QED BY <1>9, <1>10

\* An identifier read back is judged as the one created, under every key: valid
\* under its creator's and no other (src/src/creator.rs:246).
THEOREM ReadIsJudgedAsCreated == EnvelopeSpec => []JudgedAsCreated
  BY EnvelopeInvariant, InvJudges, PTL

\* An answer that does not wait for more is the same when more has arrived.
LEMMA StepIsFinal ==
  ASSUME EnvelopeInv, EnvelopeNext, Len(rest') > Len(rest), ~Waits(ParsePrefix(rest, room))
  PROVE  ParsePrefix(rest', room) = ParsePrefix(rest, room)
  <1>1. SequencesOK /\ Accounted /\ rest \in Seq(Nat) /\ room \in Nat
    BY EnvelopeAssumption DEF EnvelopeInv, SequencesOK
  <1>2. PICK length \in Nat : length = Len(rest)
    BY <1>1
  <1>3. ASSUME rest' = rest PROVE FALSE
    <2>1. Len(rest') = length /\ ~(length > length)
      BY <1>2, <1>3
    <2>. QED BY <1>2, <2>1
  <1>4. ASSUME Take PROVE FALSE
    <2>1. PICK used \in 1 .. Len(rest) : rest' = After(rest, used)
      BY <1>4, TakesNextFrame
    <2>2. PICK n \in 1 .. length : n = used
      BY <1>2, <2>1
    <2>3. /\ n + 1 \in Nat \ {0} /\ n + 1 <= length + 1 /\ length <= length
      OBVIOUS
    <2>4. Len(SubSeq(rest, n + 1, length)) = length - (n + 1) + 1
      BY <1>1, <1>2, <2>3, PartFacts
    <2>5. ~(length - (n + 1) + 1 > length)
      OBVIOUS
    <2>. QED BY <1>2, <2>1, <2>2, <2>4, <2>5 DEF After
  <1>5. PICK unit \in Nat : Arrives(unit) /\ UNCHANGED taken
    <2>1. CASE Arrive
      <3>1. Head(wire) \in Nat
        BY <2>1 DEF Arrive, EnvelopeInv, SequencesOK
      <3>. QED BY <2>1, <3>1 DEF Arrive
    <2>2. CASE Scribble
      <3>1. PICK unit \in Scribbles \cup FirstUnits : Arrives(unit)
        BY <2>2 DEF Scribble
      <3>2. unit \in Nat
        BY EnvelopeAssumption, BytesAreNaturals
      <3>. QED BY <2>2, <3>1, <3>2 DEF Scribble
    <2>3. CASE SendOwid
      BY <1>3, <2>3 DEF SendOwid
    <2>4. CASE SendMarker
      BY <1>3, <2>4 DEF SendMarker
    <2>5. CASE GiveUp
      BY <1>3, <2>5 DEF GiveUp
    <2>. QED BY <1>4, <2>1, <2>2, <2>3, <2>4, <2>5 DEF EnvelopeNext
  <1>6. rest' = rest \o <<unit>> /\ <<unit>> \in Seq(Nat)
    BY <1>1, <1>5, ArrivesKeepsAccount
  <1>7. ParsePrefix(rest, room).status \notin {"UnexpectedEnd", "MissingInput"}
    BY DEF Waits
  <1>8. ParsePrefix(rest \o <<unit>>, room) = ParsePrefix(rest, room)
    BY <1>1, <1>6, <1>7, PrefixExtends
  <1>. QED BY <1>6, <1>8

\* What a framed read said of a buffer, unless that the data stopped early, it
\* says of every longer one (src/src/parse.rs:113, src/src/owid.rs:231).
THEOREM DecisionStands == EnvelopeSpec => DecisionIsFinal
  <1>. DEFINE Final == LET before == ParsePrefix(rest, room)
                           after == ParsePrefix(rest', room)
                       IN Len(rest') > Len(rest) => Waits(before) \/ after = before
  <1>1. EnvelopeInv /\ [EnvelopeNext]_envelopeVars => [Final]_envelopeVars
    BY StepIsFinal
  <1>2. EnvelopeSpec => [][Final]_envelopeVars
    <2>. HIDE DEF Final
    <2>. QED BY <1>1, EnvelopeInvariant, PTL DEF EnvelopeSpec
  <1>. QED BY <1>2 DEF DecisionIsFinal

-----------------------------------------------------------------------------
(***************************************************************************)
(* The refinement.                                                         *)
(***************************************************************************)

\* The frames sent as they are read back, and those received: the mapping of
\* Channel.
SentAsRead == [i \in DOMAIN sent |-> AsRead(sent[i])]
Received == IF sender = "creator" THEN taken ELSE << >>

\* A frame more is sent, as it is read back.
LEMMA SendingIsSend ==
  ASSUME EnvelopeInv, creator.error = "none", NEW frame,
         AsRead(frame) \in CreatedFrames, Len(sent) < MaxFrames, frame \in Frames,
         sent' = Append(sent, frame), UNCHANGED <<sender, taken>>
  PROVE  Channel!Send
  <1>1. sent \in Seq(Frames) /\ Len(sent) \in Nat
    BY DEF EnvelopeInv, SequencesOK
  <1>2. DOMAIN sent = 1 .. Len(sent) /\ DOMAIN sent' = 1 .. Len(sent) + 1
    BY <1>1
  <1>3. SentAsRead \in Seq({AsRead(f) : f \in Frames}) /\ Len(SentAsRead) = Len(sent)
    <2>1. \A i \in 1 .. Len(sent) : AsRead(sent[i]) \in {AsRead(f) : f \in Frames}
      BY <1>1
    <2>. QED BY <1>1, <1>2, <2>1 DEF SentAsRead
  <1>4. SentAsRead' = Append(SentAsRead, AsRead(frame))
    <2>. DEFINE longer == Append(SentAsRead, AsRead(frame))
    <2>1. /\ DOMAIN longer = 1 .. Len(sent) + 1
          /\ longer = [i \in 1 .. Len(sent) + 1 |-> longer[i]]
          /\ \A i \in 1 .. Len(sent) + 1 :
               longer[i] = IF i <= Len(sent) THEN SentAsRead[i] ELSE AsRead(frame)
      <3>1. PICK s \in Seq({AsRead(f) : f \in Frames}), n \in Nat, x \in {AsRead(f) : f \in Frames} :
              s = SentAsRead /\ n = Len(sent) /\ x = AsRead(frame)
        BY <1>1, <1>3
      <3>2. Len(s) = n
        BY <1>3, <3>1
      <3>3. /\ Append(s, x) \in Seq({AsRead(f) : f \in Frames}) /\ Len(Append(s, x)) = n + 1
            /\ \A i \in 1 .. n + 1 : Append(s, x)[i] = IF i <= n THEN s[i] ELSE x
        BY <3>2
      <3>4. DOMAIN Append(s, x) = 1 .. n + 1
        BY <3>3
      <3>5. Append(s, x) = [i \in 1 .. n + 1 |-> Append(s, x)[i]]
        <4>1. PICK t \in Seq({AsRead(f) : f \in Frames}) : t = Append(s, x)
          BY <3>3
        <4>2. t = [i \in 1 .. Len(t) |-> t[i]]
          OBVIOUS
        <4>. QED BY <3>3, <4>1, <4>2
      <3>. QED BY <3>1, <3>3, <3>4, <3>5
    <2>2. ASSUME NEW i \in 1 .. Len(sent) + 1 PROVE longer[i] = AsRead(sent'[i])
      <3>1. CASE i <= Len(sent)
        <4>1. i \in 1 .. Len(sent) /\ sent'[i] = sent[i]
          BY <1>1, <3>1
        <4>2. SentAsRead[i] = AsRead(sent[i])
          BY <1>2, <4>1 DEF SentAsRead
        <4>. QED BY <2>1, <3>1, <4>1, <4>2
      <3>2. CASE ~(i <= Len(sent))
        <4>1. i = Len(sent) + 1 /\ sent'[i] = frame
          BY <1>1, <3>2
        <4>. QED BY <2>1, <3>2, <4>1
      <3>. QED BY <3>1, <3>2
    <2>. HIDE DEF longer
    <2>3. SentAsRead' = [i \in 1 .. Len(sent) + 1 |-> AsRead(sent'[i])]
      BY <1>2 DEF SentAsRead
    <2>4. longer = [i \in 1 .. Len(sent) + 1 |-> AsRead(sent'[i])]
      BY <2>1, <2>2
    <2>. QED BY <2>3, <2>4 DEF longer
  <1>5. Received' = Received
    BY DEF Received
  <1>. QED BY <1>3, <1>4, <1>5 DEF Channel!Send, SentAsRead, Received

\* A frame taken is the next of those sent.
LEMMA TakingIsReceive ==
  ASSUME EnvelopeInv, Take
  PROVE  Channel!Receive \/ UNCHANGED <<SentAsRead, Received>>
  <1>1. sent \in Seq(Frames) /\ taken \in Seq(Frames) /\ UNCHANGED <<sender, sent>>
    BY DEF EnvelopeInv, SequencesOK, Take
  <1>2. PICK frame \in Frames : /\ taken' = Append(taken, frame)
                                /\ sender = "creator" => /\ Len(taken) < Len(sent)
                                                         /\ frame = AsRead(sent[Len(taken) + 1])
    BY TakesNextFrame
  <1>3. SentAsRead' = SentAsRead
    BY <1>1 DEF SentAsRead
  <1>4. CASE sender # "creator"
    BY <1>1, <1>3, <1>4 DEF Received
  <1>5. CASE sender = "creator"
    <2>1. Received = taken /\ Received' = Append(taken, frame)
      BY <1>1, <1>2, <1>5 DEF Received
    <2>2. PICK k \in Nat, n \in Nat : k = Len(taken) /\ n = Len(sent)
      BY <1>1
    <2>3. k + 1 \in 1 .. n
      BY <1>2, <1>5, <2>2
    <2>4. SentAsRead[k + 1] = frame
      BY <1>1, <1>2, <1>5, <2>2, <2>3 DEF SentAsRead
    <2>5. Len(SentAsRead) = n
      <3>1. \A i \in 1 .. n : AsRead(sent[i]) \in {AsRead(f) : f \in Frames}
        BY <1>1, <2>2
      <3>2. SentAsRead \in Seq({AsRead(f) : f \in Frames}) /\ DOMAIN SentAsRead = 1 .. n
        BY <1>1, <2>2, <3>1 DEF SentAsRead
      <3>. QED BY <2>2, <3>2
    <2>6. Len(Received) < Len(SentAsRead) /\ SentAsRead[Len(Received) + 1] = frame
      BY <1>2, <1>5, <2>1, <2>2, <2>4, <2>5
    <2>. QED BY <1>3, <2>1, <2>6 DEF Channel!Receive, SentAsRead, Received
  <1>. QED BY <1>4, <1>5

\* Every step is one of the channel of frames, or does not show there.
LEMMA StepsAreChannelSteps ==
  ASSUME EnvelopeInv, [EnvelopeNext]_envelopeVars
  PROVE  [Channel!Next]_<<SentAsRead, Received>>
  <1>1. CASE SendOwid
    <2>1. PICK payload \in Payloads, now \in Clocks :
            \E created \in {CreateVersion(creator, Version3, payload, now, room)} :
              created.error = "none" /\ sent' = Append(sent, created.owid)
      BY <1>1 DEF SendOwid
    <2>2. PICK created \in {CreateVersion(creator, Version3, payload, now, room)} :
            created.error = "none" /\ sent' = Append(sent, created.owid)
      BY <2>1
    <2>3. creator.error = "none" /\ Len(sent) < MaxFrames /\ UNCHANGED <<sender, taken>>
      BY <1>1 DEF SendOwid
    <2>4. creator \in Creators /\ room \in Rooms
      BY <2>3 DEF EnvelopeInv, SequencesOK, AnyonesUnits, CreatorsFrames
    <2>5. AsRead(created.owid) \in CreatedFrames /\ created.owid \in Frames
      BY <2>2, <2>4, CreatedIsMade DEF MadeBy
    <2>6. Channel!Send
      BY <2>2, <2>3, <2>5, SendingIsSend
    <2>. QED BY <2>6 DEF Channel!Next
  <1>2. CASE SendMarker
    <2>1. /\ creator.error = "none" /\ Len(sent) < MaxFrames /\ UNCHANGED <<sender, taken>>
          /\ sent' = Append(sent, Absent)
      BY <1>2 DEF SendMarker
    <2>2. AsRead(Absent) \in CreatedFrames /\ Absent \in Frames
      BY DEF AsRead, CreatedFrames, Frames
    <2>3. Channel!Send
      BY <2>1, <2>2, SendingIsSend
    <2>. QED BY <2>3 DEF Channel!Next
  <1>3. CASE Take
    BY <1>3, TakingIsReceive DEF Channel!Next
  <1>4. ASSUME UNCHANGED <<sender, sent, taken>> PROVE UNCHANGED <<SentAsRead, Received>>
    BY <1>4 DEF SentAsRead, Received
  <1>5. CASE Arrive
    BY <1>4, <1>5 DEF Arrive
  <1>6. CASE Scribble
    BY <1>4, <1>6 DEF Scribble
  <1>7. CASE GiveUp
    BY <1>4, <1>7 DEF GiveUp
  <1>8. CASE UNCHANGED envelopeVars
    BY <1>4, <1>8 DEF envelopeVars
  <1>. QED BY <1>1, <1>2, <1>3, <1>5, <1>6, <1>7, <1>8 DEF EnvelopeNext

\* Sending identifiers as frames is a channel: whoever reads takes exactly the
\* frames that were sent, in order, however their bytes arrive
\* (src/src/owid.rs:214, src/src/owid.rs:364).
THEOREM FramesAreAChannel == EnvelopeSpec => ChannelSpec
  <1>1. EnvelopeInit => Channel!Init
    <2>. SUFFICES ASSUME EnvelopeInit PROVE Channel!Init
      OBVIOUS
    <2>1. sent = << >> /\ taken = << >>
      BY DEF EnvelopeInit
    <2>2. [i \in DOMAIN sent |-> AsRead(sent[i])] = << >>
      BY <2>1
    <2>. QED BY <2>1, <2>2 DEF Channel!Init
  <1>2. EnvelopeInv /\ [EnvelopeNext]_envelopeVars => [Channel!Next]_(Channel!channelVars)
    BY StepsAreChannelSteps DEF Channel!channelVars, SentAsRead, Received
  <1>. QED BY <1>1, <1>2, EnvelopeInvariant, PTL DEF EnvelopeSpec, ChannelSpec, Channel!Spec
=============================================================================
