----------------------------- MODULE OwidFormat -----------------------------
(***************************************************************************)
(* The OWID binary format: how the fields of an identifier are written     *)
(* (src/src/io.rs, src/src/owid.rs), read back in the two ways there are   *)
(* (src/src/parse.rs), signed and verified (src/src/creator.rs and         *)
(* src/src/crypto.rs), as functions over sequences of units.               *)
(*                                                                         *)
(* A unit is a byte, 0 .. Base - 1 with a small Base, or the one unit that *)
(* stands for the signature of a key over some data, which is no byte, so  *)
(* that a signature is made by its key and data and by no other.  Dates    *)
(* are ticks since the base date, several to the minute; room is how many  *)
(* bytes the build can reserve at once.                                    *)
(***************************************************************************)
EXTENDS Integers, Sequences, FiniteSets, SequencesExt

CONSTANTS
  Base,             \* how many values a byte has, 256
  NotText,          \* the units no valid UTF-8 text holds
  Blanks,           \* the units that are white space
  MaxDomain,        \* MAXIMUM_DOMAIN_LENGTH
  ShortWidth,       \* the bytes of a u16
  LongWidth,        \* the bytes of a u32
  SignatureLength,  \* SIGNATURE_LENGTH
  Resolution,       \* ticks to the minute
  MinutesPerHour,
  Keys,             \* the key pairs, numbered
  Absent            \* Option::None, what an empty node is read as

ASSUME UnitsAssumption ==
  /\ Base \in Nat /\ Base > 4
  /\ {ShortWidth, LongWidth, SignatureLength, Resolution, MinutesPerHour} \subseteq Nat \ {0}
  /\ MaxDomain \in Nat
  /\ Keys \subseteq Nat /\ Keys # {} /\ IsFiniteSet(Keys)

Bytes == 0 .. Base - 1

\* How many values so many bytes have.
Power[width \in Nat] == IF width = 0 THEN 1 ELSE Base * Power[width - 1]

Minute == Resolution
Hour == MinutesPerHour * Resolution

-----------------------------------------------------------------------------
(***************************************************************************)
(* enum Version.                                                           *)
(***************************************************************************)
Empty == 0
Version1 == 1
Version2 == 2
Version3 == 3

Versions == {Version1, Version2, Version3}

-----------------------------------------------------------------------------
(***************************************************************************)
(* Writing.  What a write appended stays in the buffer when a later field  *)
(* is refused, so the outcome holds both.                                  *)
(***************************************************************************)
Written(units) == [error |-> "none", units |-> units]
Refused(error) == [error |-> error, units |-> << >>]

\* One write after another, the `?` of the code.
Then(first, next) ==
  IF first.error # "none" THEN first
  ELSE [error |-> next.error, units |-> first.units \o next.units]

LittleEndian(n, width) == [i \in 1 .. width |-> (n \div Power[i - 1]) % Base]
BigEndian(n, width) == Reverse(LittleEndian(n, width))

\* num_minutes and num_hours: whole units of a duration, cut towards zero.
Whole(ticks, unit) == IF ticks < 0 THEN -((-ticks) \div unit) ELSE ticks \div unit

Fits(n, width) == 0 <= n /\ n < Power[width]

\* write_domain.
WriteDomain(domain) ==
  CASE \E i \in DOMAIN domain : domain[i] = 0 -> Refused("InvalidDomain")
    [] (\A i \in DOMAIN domain : domain[i] # 0) /\ Len(domain) > MaxDomain ->
         Refused("DomainTooLong")
    [] OTHER -> Written(Append(domain, 0))

WriteNumber(n, width, digits) ==
  IF Fits(n, width) THEN Written(digits) ELSE Refused("DateOutOfRange")

\* A mutant: the hours of version 1 are written like every other number.
WriteDateLittle(date, version) ==
  CASE version = Version1 ->
         LET hours == Whole(date, Hour)
         IN WriteNumber(hours, ShortWidth, LittleEndian(hours, ShortWidth))
    [] version \in {Version2, Version3} ->
         LET minutes == Whole(date, Minute)
         IN WriteNumber(minutes, LongWidth, LittleEndian(minutes, LongWidth))
    [] OTHER -> Refused("UnsupportedVersion")

\* write_date, and minutes_since_base for the versions that count minutes.
WriteDate(date, version) ==
  CASE version = Version1 ->
         LET hours == Whole(date, Hour)
         IN WriteNumber(hours, ShortWidth, BigEndian(hours, ShortWidth))
    [] version \in {Version2, Version3} ->
         LET minutes == Whole(date, Minute)
         IN WriteNumber(minutes, LongWidth, LittleEndian(minutes, LongWidth))
    [] OTHER -> Refused("UnsupportedVersion")

\* write_byte_array: the length as a u32, then the bytes.
WriteByteArray(value) ==
  IF Fits(Len(value), LongWidth) THEN Written(LittleEndian(Len(value), LongWidth) \o value)
  ELSE Refused("PayloadTooLarge")

WriteSignature(value) ==
  IF Len(value) # SignatureLength THEN Refused("InvalidSignatureLength") ELSE Written(value)

\* to_buffer_no_signature: the fields the signature covers.
NoSignature(o) ==
  Then(Then(Then(Written(<<o.version>>), WriteDomain(o.domain)),
            WriteDate(o.date, o.version)),
       WriteByteArray(o.payload))

ToBuffer(o) == Then(NoSignature(o), WriteSignature(o.signature))

\* empty_to_buffer.
Marker == <<Empty>>

\* date_length.
DateLength(version) == IF version = Version1 THEN ShortWidth ELSE LongWidth

\* A mutant: the terminator of the domain is not counted.
EncodedLenNoTerminator(o, signed) ==
  1 + Len(o.domain) + DateLength(o.version) + LongWidth + Len(o.payload)
    + IF signed THEN SignatureLength ELSE 0

\* encoded_len, of an identifier LengthRefused does not refuse.
EncodedLen(o, signed) ==
  1 + Len(o.domain) + 1 + DateLength(o.version) + LongWidth + Len(o.payload)
    + IF signed THEN SignatureLength ELSE 0

LengthRefused(o, signed) ==
  CASE ~Fits(Len(o.payload), LongWidth) -> "PayloadTooLarge"
    [] Fits(Len(o.payload), LongWidth) /\ signed /\ Len(o.signature) # SignatureLength ->
         "InvalidSignatureLength"
    [] OTHER -> IF o.version \in Versions THEN "none" ELSE "UnsupportedVersion"

\* Reserves the exact length first, so a write that has no room writes nothing.
Reserved(o, signed, room, write) ==
  CASE LengthRefused(o, signed) # "none" -> Refused(LengthRefused(o, signed))
    [] LengthRefused(o, signed) = "none" /\ EncodedLen(o, signed) > room ->
         Refused("ImplementationCapacityExceeded")
    [] OTHER -> write

AsByteArray(o, room) == Reserved(o, TRUE, room, ToBuffer(o))

SignedBytes(o, room) == Reserved(o, FALSE, room, NoSignature(o))

-----------------------------------------------------------------------------
(***************************************************************************)
(* Reading.  A failure is a ParseStatus and consumes nothing.              *)
(***************************************************************************)
Fail(status) == [status |-> status, used |-> 0]

LittleEndianValue(units) ==
  LET value[i \in 0 .. Len(units)] ==
        IF i = 0 THEN 0 ELSE value[i - 1] + units[i] * Power[i - 1]
  IN value[Len(units)]

BigEndianValue(units) == LittleEndianValue(Reverse(units))

After(units, count) == SubSeq(units, count + 1, Len(units))

\* A mutant: the window is one short, so the longest domain is not read.
DomainWindowShort(units) == IF Len(units) < MaxDomain THEN Len(units) ELSE MaxDomain

\* The units searched for the terminator, never more than the longest domain's.
DomainWindow(units) == IF Len(units) < MaxDomain + 1 THEN Len(units) ELSE MaxDomain + 1

\* read_domain.
ReadDomain(units) ==
  LET window == DomainWindow(units)
      ends == {i \in 1 .. window : units[i] = 0}
      end == CHOOSE i \in ends : \A j \in ends : i <= j
      domain == SubSeq(units, 1, end - 1)
  IN CASE ends = {} /\ window > MaxDomain -> Fail("InvalidDomainEncoding")
       [] ends = {} /\ window <= MaxDomain -> Fail("UnexpectedEnd")
       [] OTHER -> IF \E i \in DOMAIN domain : domain[i] \in NotText
                   THEN Fail("InvalidDomainEncoding")
                   ELSE [status |-> "Parsed", used |-> end, domain |-> domain]

\* read_date, of DateLength(version) units.
ReadDate(units, version) ==
  IF version = Version1 THEN BigEndianValue(units) * Hour ELSE LittleEndianValue(units) * Minute

\* A mutant: a frame short of its payload is a mismatch, as a whole buffer is.
CountsAnyExtent(extent, declared, present) ==
  IF present # declared /\ (extent = "whole" \/ present < declared)
  THEN "ByteCountMismatch" ELSE "Parsed"

\* A mutant: a whole buffer may have bytes after the envelope.
CountsAtLeast(extent, declared, present) ==
  CASE extent = "whole" /\ present < declared -> "ByteCountMismatch"
    [] extent = "prefix" /\ present < declared -> "UnexpectedEnd"
    [] OTHER -> "Parsed"

\* Whether the declared count agrees with the bytes present after the length,
\* which the two reads ask differently.
Counts(extent, declared, present) ==
  CASE extent = "whole" /\ present # declared -> "ByteCountMismatch"
    [] extent = "prefix" /\ present < declared -> "UnexpectedEnd"
    [] OTHER -> "Parsed"

\* parse_one, which walks the buffer by index: each name is where a field ends.
ParseOne(units, extent, room) ==
  LET version == units[1]
      named == ReadDomain(Tail(units))
      domainEnd == 1 + named.used
      dateEnd == domainEnd + DateLength(version)
      lengthEnd == dateEnd + LongWidth
      declared == LittleEndianValue(SubSeq(units, dateEnd + 1, lengthEnd))
      counts == Counts(extent, declared, Len(units) - lengthEnd - SignatureLength)
      payloadEnd == lengthEnd + declared
      end == payloadEnd + SignatureLength
  IN IF units = << >> THEN Fail("MissingInput")
     ELSE IF version = Empty THEN Fail("AbsentNode")
     ELSE IF version \notin Versions THEN Fail("UnsupportedVersion")
     ELSE IF named.status # "Parsed" THEN Fail(named.status)
     ELSE IF Len(units) < lengthEnd THEN Fail("UnexpectedEnd")
     ELSE IF counts # "Parsed" THEN Fail(counts)
     ELSE IF declared > room THEN Fail("ImplementationCapacityExceeded")
     ELSE [status |-> "Parsed", used |-> end,
           owid |-> [version |-> version, domain |-> named.domain,
                     date |-> ReadDate(SubSeq(units, domainEnd + 1, dateEnd), version),
                     payload |-> SubSeq(units, lengthEnd + 1, payloadEnd),
                     signature |-> SubSeq(units, payloadEnd + 1, end)]]

\* parse_exact, the read of from_byte_array.
ParseExact(units, room) == ParseOne(units, "whole", room)

\* A mutant: a marker is handed back without being stepped over.
ParsePrefixStays(units, room) ==
  IF units # << >> /\ units[1] = Empty
  THEN [status |-> "AbsentNode", used |-> 0, owid |-> Absent]
  ELSE ParseOne(units, "prefix", room)

\* A mutant: a marker is a failure of the framed read too.
ParsePrefixNoMarker(units, room) == ParseOne(units, "prefix", room)

\* parse_prefix, the read of read_from_prefix, with the status of_frame gives
\* it: a marker is stepped over and is no identifier.
ParsePrefix(units, room) ==
  IF units # << >> /\ units[1] = Empty
  THEN [status |-> "AbsentNode", used |-> 1, owid |-> Absent]
  ELSE ParseOne(units, "prefix", room)

\* A framed read handed back a frame.
Read(result) == "owid" \in DOMAIN result

-----------------------------------------------------------------------------
(***************************************************************************)
(* Signing and verifying.                                                  *)
(***************************************************************************)

\* The unit a key's signature over the data puts first; the others are zero.
Signed(key, data) ==
  Base + (LittleEndianValue(Append(data, 1)) * (1 + Max(Keys)) + key)

\* sign_byte_array.
SignByteArray(key, data) == [i \in 1 .. SignatureLength |-> IF i = 1 THEN Signed(key, data) ELSE 0]

\* verify_byte_array with a verifying key, which every Crypto has.
VerifyByteArray(key, data, signature) ==
  CASE Len(signature) # SignatureLength -> "InvalidSignatureLength"
    [] Len(signature) = SignatureLength /\ signature = SignByteArray(key, data) -> "true"
    [] OTHER -> "false"

\* verify_with_public_key: a text that is no key is refused before anything else.
VerifyWithPublicKey(o, pem, room) ==
  LET data == SignedBytes(o, room)
  IN CASE pem \notin Keys -> "Key"
       [] pem \in Keys /\ data.error # "none" -> data.error
       [] OTHER -> VerifyByteArray(pem, data.units, o.signature)

\* SignatureStatus::of.
SignatureStatusOf(result) ==
  CASE result = "true" -> "Valid"
    [] result = "false" -> "Invalid"
    [] result \in {"InvalidSignatureLength", "ImplementationCapacityExceeded"} -> result
    [] result \in {"KeyMissing", "Http"} -> "KeyUnavailable"
    [] result \in {"Key", "InvalidKeyFormat"} -> "InvalidKey"
    [] OTHER -> "VerificationError"

\* verify_status_with_public_key.
VerifyStatus(o, pem, room) == SignatureStatusOf(VerifyWithPublicKey(o, pem, room))

-----------------------------------------------------------------------------
(***************************************************************************)
(* Creator.                                                                *)
(***************************************************************************)

\* Creator::from_configuration: the private key is read, then Creator::new.
NewCreator(domain, private) ==
  CASE private \notin Keys -> [error |-> "Key"]
    [] private \in Keys /\ (\A i \in DOMAIN domain : domain[i] \in Blanks) ->
         [error |-> "InvalidDomain"]
    [] OTHER -> IF Len(domain) > MaxDomain THEN [error |-> "DomainTooLong"]
                ELSE [error |-> "none", domain |-> domain, key |-> private]

Unsigned(creator, version, payload, now) ==
  [version |-> version, domain |-> creator.domain, date |-> now, payload |-> payload,
   signature |-> << >>]

\* A mutant: the signature is made over the payload alone.
CreateOverPayload(creator, version, payload, now, room) ==
  LET o == Unsigned(creator, version, payload, now)
      data == SignedBytes(o, room)
  IN IF data.error # "none" THEN [error |-> data.error]
     ELSE [error |-> "none",
           owid |-> [o EXCEPT !.signature = SignByteArray(creator.key, payload)]]

\* create_version: the fields are signed, then the signature set.
CreateVersion(creator, version, payload, now, room) ==
  LET o == Unsigned(creator, version, payload, now)
      data == SignedBytes(o, room)
  IN IF data.error # "none" THEN [error |-> data.error]
     ELSE [error |-> "none",
           owid |-> [o EXCEPT !.signature = SignByteArray(creator.key, data.units)]]
=============================================================================
