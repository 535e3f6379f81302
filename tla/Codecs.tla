------------------------------- MODULE Codecs -------------------------------
(***************************************************************************)
(* The three wire formats: the tunnel of CAN frames, SOME/IP messages and  *)
(* the service discovery payload they carry.  A datagram is a sequence of  *)
(* bytes, an encoder gives one or refuses, and a decoder gives <<value>>,  *)
(* or <<>> for what it refuses.                                            *)
(*                                                                         *)
(* A byte is a digit in base Base, 256 in the code: the layouts count      *)
(* bytes, and flags and nibbles are halves and roots of a byte.            *)
(***************************************************************************)
EXTENDS Integers, Sequences, SequencesExt

CONSTANTS Base,                 \* values of a byte
          Nibble,               \* values of half a byte, Nibble * Nibble = Base
          StandardIds, ExtendedIds,
          MaxPayload,           \* kClassicMaxPayload
          MaxFrames,            \* kMaxFramesPerDatagram
          EntryOptions,         \* kMaxOptionsPerEntry
          MaxOptions,
          Magic,
          Packets, ServiceCalls, Announcements   \* what is sent in the three formats

VARIABLES format, given, wire, damage, got, stage
codecVars == <<format, given, wire, damage, got, stage>>

-----------------------------------------------------------------------------
\* The values of up to four bytes: no field is wider.
Weight[k \in 0..4] == IF k = 0 THEN 1 ELSE Weight[k - 1] * Base

\* append_u16 to append_u32 and read_u16 to read_u32: most significant byte
\* first, at an offset from 0.
Put(n, width) == [i \in 1..width |-> (n \div Weight[width - i]) % Base]
At(bytes, offset, width) ==
  LET read[i \in 0..width] == IF i = 0 THEN 0 ELSE read[i - 1] * Base + bytes[offset + i]
  IN read[width]

Byte == 0..(Base - 1)
Numbers(width) == 0..(Weight[width] - 1)

-----------------------------------------------------------------------------
\* Tunnel.  Every record has the same size, whatever its payload.
IdMask(extended) == IF extended THEN ExtendedIds ELSE StandardIds
ExtendedBit == Weight[4] \div 2

Carriable(frame) ==
  /\ frame.id < IdMask(frame.extended)
  /\ frame.brs => frame.fd
  /\ Len(frame.data) <= MaxPayload

Flags(frame) == (IF frame.fd THEN 1 ELSE 0) + (IF frame.brs THEN 2 ELSE 0)

PutRecord(frame) ==
  Put(frame.id + (IF frame.extended THEN ExtendedBit ELSE 0), 4)
    \o <<Len(frame.data), Flags(frame), 0, 0>>
    \o [i \in 1..MaxPayload |-> IF i <= Len(frame.data) THEN frame.data[i] ELSE 0]

TunnelEncode(packet) ==
  IF /\ Len(packet.frames) \in 1..MaxFrames
     /\ \A n \in DOMAIN packet.frames : Carriable(packet.frames[n])
  THEN <<Put(Magic, 4) \o <<1, Len(packet.frames), 0, 0>> \o Put(packet.sequence, 4)
         \o Put(packet.timestamp, 4)
         \o FlattenSeq([n \in DOMAIN packet.frames |-> PutRecord(packet.frames[n])])>>
  ELSE <<>>

RecordSize == 8 + MaxPayload

\* The record's length may be a lie of the wire; data stops at MaxPayload.
RecordAt(bytes, offset) ==
  LET word == At(bytes, offset, 4)
      extended == (word \div ExtendedBit) % 2 = 1
  IN [id |-> word % IdMask(extended), extended |-> extended,
      fd |-> bytes[offset + 6] % 2 = 1, brs |-> (bytes[offset + 6] \div 2) % 2 = 1,
      data |-> SubSeq(bytes, offset + 9, offset + 8 + bytes[offset + 5])]

TunnelDecode(bytes) ==
  LET count == bytes[6]
      records == [n \in 1..count |-> RecordAt(bytes, 16 + (n - 1) * RecordSize)]
  IN IF /\ Len(bytes) >= 16
        /\ At(bytes, 0, 4) = Magic /\ bytes[5] = 1
        /\ count \in 1..MaxFrames
        /\ Len(bytes) = 16 + count * RecordSize
        /\ \A n \in 1..count :
             bytes[16 + (n - 1) * RecordSize + 5] <= MaxPayload /\ Carriable(records[n])
     THEN <<[sequence |-> At(bytes, 8, 4), timestamp |-> At(bytes, 12, 4),
             frames |-> records]>>
     ELSE <<>>

-----------------------------------------------------------------------------
\* SOME/IP.  The length field counts from the request id on.
MessageTypes == {0, 1, 2, Base \div 2, Base \div 2 + 1}

Serialize(message) ==
  <<Put(message.service, 2) \o Put(message.method, 2) \o Put(8 + Len(message.payload), 4)
    \o Put(message.client, 2) \o Put(message.session, 2)
    \o <<1, message.version, message.type, message.code>> \o message.payload>>

Deserialize(bytes) ==
  IF /\ Len(bytes) >= 16 /\ At(bytes, 4, 4) >= 8
     /\ Len(bytes) = 16 + At(bytes, 4, 4) - 8
     /\ bytes[13] = 1 /\ bytes[15] \in MessageTypes
  THEN <<[service |-> At(bytes, 0, 2), method |-> At(bytes, 2, 2),
          client |-> At(bytes, 8, 2), session |-> At(bytes, 10, 2),
          version |-> bytes[14], type |-> bytes[15], code |-> bytes[16],
          payload |-> SubSeq(bytes, 17, Len(bytes))]>>
  ELSE <<>>

-----------------------------------------------------------------------------
\* Service discovery.
NoAddress == Weight[4]          \* a text that is no IPv4 address
EntryTypes == {0, 1, 6, 7}
IsServiceEntry(type) == type \in {0, 1}
Multicast == 20
OptionTypes == {4, Multicast}
OptionLength == 9
NoOption == [type |-> 4, address |-> NoAddress, protocol |-> 17, port |-> 0]

PutOption(option) ==
  Put(OptionLength, 2) \o <<option.type, 0>> \o Put(option.address, 4)
    \o <<0, option.protocol>> \o Put(option.port, 2)

PutEntry(entry, index) ==
  <<entry.type, index, 0, (Len(entry.options) % Nibble) * Nibble>>
    \o Put(entry.service, 2) \o Put(entry.instance, 2) \o <<entry.major>> \o Put(entry.ttl, 3)
    \o (IF IsServiceEntry(entry.type) THEN Put(entry.minor, 4)
        ELSE <<0, 0>> \o Put(entry.eventgroup, 2))

OptionsOf(entries) == FlattenSeq([n \in DOMAIN entries |-> entries[n].options])

SdPayload(message) ==
  LET entries == FlattenSeq([n \in DOMAIN message.entries |->
                   PutEntry(message.entries[n], Len(OptionsOf(SubSeq(message.entries, 1, n - 1))))])
      options == OptionsOf(message.entries)
      flags == (IF message.reboot THEN Base \div 2 ELSE 0)
               + (IF message.unicast THEN Base \div 4 ELSE 0)
  IN <<flags, 0, 0, 0>> \o Put(Len(entries), 4) \o entries
       \o Put(12 * Len(options), 4)
       \o FlattenSeq([n \in DOMAIN options |-> PutOption(options[n])])

SdSerialize(message) ==
  LET options == OptionsOf(message.entries) IN
  IF /\ \A n \in DOMAIN message.entries : Len(message.entries[n].options) <= EntryOptions
     /\ Len(options) <= MaxOptions
     /\ \A n \in DOMAIN options : options[n].address # NoAddress
  THEN Serialize([service |-> Weight[2] - 1, method |-> (Base \div 2 + 1) * Base, client |-> 0,
                  session |-> message.session, version |-> 1, type |-> 2, code |-> 0,
                  payload |-> SdPayload(message)])
  ELSE <<>>

\* Mutated form: an option of a type that is not known leaves no place behind.
NextOptionForgotten(bytes, done) ==
  LET o == done.at
      total == At(bytes, o, 2) + 3
      known == bytes[o + 3] \in OptionTypes
      option == [type |-> bytes[o + 3], address |-> At(bytes, o + 4, 4),
                 protocol |-> bytes[o + 10], port |-> At(bytes, o + 10, 2)]
  IN IF done.bad \/ o = Len(bytes) THEN done
     ELSE IF \/ Len(bytes) - o < 4 \/ total < 4 \/ Len(bytes) - o < total
             \/ known /\ total # OptionLength + 3
     THEN [done EXCEPT !.bad = TRUE]
     ELSE [at |-> o + total, bad |-> FALSE,
           options |-> IF known THEN Append(done.options, option) ELSE done.options]

\* A round of parse_options: one option from an offset on.  One of a type that is
\* not known keeps its place, so that the indices of the entries hold.
NextOption(bytes, done) ==
  LET o == done.at
      total == At(bytes, o, 2) + 3
      known == bytes[o + 3] \in OptionTypes
      option == [type |-> bytes[o + 3], address |-> At(bytes, o + 4, 4),
                 protocol |-> bytes[o + 10], port |-> At(bytes, o + 10, 2)]
  IN IF done.bad \/ o = Len(bytes) THEN done
     ELSE IF \/ Len(bytes) - o < 4 \/ total < 4 \/ Len(bytes) - o < total
             \/ known /\ total # OptionLength + 3
     THEN [done EXCEPT !.bad = TRUE]
     ELSE [at |-> o + total, bad |-> FALSE,
           options |-> Append(done.options, IF known THEN option ELSE NoOption)]

\* parse_options, with more rounds than there can be options.
ParseOptions(bytes) ==
  LET after[k \in 0..Len(bytes)] ==
        IF k = 0 THEN [at |-> 0, bad |-> FALSE, options |-> <<>>]
        ELSE NextOption(bytes, after[k - 1])
      last == after[Len(bytes)]
  IN IF last.bad THEN <<>> ELSE <<last.options>>

\* parse_entry: <<>> for an entry that is skipped.
ParseEntry(bytes, options) ==
  LET count == bytes[4] \div Nibble
      index == bytes[2]
  IN IF bytes[1] \notin EntryTypes \/ (count > 0 /\ index + count > Len(options)) THEN <<>>
     ELSE <<[type |-> bytes[1], service |-> At(bytes, 4, 2), instance |-> At(bytes, 6, 2),
             major |-> bytes[9], ttl |-> At(bytes, 9, 3),
             minor |-> IF IsServiceEntry(bytes[1]) THEN At(bytes, 12, 4) ELSE 0,
             eventgroup |-> IF IsServiceEntry(bytes[1]) THEN 0 ELSE At(bytes, 14, 2),
             options |-> SubSeq(options, index + 1, index + count)]>>

ParsePayload(bytes) ==
  LET entriesLength == At(bytes, 4, 4)
      optionsAt == 8 + entriesLength
      options == ParseOptions(SubSeq(bytes, optionsAt + 5, Len(bytes)))
  IN IF /\ Len(bytes) >= 12 /\ entriesLength % 16 = 0
        /\ Len(bytes) >= optionsAt + 4
        /\ Len(bytes) = optionsAt + 4 + At(bytes, optionsAt, 4)
        /\ options # <<>>
     THEN <<[reboot |-> bytes[1] \div (Base \div 2) = 1,
             unicast |-> (bytes[1] \div (Base \div 4)) % 2 = 1,
             entries |-> FlattenSeq([n \in 1..(entriesLength \div 16) |->
               ParseEntry(SubSeq(bytes, 8 + 16 * (n - 1) + 1, 8 + 16 * n), options[1])])]>>
     ELSE <<>>

IsSd(message) == message.service = Weight[2] - 1 /\ message.method = (Base \div 2 + 1) * Base

SdReceive(bytes) ==
  LET message == Deserialize(bytes)
  IN IF message = <<>> \/ ~IsSd(message[1]) THEN <<>>
     ELSE LET parsed == ParsePayload(message[1].payload)
          IN IF parsed = <<>> THEN <<>>
             ELSE <<[session |-> message[1].session, reboot |-> parsed[1].reboot,
                     unicast |-> parsed[1].unicast, entries |-> parsed[1].entries]>>

-----------------------------------------------------------------------------
\* What is sent in the three formats, within the types of its fields.
Frame == [id : Numbers(4), extended : BOOLEAN, fd : BOOLEAN, brs : BOOLEAN, data : Seq(Byte)]
Packet == [sequence : Numbers(4), timestamp : Numbers(4), frames : Seq(Frame)]

Call == [service : Numbers(2), method : Numbers(2), client : Numbers(2), session : Numbers(2),
         version : Byte, type : MessageTypes, code : Byte, payload : Seq(Byte)]

Option == [type : OptionTypes, address : 0..NoAddress, protocol : Byte,
           port : Numbers(2)]
ServiceEntry == [type : {0, 1}, service : Numbers(2), instance : Numbers(2), major : Byte,
                 ttl : Numbers(3), minor : Numbers(4), eventgroup : {0}, options : Seq(Option)]
GroupEntry == [type : {6, 7}, service : Numbers(2), instance : Numbers(2), major : Byte,
               ttl : Numbers(3), minor : {0}, eventgroup : Numbers(2), options : Seq(Option)]
Announcement == [session : Numbers(2), reboot : BOOLEAN, unicast : BOOLEAN,
                 entries : Seq(ServiceEntry \cup GroupEntry)]

\* Limits and counts fit into the bytes and nibbles they are written to, the masks
\* leave the top bit of an identifier free, and lengths fit into four bytes.
CodecsAssumption ==
  /\ Base \in Nat /\ Base % 4 = 0 /\ Base > Multicast
  /\ Nibble \in Nat /\ Nibble * Nibble = Base
  /\ {StandardIds, ExtendedIds} \subseteq Nat \ {0}
  /\ StandardIds <= ExtendedBit /\ ExtendedIds <= ExtendedBit /\ ExtendedBit % ExtendedIds = 0
  /\ MaxPayload \in Byte /\ MaxFrames \in Byte
  /\ EntryOptions \in 0..(Nibble - 1) /\ MaxOptions \in Nat
  /\ Magic \in Numbers(4)
  /\ Packets \subseteq Packet
  /\ ServiceCalls \subseteq Call
  /\ \A call \in ServiceCalls : 8 + Len(call.payload) < Weight[4]
  /\ Announcements \subseteq Announcement
  /\ \A announcement \in Announcements :
       20 + 16 * Len(announcement.entries) + 12 * MaxOptions < Weight[4]

-----------------------------------------------------------------------------
\* A datagram on its way: encoded or refused, perhaps damaged, decoded.
Sendable == [tunnel |-> Packets, someip |-> ServiceCalls, sd |-> Announcements]

Encode ==
  /\ stage = "given"
  /\ LET datagram == CASE format = "tunnel" -> TunnelEncode(given)
                       [] format = "someip" -> Serialize(given)
                       [] format = "sd"     -> SdSerialize(given)
     IN IF datagram = <<>> THEN stage' = "refused" /\ UNCHANGED wire
        ELSE stage' = "sent" /\ wire' = datagram[1]
  /\ UNCHANGED <<format, given, damage, got>>

\* The payload of an announcement starts at byte 17, its entries at byte 25.
Damage ==
  /\ stage = "sent" /\ damage = "none"
  /\ \/ \E n \in 0..(Len(wire) - 1) : damage' = "cut" /\ wire' = SubSeq(wire, 1, n)
     \/ damage' = "longer" /\ wire' = Append(wire, 0)
     \/ /\ format = "sd" /\ given.entries # <<>>
        /\ damage' = "newer entry" /\ wire' = [wire EXCEPT ![25] = 2]
     \/ /\ format = "sd" /\ OptionsOf(given.entries) # <<>>
        /\ damage' = "newer option"
        /\ wire' = [wire EXCEPT ![28 + 16 * Len(given.entries) + 3] = 2]
  /\ UNCHANGED <<format, given, got, stage>>

Decode ==
  /\ stage = "sent" /\ stage' = "decoded"
  /\ got' = CASE format = "tunnel" -> TunnelDecode(wire)
              [] format = "someip" -> Deserialize(wire)
              [] format = "sd"     -> SdReceive(wire)
  /\ UNCHANGED <<format, given, wire, damage>>

CodecsInit ==
  /\ format \in DOMAIN Sendable /\ given \in Sendable[format]
  /\ wire = <<>> /\ damage = "none" /\ got = <<>> /\ stage = "given"

CodecsNext == Encode \/ Damage \/ Decode
CodecsSpec == CodecsInit /\ [][CodecsNext]_codecVars

-----------------------------------------------------------------------------
\* What an encoder accepted is what the decoder of the same format gives
\* back, every field of it (tunnel.cpp, someip.cpp, sd.cpp).
ArrivesWhole == stage = "decoded" /\ damage = "none" => got = <<given>>

\* "Exact, not 'at least'" (tunnel.cpp:134-137, someip.cpp:105): a datagram
\* that lost or gained bytes is refused.  An announcement with an entry or an
\* option of a newer standard is read without it, and every other entry keeps
\* the endpoints that are its own (sd.cpp:163-205).
DamageIsContained ==
  stage = "decoded" =>
    CASE damage \in {"cut", "longer"} -> got = <<>>
      [] damage = "newer entry"  -> got = <<[given EXCEPT !.entries = Tail(@)]>>
      [] damage = "newer option" ->
           LET first == CHOOSE n \in DOMAIN given.entries :
                          /\ given.entries[n].options # <<>>
                          /\ \A m \in 1..(n - 1) : given.entries[m].options = <<>>
           IN got = <<[given EXCEPT !.entries[first].options[1] = NoOption]>>
      [] OTHER -> TRUE
=============================================================================
