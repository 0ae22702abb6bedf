----------------------------- MODULE FrameReader -----------------------------
(***************************************************************************)
(* The msgpack reader of the notification extensions (MsgpackReader and    *)
(* parsePlaintext() of MlsNseDecryptor.swift and MlsAndroidDecryptor.kt),  *)
(* byte by byte, on what the app encodes (chat/crypto-pipe.ts buildFrame() *)
(* with @msgpack/msgpack) and on anything that is cut short.               *)
(*                                                                         *)
(* A key is one letter. A payload byte has the value of a one-letter       *)
(* string's tag, so that a reader that is off by one reads on.             *)
(***************************************************************************)
EXTENDS Naturals, Sequences, SequencesExt

CONSTANTS
  Few,      \* the values of the maps of two entries
  Singles   \* the values of the maps of one

VARIABLES
  entries,   \* the map that was encoded: a sequence of [key, value]
  bytes,     \* what the extension got
  whole,     \* it is all of the encoding
  pos,       \* offset: the next byte is bytes[pos + 1]
  remaining, \* entries still to read
  found,     \* text and sender as far as they were read; none is <<>>
  stage      \* header, key, text, sender, other; done and failed are final

frameVars == <<entries, bytes, whole, pos, remaining, found, stage>>

-----------------------------------------------------------------------------
\* What an encoder writes

Filler == 161                        \* the tag of a one-letter string
Letter == [text |-> 116, sender |-> 115, other |-> 111]
Fill(n) == [k \in 1 .. n |-> Filler]

\* One value of every layout, and what a string holds.
EncodeString(n, wide) ==
  (CASE wide = 0 -> <<160 + n>> [] wide = 1 -> <<217, n>> [] wide = 2 -> <<218, 0, n>>
     [] wide = 4 -> <<219, 0, 0, 0, n>>) \o Fill(n)

Encode(v) ==
  CASE v.kind = "str"   -> EncodeString(v.size, v.wide)
    [] v.kind = "bin"   -> (CASE v.wide = 1 -> <<196, v.size>> [] v.wide = 2 -> <<197, 0, v.size>>
                              [] v.wide = 4 -> <<198, 0, 0, 0, v.size>>) \o Fill(v.size)
    [] v.kind = "int"   -> (CASE v.wide = 0 -> <<v.size>> [] v.wide = 1 -> <<204>>
                              [] v.wide = 2 -> <<205>> [] v.wide = 4 -> <<206>>
                              [] v.wide = 8 -> <<207>>) \o Fill(v.wide)
    [] v.kind = "neg"   -> (CASE v.wide = 0 -> <<255>> [] v.wide = 1 -> <<208>>
                              [] v.wide = 2 -> <<209>> [] v.wide = 4 -> <<210>>
                              [] v.wide = 8 -> <<211>>) \o Fill(v.wide)
    [] v.kind = "float" -> (IF v.wide = 4 THEN <<202>> ELSE <<203>>) \o Fill(v.wide)
    [] v.kind = "const" -> <<v.size>>
    [] v.kind = "array" -> <<145, v.size>>

EncodeHeader(n, wide) ==
  CASE wide = 0 -> <<128 + n>> [] wide = 2 -> <<222, 0, n>> [] wide = 4 -> <<223, 0, 0, 0, n>>

EncodeEntry(e) == <<161, Letter[e.key]>> \o Encode(e.value)
Encoded(es, wide) ==
  EncodeHeader(Len(es), wide) \o FoldRight(LAMBDA e, rest : EncodeEntry(e) \o rest, es, <<>>)

Entry(values) == [key : {"text", "sender", "other"}, value : values]

\* A map, and the beginning of its encoding that has come.
SomeFrame ==
  \E wide \in {0, 2, 4}, n \in 0 .. 2 :
    /\ entries \in [1 .. n -> Entry(IF n = 1 THEN Singles ELSE Few)]
    /\ n = 2 => wide = 0 /\ entries[1].key # entries[2].key
    /\ LET all == Encoded(entries, wide)
       IN \E cut \in 0 .. Len(all) : bytes = SubSeq(all, 1, cut) /\ whole = (cut = Len(all))

AtStart ==
  /\ pos = 0 /\ remaining = 0 /\ stage = "header"
  /\ found = [text |-> <<>>, sender |-> <<>>]

FrameReaderInit == SomeFrame /\ AtStart

-----------------------------------------------------------------------------
\* The reader

Byte(n) == bytes[pos + n]
There(n) == pos + n <= Len(bytes)
Stay == UNCHANGED <<entries, bytes, whole>>

Refuse == stage' = "failed" /\ UNCHANGED <<pos, remaining, found>> /\ Stay
Next1(n) == IF n = 0 THEN "done" ELSE "key"

\* Big-endian, of the n bytes that follow the tag.
Number(n) == FoldLeft(LAMBDA sum, k : 256 * sum + Byte(1 + k), 0, [k \in 1 .. n |-> k])

\* Length bytes that follow a tag of a string, of a map, and of a value to be skipped.
StringWidth(tag) ==
  CASE tag \in 160 .. 191 -> 0 [] tag = 217 -> 1 [] tag = 218 -> 2 [] tag = 219 -> 4
    [] OTHER -> 9
MapWidth(tag) == CASE tag \in 128 .. 143 -> 0 [] tag = 222 -> 2 [] tag = 223 -> 4 [] OTHER -> 9
SkipWidth(tag) ==
  IF StringWidth(tag) # 9 THEN StringWidth(tag)
  ELSE CASE tag = 196 -> 1 [] tag = 197 -> 2 [] tag = 198 -> 4 [] OTHER -> 0

\* Bytes of a value whose tag tells its size; 99 for what is not supported.
FixedSize(tag) ==
  CASE tag \in 0 .. 127 \cup 224 .. 255 \cup {192, 194, 195} -> 0
    [] tag \in 160 .. 191           -> tag - 160
    [] tag \in {204, 208}           -> 1
    [] tag \in {205, 209}           -> 2
    [] tag \in {206, 210, 202}      -> 4
    [] tag \in {207, 211, 203}      -> 8
    [] OTHER                        -> 99

Size(tag, width) == IF width > 0 THEN Number(width) ELSE FixedSize(tag)

ReadMapHeader ==
  /\ stage = "header"
  /\ IF There(1) /\ MapWidth(Byte(1)) # 9 /\ There(1 + MapWidth(Byte(1)))
     THEN LET wide  == MapWidth(Byte(1))
              count == IF wide = 0 THEN Byte(1) - 128 ELSE Number(wide)
          IN  /\ pos' = pos + 1 + wide /\ remaining' = count /\ stage' = Next1(count)
              /\ UNCHANGED found /\ Stay
     ELSE Refuse

\* readString(): where the string ends, and its bytes; 0 if there is none.
StringEnd ==
  IF There(1) /\ StringWidth(Byte(1)) # 9 /\ There(1 + StringWidth(Byte(1)))
  THEN LET wide == StringWidth(Byte(1))
           end  == 1 + wide + Size(Byte(1), wide)
       IN  IF There(end) THEN end ELSE 0
  ELSE 0
StringBytes == SubSeq(bytes, pos + 2 + StringWidth(Byte(1)), pos + StringEnd)

TakeKey ==
  /\ stage = "key"
  /\ IF StringEnd = 0 THEN Refuse
     ELSE /\ pos' = pos + StringEnd
          /\ stage' = CASE StringBytes = <<Letter["text"]>> -> "text"
                        [] StringBytes = <<Letter["sender"]>> -> "sender"
                        [] OTHER -> "other"
          /\ UNCHANGED <<remaining, found>> /\ Stay

ReadField(key) ==
  /\ stage = key
  /\ IF StringEnd = 0 THEN Refuse
     ELSE /\ pos' = pos + StringEnd /\ remaining' = remaining - 1 /\ stage' = Next1(remaining')
          /\ found' = [found EXCEPT ![key] = <<StringBytes>>] /\ Stay

\* skipValue(): where the value ends, 0 if it cannot be told or is cut short.
SkipEndFlat(tag) ==                   \* a mutant: length bytes are taken for a value's own
  IF There(1 + SkipWidth(tag)) THEN 1 + SkipWidth(tag) ELSE 0
SkipEnd(tag) ==
  IF There(1 + SkipWidth(tag)) /\ There(1 + SkipWidth(tag) + Size(tag, SkipWidth(tag)))
  THEN 1 + SkipWidth(tag) + Size(tag, SkipWidth(tag)) ELSE 0

SkipValue ==
  /\ stage = "other"
  /\ IF There(1) /\ SkipEnd(Byte(1)) # 0
     THEN /\ pos' = pos + SkipEnd(Byte(1))
          /\ remaining' = remaining - 1 /\ stage' = Next1(remaining') /\ UNCHANGED found /\ Stay
     ELSE Refuse

FrameReaderNext ==
  ReadMapHeader \/ TakeKey \/ ReadField("text") \/ ReadField("sender") \/ SkipValue

FrameReaderSpec == FrameReaderInit /\ [][FrameReaderNext]_frameVars

-----------------------------------------------------------------------------
\* Properties

FrameReaderTypeOK ==
  /\ pos \in 0 .. Len(bytes) /\ remaining \in 0 .. 2
  /\ stage \in {"header", "key", "text", "sender", "other", "done", "failed"}

ValueOf(key) == {entries[k].value : k \in {j \in DOMAIN entries : entries[j].key = key}}
Readable(key) == \A v \in ValueOf(key) : v.kind = "str"
Skippable == \A v \in ValueOf("other") : v.kind # "array"

\* The reader finds in a complete frame exactly the text and the sender that were
\* encoded, whatever other flat values stand before, between and after them, and in
\* whatever width; it fails on a frame that is cut short anywhere, on a text that is
\* no string, and on a nested value, and never reads on out of step (the comment at
\* MlsNseDecryptor.swift:239-241).
FramesAreReadRight ==
  /\ stage = "done" =>
       /\ whole /\ pos = Len(bytes)
       /\ \A key \in {"text", "sender"} : found[key] = IF ValueOf(key) = {} THEN <<>>
            ELSE <<Fill((CHOOSE v \in ValueOf(key) : TRUE).size)>>
  /\ stage = "failed" => ~whole \/ ~Readable("text") \/ ~Readable("sender") \/ ~Skippable

=============================================================================
