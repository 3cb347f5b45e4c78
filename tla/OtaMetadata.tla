----------------------------- MODULE OtaMetadata -----------------------------
(* The zip of an OTA package and the property-files strings it carries      *)
(* (tools/releasetools/ota_utils.py).  A string gives the offset and the    *)
(* size of entries of the very zip whose metadata entries hold it, so the   *)
(* string decides the layout it describes.  The code breaks the circle by   *)
(* reserving room, signing once, filling the reserved room in, padding to   *)
(* the reserved length, and signing again.                                  *)
(*                                                                          *)
(* A zip is a sequence of entries: name, size of the data, and size of the  *)
(* extra field of the local header.  A string is a sequence of tokens and   *)
(* its length, with the blanks after them; only lengths matter to the       *)
(* layout.                                                                  *)
EXTENDS Integers, Sequences, SequencesExt, TLC

METADATA_NAME == "META-INF/com/android/metadata"
METADATA_PROTO_NAME == "META-INF/com/android/metadata.pb"

MetadataEntries == {METADATA_NAME, METADATA_PROTO_NAME}
EntryNames == {"payload", "payload_properties", "apex_info", "care_map", "secondary_payload",
               "secondary_payload_properties", "updater_script", "new_dat"} \union MetadataEntries

NameLength ==
  [payload |-> 11, payload_properties |-> 22, apex_info |-> 12, care_map |-> 11,
   secondary_payload |-> 21, secondary_payload_properties |-> 32, payload_metadata |-> 20,
   updater_script |-> 44, new_dat |-> 18]
  @@ (METADATA_NAME :> 29) @@ (METADATA_PROTO_NAME :> 32)

(* The elements of s that are in S, in their order. *)
Among(s, S) ==
  LET kept[n \in 0..Len(s)] ==
        IF n = 0 THEN <<>> ELSE IF s[n] \in S THEN Append(kept[n - 1], s[n]) ELSE kept[n - 1]
  IN  kept[Len(s)]

(* The base name of an entry, which is what its token starts with. *)
BaseLength(name) ==
  CASE name = METADATA_NAME -> 8 [] name = METADATA_PROTO_NAME -> 11 [] OTHER -> NameLength[name]

Entry(name, size) == [name |-> name, size |-> size, extra |-> 0]

Names(zip) == {zip[i].name : i \in DOMAIN zip}
At(zip, name) == CHOOSE i \in DOMAIN zip : zip[i].name = name

FileHeader == 30

(* Bytes in front of the data of entry `i`: the entries before it and its   *)
(* own local header, whose extra field may differ from the directory's.     *)
GetZipEntryOffset(zip, i) ==
  LET Span(e) == FileHeader + NameLength[e.name] + e.extra
  IN  FoldLeft(LAMBDA n, e : n + Span(e) + e.size, 0, SubSeq(zip, 1, i - 1)) + Span(zip[i])

(***************************************************************************)
(* Tokens and their length in characters.                                  *)
(***************************************************************************)
Digits(n) == CHOOSE d \in 1..10 : n < 10^d /\ (d = 1 \/ n >= 10^(d - 1))

Placeholder(name) == [name |-> name, offset |-> -1, size |-> -1]

ReservedForMetadata == 15

TokenLength(t) ==
  BaseLength(t.name) + 1
  + IF t.offset = -1 THEN ReservedForMetadata ELSE Digits(t.offset) + 1 + Digits(t.size)

Length(tokens) ==
  SumFunction([i \in DOMAIN tokens |-> TokenLength(tokens[i])]) + Len(tokens) - 1

ComputeEntryOffsetSize(zip, name) ==
  LET i == At(zip, name)
  IN  [name |-> name, offset |-> GetZipEntryOffset(zip, i), size |-> zip[i].size]

(* `payload_metadata.bin` is the head of the payload, not an entry. *)
GetPayloadMetadata(zip, head) ==
  [name |-> "payload_metadata", offset |-> GetZipEntryOffset(zip, At(zip, "payload")), size |-> head]

(* The kinds of property files: what precedes the entries, which entries    *)
(* must be there and which are listed when they are.                        *)
Streaming == [name |-> "ota-streaming-property-files", precomputed |-> FALSE,
              required |-> <<"payload", "payload_properties">>, optional |-> <<"apex_info", "care_map">>]
AbOtaPropertyFiles == [Streaming EXCEPT !.name = "ota-property-files", !.precomputed = TRUE]
NonAbOtaPropertyFiles == [name |-> "ota-property-files", precomputed |-> FALSE, required |-> <<>>, optional |-> <<>>]

GetPropertyFilesString(kind, zip, head, reserve_space) ==
  LET Compute(name) == ComputeEntryOffsetSize(zip, name)
      pre   == IF kind.precomputed THEN <<GetPayloadMetadata(zip, head)>> ELSE <<>>
      files == kind.required \o Among(kind.optional, Names(zip))
      meta  == IF reserve_space THEN <<Placeholder(METADATA_NAME), Placeholder(METADATA_PROTO_NAME)>>
               ELSE <<Compute(METADATA_NAME)>>
                    \o IF METADATA_PROTO_NAME \in Names(zip) THEN <<Compute(METADATA_PROTO_NAME)>> ELSE <<>>
      all   == pre \o [i \in DOMAIN files |-> Compute(files[i])] \o meta
  IN  [tokens |-> all, length |-> Length(all)]

InsufficientSpace == [tokens |-> <<>>, length |-> -1]

FinalizeWithoutPadding(kind, zip, head, reserved_length) ==
  LET s == GetPropertyFilesString(kind, zip, head, FALSE)
  IN  IF s.length > reserved_length THEN InsufficientSpace ELSE s

(* Padded to the reserved length, or the exception. *)
FinalizeString(kind, zip, head, reserved_length) ==
  LET s == GetPropertyFilesString(kind, zip, head, FALSE)
  IN  IF s.length > reserved_length THEN InsufficientSpace ELSE [s EXCEPT !.length = reserved_length]

(***************************************************************************)
(* What is done to the zip.                                                *)
(***************************************************************************)
ZipDelete(zip, names) == Among(zip, {e \in ToSet(zip) : e.name \notin names})

(* Both entries hold every property-files string.  `base` is what else they *)
(* hold, the same on every call.                                            *)
WriteMetadata(zip, strings, base) ==
  LET size == base + SumFunction([i \in DOMAIN strings |-> strings[i].length])
  IN  zip \o <<Entry(METADATA_PROTO_NAME, size), Entry(METADATA_NAME, size)>>

(* The signer sorts the entries by its own order and rewrites every extra   *)
(* field: six bytes, and four more for the first entry of a jar.            *)
SignOutput(zip, order) ==
  LET kept == Among(order, Names(zip))
  IN  [i \in DOMAIN kept |->
         [zip[At(zip, kept[i])] EXCEPT !.extra = IF i = 1 THEN 10 ELSE 6]]

Describes(strings, kinds, zip, head) ==
  \A i \in DOMAIN kinds : strings[i].tokens = GetPropertyFilesString(kinds[i], zip, head, FALSE).tokens
=============================================================================
