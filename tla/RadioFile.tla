------------------------------- MODULE RadioFile -------------------------------
(***************************************************************************)
(* Files of fixed-size records: TilepackEncoder of                         *)
(* FSW-Payload/src/communication/tilepack.cpp, which cuts an image into    *)
(* tiles and their JPEG bytes into fragments, the conversion of a JSON     *)
(* file, and WriteFixedPacketFile and ReadFixedPacketFile of               *)
(* src/core/data_handling.cpp, between which a file can lose its end.      *)
(*                                                                         *)
(* A payload is a piece of a tile, or of the text (tile 0): where it       *)
(* begins and how many bytes it has.  A file is the payloads of its        *)
(* records and the number of bytes that are on the disk.                   *)
(***************************************************************************)
EXTENDS Integers, Sequences, SequencesExt

CONSTANTS Images,   \* an image is the sizes of its tiles as JPEG
          Texts,    \* a JSON file: its size, with or without a byte order mark
          DH_FILE_HEADER_SIZE, DH_PACKET_HEADER_SIZE, DH_MAX_PAYLOAD_SIZE,
          PACKET_HEADER_SIZE, MAX_PAYLOAD_PER_PACKET,
          FragRange,\* 2^8: frag_idx is a uint8_t
          DiskFull  \* whether writes may end early

BOM == 3
DH_FIXED_PACKET_SIZE == DH_PACKET_HEADER_SIZE + DH_MAX_PAYLOAD_SIZE

\* A magic number that was cut is shorter than the header of a fragment, and the tiles
\* of an image have no more fragments than frag_idx can number.
RadioFileAssumption ==
  /\ {DH_FILE_HEADER_SIZE, DH_PACKET_HEADER_SIZE, DH_MAX_PAYLOAD_SIZE, PACKET_HEADER_SIZE,
      MAX_PAYLOAD_PER_PACKET, FragRange} \subseteq Nat \ {0}
  /\ PACKET_HEADER_SIZE + MAX_PAYLOAD_PER_PACKET = DH_MAX_PAYLOAD_SIZE
  /\ DH_FILE_HEADER_SIZE <= PACKET_HEADER_SIZE
  /\ Images \subseteq Seq(1..FragRange * MAX_PAYLOAD_PER_PACKET)
  /\ Texts \subseteq {t \in [size : Nat, bom : BOOLEAN] : t.bom => t.size >= BOM}
  /\ DiskFull \in BOOLEAN

VARIABLES encoder,  \* a TilepackEncoder: its image, tiles_ and packets_
          loaded,   \* what its load_image has returned
          bin,      \* a packet file, with what it was written for
          out       \* what a reader has made of it as it is now

vars == <<encoder, loaded, bin, out>>

None == <<>>
NoText == [size |-> 0, bom |-> FALSE]
Unread == [ok |-> FALSE, payloads |-> None]

Init ==
  /\ encoder = [image |-> None, tiles_ |-> None, packets_ |-> None]
  /\ loaded = FALSE
  /\ bin = [image |-> None, text |-> NoText, size |-> -1, payloads |-> None]
  /\ out = Unread

Least(a, b) == IF a <= b THEN a ELSE b
Length(p) == p.header + p.size

-----------------------------------------------------------------------------
(* Encoding *)

Pieces_Whole(n, max) ==
  [k \in 1..(n + max - 1) \div max |-> [first |-> (k - 1) * max, size |-> max]]

\* The pieces of n bytes, of at most max bytes each.
Pieces(n, max) ==
  [k \in 1..(n + max - 1) \div max |->
     [first |-> (k - 1) * max, size |-> Least(max, n - (k - 1) * max)]]

packetize_tile(tile, n) ==
  LET pieces == Pieces(n, MAX_PAYLOAD_PER_PACKET) IN
  [k \in DOMAIN pieces |->
     [tile |-> tile, frag |-> (k - 1) % FragRange, header |-> PACKET_HEADER_SIZE,
      first |-> pieces[k].first, size |-> pieces[k].size]]

packetize_tiles(tiles) == FlattenSeq([t \in DOMAIN tiles |-> packetize_tile(t, tiles[t])])

\* The image cannot be read: nothing changes.
ImageUnread ==
  /\ loaded' = FALSE
  /\ UNCHANGED <<encoder, bin, out>>

\* A tile cannot be compressed: the tiles are those before it, the packets still those of
\* the image before.
TileFails(image) ==
  /\ \E n \in 0..Len(image) - 1 : encoder' = [encoder EXCEPT !.tiles_ = SubSeq(image, 1, n)]
  /\ loaded' = FALSE
  /\ UNCHANGED <<bin, out>>

load_image(image) ==
  /\ encoder' = [image |-> image, tiles_ |-> image, packets_ |-> packetize_tiles(image)]
  /\ loaded' = TRUE
  /\ UNCHANGED <<bin, out>>

-----------------------------------------------------------------------------
(* Writing *)

\* The bytes of a file of n records.
FileSize(n) == DH_FILE_HEADER_SIZE + n * DH_FIXED_PACKET_SIZE

\* Writing stops at a payload that is too large; a stream that fails is not noticed.
WriteFixedPacketFile(image, text, payloads) ==
  LET large == SelectInSeq(payloads, LAMBDA p : Length(p) > DH_MAX_PAYLOAD_SIZE)
      kept == IF large = 0 THEN payloads ELSE SubSeq(payloads, 1, large - 1)
  IN \E size \in 0..FileSize(Len(kept)) :
       /\ size = FileSize(Len(kept)) \/ DiskFull
       /\ bin' = [image |-> image, text |-> text, size |-> size, payloads |-> kept]
       /\ out' = Unread

\* request_image writes a file only for an image that has been loaded.
write_radio_file ==
  /\ loaded
  /\ WriteFixedPacketFile(encoder.image, NoText, encoder.packets_)
  /\ UNCHANGED <<encoder, loaded>>

\* An empty file is refused; one that is empty without its mark is not.
PacketizeJsonFile(text) ==
  LET n == IF text.bom THEN text.size - BOM ELSE text.size
      pieces == Pieces(n, DH_MAX_PAYLOAD_SIZE)
      payloads == [k \in DOMAIN pieces |->
                     [tile |-> 0, frag |-> 0, header |-> 0,
                      first |-> pieces[k].first, size |-> pieces[k].size]]
  IN /\ text.size > 0
     /\ WriteFixedPacketFile(None, text, payloads)
     /\ UNCHANGED <<encoder, loaded>>

\* The power fails before the end of the file has reached the disk.
PowerFails ==
  /\ DiskFull
  /\ \E size \in 0..bin.size : bin' = [bin EXCEPT !.size = size]
  /\ encoder' = [image |-> None, tiles_ |-> None, packets_ |-> None]
  /\ loaded' = FALSE
  /\ out' = Unread

-----------------------------------------------------------------------------
(* Reading *)

\* What a file without the whole magic number is read as: the bytes it has of it.
Magic(n) == [tile |-> -1, frag |-> 0, header |-> 0, first |-> 0, size |-> n]

\* The payloads of a file, and whether all it has of records can be read.
ReadFixedPacketFile(file) ==
  LET bytes == file.size - DH_FILE_HEADER_SIZE
      whole == bytes \div DH_FIXED_PACKET_SIZE
      rest == bytes % DH_FIXED_PACKET_SIZE
      Valid(k) == Length(file.payloads[k]) \in 1..DH_MAX_PAYLOAD_SIZE
      Fits(k) == Length(file.payloads[k]) <= rest - DH_PACKET_HEADER_SIZE
  IN IF file.size < DH_FILE_HEADER_SIZE
     THEN [ok |-> file.size >= 0,
           payloads |-> IF file.size > 0 THEN <<Magic(file.size)>> ELSE <<>>]
     ELSE [ok |-> /\ \A k \in 1..whole : Valid(k)
                  /\ rest > 0 =>
                       rest >= DH_PACKET_HEADER_SIZE /\ Valid(whole + 1) /\ Fits(whole + 1),
           payloads |-> SubSeq(file.payloads, 1, IF rest > 0 THEN whole + 1 ELSE whole)]

\* A payload needs a header, which has to agree with the payload's length.
ReadPacketsFromDataHandlerFile ==
  LET read == ReadFixedPacketFile(bin)
      Sound(p) == Length(p) >= PACKET_HEADER_SIZE /\ PACKET_HEADER_SIZE + p.size <= Length(p)
  IN /\ bin.image # None
     /\ out' = [ok |-> read.ok /\ \A k \in DOMAIN read.payloads : Sound(read.payloads[k]),
                payloads |-> read.payloads]
     /\ UNCHANGED <<encoder, loaded, bin>>

DepacketizeJsonFile ==
  LET read == ReadFixedPacketFile(bin) IN
  /\ bin.text # NoText
  /\ out' = [ok |-> read.ok /\ read.payloads # <<>>, payloads |-> read.payloads]
  /\ UNCHANGED <<encoder, loaded, bin>>

Next ==
  \/ ImageUnread
  \/ \E image \in Images : TileFails(image) \/ load_image(image)
  \/ write_radio_file
  \/ \E text \in Texts : PacketizeJsonFile(text)
  \/ PowerFails
  \/ ReadPacketsFromDataHandlerFile \/ DepacketizeJsonFile

Spec == Init /\ [][Next]_vars

-----------------------------------------------------------------------------
Payloads ==
  Seq([tile : Int, frag : 0..FragRange - 1, header : {0, PACKET_HEADER_SIZE},
       first : Nat, size : Nat])

\* Every variable has its type.
TypeOK ==
  /\ encoder.image \in Images \cup {None}
  /\ encoder.tiles_ \in Seq(Nat)
  /\ encoder.packets_ \in Payloads
  /\ loaded \in BOOLEAN
  /\ bin \in [image : Images \cup {None}, text : Texts \cup {NoText}, size : Nat \cup {-1},
             payloads : Payloads]
  /\ out \in [ok : BOOLEAN, payloads : Payloads]

\* The bytes, each as its tile and place, of payloads and of what a file was written for.
Bytes(payloads) ==
  FlattenSeq([k \in DOMAIN payloads |->
                [b \in 1..payloads[k].size |-> <<payloads[k].tile, payloads[k].first + b>>]])
Original ==
  IF bin.image # None
  THEN FlattenSeq([t \in DOMAIN bin.image |-> [b \in 1..bin.image[t] |-> <<t, b>>]])
  ELSE [b \in 1..(IF bin.text.bom THEN bin.text.size - BOM ELSE bin.text.size) |-> <<0, b>>]

\* Whatever end a packet file has lost, what is read back without an error is the beginning
\* of the image or text, byte for byte, and all of it if nothing was lost; every fragment
\* tells its place in the tile (packetize_tile, WriteFixedPacketFile, ReadFixedPacketFile,
\* PacketizeJsonFile).  A text with a part of the magic number is read as that part.
ReadBackIsOriginal ==
  out.ok /\ (bin.text = NoText \/ bin.size >= DH_FILE_HEADER_SIZE) =>
    /\ IsPrefix(Bytes(out.payloads), Original)
    /\ bin.size = FileSize(Len(bin.payloads)) => Bytes(out.payloads) = Original
    /\ \A k \in DOMAIN out.payloads :
         out.payloads[k].tile > 0 =>
           out.payloads[k].first = out.payloads[k].frag * MAX_PAYLOAD_PER_PACKET
=============================================================================
