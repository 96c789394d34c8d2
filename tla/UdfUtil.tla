------------------------------ MODULE UdfUtil ------------------------------
(***************************************************************************)
(* A file identifier, byte by byte: fill_fid and fill_tag_checksum         *)
(* (API.cpp) with the routines of Util.h they use: UncompressUnicode, the  *)
(* table-driven CRC, the sum of the tag, and the byte orders of the ISO    *)
(* fields.  Integers are stored in the host's order, little-endian.        *)
(*                                                                         *)
(* A name is a sequence of bytes, as long as a dirent's may be.            *)
(***************************************************************************)
EXTENDS Integers, Sequences, Functions

CONSTANTS
  Names,       \* the names of the entries described
  Locations    \* block numbers, of 32 bits

Byte == 0 .. 255
MaxChar == 65535
Char == 0 .. MaxChar
Word32 == {v \in Nat : v \div 65536 \in Char}

ASSUME UtilAssumption ==
  /\ Names \subseteq Seq(Byte) /\ \A s \in Names : Len(s) \in 1 .. 255
  /\ Locations \subseteq Word32

VARIABLES
  name,          \* the entry's name, whether it is a directory, its block
  directory,
  lba,
  cur_spec_lba,  \* the identifier's own block
  step,
  at,            \* bytes the current loop has passed
  f_name_buf,    \* the characters UncompressUnicode has written
  str_buf,       \* the descriptor
  crc,
  tag            \* fi.tag

entryVars == <<name, directory, lba, cur_spec_lba>>
vars == <<entryVars, step, at, f_name_buf, str_buf, crc, tag>>

-----------------------------------------------------------------------------
(* Integers in memory, lowest byte first.                                  *)
ByteAt(value, weight) == (value \div weight) % 256
Host16(value) == <<ByteAt(value, 1), ByteAt(value, 256)>>
Host32(value) == <<ByteAt(value, 1), ByteAt(value, 256),
                   ByteAt(value, 65536), ByteAt(value, 16777216)>>
HostChars(chars) ==
  [i \in 1 .. 2 * Len(chars) |->
     IF i % 2 = 1 THEN chars[(i + 1) \div 2] % 256 ELSE chars[i \div 2] \div 256]
MediaChars(chars) ==
  [i \in 1 .. 2 * Len(chars) |->
     IF i % 2 = 1 THEN chars[(i + 1) \div 2] \div 256 ELSE chars[i \div 2] % 256]

Zeros(width) == [i \in 1 .. width |-> 0]

(* Fault: the bytes of each half are left in their order.                  *)
ChangeHalves32(val) == (val % 65536) * 65536 + (val \div 65536)

changeEndianness32(val) ==
  (val % 256) * 16777216 + ((val \div 256) % 256) * 65536
    + ((val \div 65536) % 256) * 256 + ((val \div 16777216) % 256)

changeEndianness16(val) == (val % 256) * 256 + ((val \div 256) % 256)

(* Exclusive or of unsigned shorts, the lowest bit outermost.              *)
Bit(value, weight) == (value \div weight) % 2
Xor(a, b) ==
  LET put(w, high) == ((Bit(a, w) + Bit(b, w)) % 2) + 2 * high
  IN  put(1, put(2, put(4, put(8, put(16, put(32, put(64, put(128,
      put(256, put(512, put(1024, put(2048, put(4096, put(8192,
      put(16384, put(32768, 0))))))))))))))))

-----------------------------------------------------------------------------
crc_table ==
  <<
    \h0000, \h1021, \h2042, \h3063, \h4084, \h50A5, \h60C6, \h70E7,
    \h8108, \h9129, \hA14A, \hB16B, \hC18C, \hD1AD, \hE1CE, \hF1EF,
    \h1231, \h0210, \h3273, \h2252, \h52B5, \h4294, \h72F7, \h62D6,
    \h9339, \h8318, \hB37B, \hA35A, \hD3BD, \hC39C, \hF3FF, \hE3DE,
    \h2462, \h3443, \h0420, \h1401, \h64E6, \h74C7, \h44A4, \h5485,
    \hA56A, \hB54B, \h8528, \h9509, \hE5EE, \hF5CF, \hC5AC, \hD58D,
    \h3653, \h2672, \h1611, \h0630, \h76D7, \h66F6, \h5695, \h46B4,
    \hB75B, \hA77A, \h9719, \h8738, \hF7DF, \hE7FE, \hD79D, \hC7BC,
    \h48C4, \h58E5, \h6886, \h78A7, \h0840, \h1861, \h2802, \h3823,
    \hC9CC, \hD9ED, \hE98E, \hF9AF, \h8948, \h9969, \hA90A, \hB92B,
    \h5AF5, \h4AD4, \h7AB7, \h6A96, \h1A71, \h0A50, \h3A33, \h2A12,
    \hDBFD, \hCBDC, \hFBBF, \hEB9E, \h9B79, \h8B58, \hBB3B, \hAB1A,
    \h6CA6, \h7C87, \h4CE4, \h5CC5, \h2C22, \h3C03, \h0C60, \h1C41,
    \hEDAE, \hFD8F, \hCDEC, \hDDCD, \hAD2A, \hBD0B, \h8D68, \h9D49,
    \h7E97, \h6EB6, \h5ED5, \h4EF4, \h3E13, \h2E32, \h1E51, \h0E70,
    \hFF9F, \hEFBE, \hDFDD, \hCFFC, \hBF1B, \hAF3A, \h9F59, \h8F78,
    \h9188, \h81A9, \hB1CA, \hA1EB, \hD10C, \hC12D, \hF14E, \hE16F,
    \h1080, \h00A1, \h30C2, \h20E3, \h5004, \h4025, \h7046, \h6067,
    \h83B9, \h9398, \hA3FB, \hB3DA, \hC33D, \hD31C, \hE37F, \hF35E,
    \h02B1, \h1290, \h22F3, \h32D2, \h4235, \h5214, \h6277, \h7256,
    \hB5EA, \hA5CB, \h95A8, \h8589, \hF56E, \hE54F, \hD52C, \hC50D,
    \h34E2, \h24C3, \h14A0, \h0481, \h7466, \h6447, \h5424, \h4405,
    \hA7DB, \hB7FA, \h8799, \h97B8, \hE75F, \hF77E, \hC71D, \hD73C,
    \h26D3, \h36F2, \h0691, \h16B0, \h6657, \h7676, \h4615, \h5634,
    \hD94C, \hC96D, \hF90E, \hE92F, \h99C8, \h89E9, \hB98A, \hA9AB,
    \h5844, \h4865, \h7806, \h6827, \h18C0, \h08E1, \h3882, \h28A3,
    \hCB7D, \hDB5C, \hEB3F, \hFB1E, \h8BF9, \h9BD8, \hABBB, \hBB9A,
    \h4A75, \h5A54, \h6A37, \h7A16, \h0AF1, \h1AD0, \h2AB3, \h3A92,
    \hFD2E, \hED0F, \hDD6C, \hCD4D, \hBDAA, \hAD8B, \h9DE8, \h8DC9,
    \h7C26, \h6C07, \h5C64, \h4C45, \h3CA2, \h2C83, \h1CE0, \h0CC1,
    \hEF1F, \hFF3E, \hCF5D, \hDF7C, \hAF9B, \hBFBA, \h8FD9, \h9FF8,
    \h6E17, \h7E36, \h4E55, \h5E74, \h2E93, \h3EB2, \h0ED1, \h1EF0
  >>

(* Fault: the low byte of the register selects the entry.                  *)
CksumLow(sum, byte) ==
  Xor(crc_table[Xor(sum % 256, byte) + 1], (sum * 256) % 65536)

(* One turn of cksum's loop.                                               *)
Cksum(sum, byte) ==
  Xor(crc_table[Xor(sum \div 256, byte) + 1], (sum * 256) % 65536)

(* Division by x^16 + x^12 + x^5 + 1: the next bit of the dividend, and the*)
(* next byte.                                                              *)
ShiftIn(rem, bit) ==
  IF (Bit(rem, 32768) + bit) % 2 = 1 THEN Xor((rem * 2) % 65536, \h1021)
                                     ELSE (rem * 2) % 65536

Divide(rem, byte) ==
  LET in(r, w) == ShiftIn(r, Bit(byte, w))
  IN  in(in(in(in(in(in(in(in(rem, 128), 64), 32), 16), 8), 4), 2), 1)

(* The constants of the table, whose comment names the polynomial: each is *)
(* the remainder of its index.                                             *)
ASSUME TableAssumption ==
  \A b \in Byte : crc_table[b + 1] = Divide(0, b)

-----------------------------------------------------------------------------
TagSize == 16
IdentifierSize == 40        \* sizeof(FileIdentifierDescriptor)

(* cksum_tag: all bytes but the sum's own.                                 *)
CksumTag(bytes) ==
  SumFunction([i \in (1 .. TagSize) \ {5} |-> bytes[i]]) % 256

FileStrLen == Len(name) * 2 + 1
StructSize == IdentifierSize - 1 + FileStrLen + (Len(name) % 2) * 2

TagBytes(t) ==
  <<1, 1, 2, 0, t.tag_checksum, 0, 0, 0>> \o Host16(t.desc_crc)
    \o Host16(t.desc_crc_len) \o Host32(t.tag_location)

(* The compression id 16 goes into impl_use and the high byte of the first *)
(* character into file_ident.                                              *)
FixedBytes ==
  <<1, 0, IF directory THEN 2 ELSE 0, FileStrLen % 256>>
    \o Host32(316) \o Host32(lba) \o Zeros(10) \o <<16, 0>>

Init ==
  /\ name \in Names /\ directory \in BOOLEAN
  /\ lba \in Locations /\ cur_spec_lba \in Locations
  /\ step = "uncompress" /\ at = 1
  /\ f_name_buf = <<>> /\ str_buf = <<>>
  /\ crc = 0
  /\ tag = [tag_checksum |-> 0, desc_crc |-> 0,
            desc_crc_len |-> StructSize - TagSize,
            tag_location |-> cur_spec_lba]

(* udf_comp: compression id 8, the name, a zero behind an odd one.         *)
UdfComp == <<8>> \o name \o (IF Len(name) % 2 = 0 THEN <<>> ELSE <<0>>)

(* A turn of UncompressUnicode's loop: one byte gives one character.       *)
Uncompress ==
  /\ step = "uncompress"
  /\ at < Len(UdfComp)
  /\ f_name_buf' = Append(f_name_buf, UdfComp[at + 1])
  /\ at' = at + 1
  /\ UNCHANGED <<entryVars, step, str_buf, crc, tag>>

(* Faults: the characters of the name alone are copied; they are copied in *)
(* the media's byte order.                                                 *)
FillStructUnpadded ==
  /\ step = "uncompress" /\ step' = "cksum"
  /\ at = Len(UdfComp) /\ at' = TagSize
  /\ str_buf' = Zeros(TagSize) \o FixedBytes
       \o HostChars(SubSeq(f_name_buf, 1, Len(name)))
  /\ UNCHANGED <<entryVars, f_name_buf, crc, tag>>

FillStructSwapped ==
  /\ step = "uncompress" /\ step' = "cksum"
  /\ at = Len(UdfComp) /\ at' = TagSize
  /\ str_buf' = Zeros(TagSize) \o FixedBytes
       \o MediaChars(f_name_buf)
  /\ UNCHANGED <<entryVars, f_name_buf, crc, tag>>

(* Two memcpys; the tag's place is still what malloc left (zeros here, they*)
(* are overwritten).                                                       *)
FillStruct ==
  /\ step = "uncompress" /\ step' = "cksum"
  /\ at = Len(UdfComp) /\ at' = TagSize
  /\ str_buf' = Zeros(TagSize) \o FixedBytes
       \o HostChars(f_name_buf)
  /\ UNCHANGED <<entryVars, f_name_buf, crc, tag>>

CksumByte ==
  /\ step = "cksum"
  /\ at < StructSize
  /\ crc' = Cksum(crc, str_buf[at + 1])
  /\ at' = at + 1
  /\ UNCHANGED <<entryVars, step, f_name_buf, str_buf, tag>>

(* Fault: the tag is summed before its CRC is stored.                      *)
FillTagSumFirst ==
  /\ step = "cksum" /\ step' = "tag"
  /\ at = StructSize
  /\ tag' = [tag EXCEPT !.desc_crc = crc,
                         !.tag_checksum = CksumTag(TagBytes(tag))]
  /\ UNCHANGED <<entryVars, at, f_name_buf, str_buf, crc>>

(* The end of fill_tag_checksum.                                           *)
FillTag ==
  /\ step = "cksum" /\ step' = "tag"
  /\ at = StructSize
  /\ LET summed == [tag EXCEPT !.desc_crc = crc, !.tag_checksum = 0]
     IN  tag' = [summed EXCEPT !.tag_checksum = CksumTag(TagBytes(summed))]
  /\ UNCHANGED <<entryVars, at, f_name_buf, str_buf, crc>>

WriteTag ==
  /\ step = "tag" /\ step' = "done"
  /\ str_buf' = TagBytes(tag) \o SubSeq(str_buf, TagSize + 1, Len(str_buf))
  /\ UNCHANGED <<entryVars, at, f_name_buf, crc, tag>>

Next ==
  \/ Uncompress
  \/ FillStruct
  \/ CksumByte
  \/ FillTag
  \/ WriteTag

Spec == Init /\ [][Next]_vars

-----------------------------------------------------------------------------
(* The descriptor has the size fill_fid adds up for it, in bytes.          *)
TypeOK ==
  /\ step \in {"uncompress", "cksum", "tag", "done"}
  /\ f_name_buf \in Seq(Char) /\ crc \in Char
  /\ at \in 1 .. StructSize
  /\ step # "uncompress" => str_buf \in Seq(Byte) /\ Len(str_buf) = StructSize

(* The remainder of the first n bytes, and of all of them.                 *)
RemainderTo(bytes, n) ==
  LET Rem[k \in 0 .. Len(bytes)] ==
        IF k = 0 THEN 0 ELSE [rem \in Char |-> Divide(rem, bytes[k])][Rem[k - 1]]
  IN  Rem[n]
Remainder(bytes) == RemainderTo(bytes, Len(bytes))

(* The loop over the table's entries computes the CRC of ECMA-167, which   *)
(* has no table (Util.h, lines 148 to 189).                                *)
CrcIsRemainder ==
  step = "tag" => crc = Remainder(SubSeq(str_buf, TagSize + 1, StructSize))

Read16(from) == str_buf[from + 1] + 256 * str_buf[from + 2]
Read32(from) == Read16(from) + 65536 * Read16(from + 2)

(* A reader of the finished descriptor finds its tag valid: the sum of the *)
(* other 15 bytes, the CRC over the length the tag gives, and a location   *)
(* that is the block it was meant for.                                     *)
TagVerifies ==
  step = "done" =>
    /\ (SumFunction(SubSeq(str_buf, 1, TagSize)) - str_buf[5]) % 256 = str_buf[5]
    /\ TagSize + Read16(10) = Len(str_buf)
    /\ Read16(8) = Remainder(SubSeq(str_buf, TagSize + 1, Len(str_buf)))
    /\ Read32(12) = cur_spec_lba /\ Read32(24) = lba

(* CS0 as ECMA-167 reads it: the compression id, then characters with the  *)
(* high byte first.                                                        *)
NameRead(bytes) ==
  [i \in 1 .. (Len(bytes) - 1) \div 2 |-> 256 * bytes[2 * i] + bytes[2 * i + 1]]

(* It also reads the name: the identifier begins in the field impl_use,    *)
(* one byte before the characters the code copies low byte first, has the  *)
(* length the descriptor gives, and fills it up to a multiple of four, for *)
(* names of up to 127 bytes, whose length is a byte (API.cpp, line 1272).  *)
NameSurvives ==
  step = "done" /\ Len(name) <= 127 =>
    LET length == str_buf[20]
        identifier == SubSeq(str_buf, 39, 38 + length)
    IN  /\ identifier[1] = 16
        /\ NameRead(identifier) = name
        /\ Len(str_buf) % 4 = 0
        /\ Len(str_buf) - (38 + length) \in 0 .. 3

Backwards(bytes) == [i \in 1 .. Len(bytes) |-> bytes[Len(bytes) + 1 - i]]

(* A number written in both orders reads the same from either end, and     *)
(* changing the order twice changes nothing (lines 230 to 242).            *)
BothOrders ==
  \A value \in {lba, cur_spec_lba} :
    /\ Host32(changeEndianness32(value)) = Backwards(Host32(value))
    /\ Host16(changeEndianness16(value % 65536))
         = Backwards(Host16(value % 65536))
    /\ changeEndianness32(changeEndianness32(value)) = value
=============================================================================
