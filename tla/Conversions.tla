------------------------------ MODULE Conversions ------------------------------
(***************************************************************************)
(* The conversions of app/src/Utils: what they print is read back by the   *)
(* same code (echo, store --append and the variables), and the checksum    *)
(* that dataFile.cpp writes behind a header is the one it checks.          *)
(*                                                                         *)
(* A base64 character is its value 0 .. 63, a hexadecimal one its digit.   *)
(* An int is the sequence of its 32 bits, the highest first.  Decimal      *)
(* numbers are the library's and left out.                                 *)
(***************************************************************************)
EXTENDS Integers, SequencesExt, FiniteSetsExt, Bitwise

CONSTANTS
    ByteStrings,   \* the bytes that are encoded
    Ints,          \* the ints that are printed
    FieldNames     \* the names of fields, as places in _signature_lookup; 40 is none

VARIABLES conversion   \* [kind, at, given, text, back]

Padding   == 64   \* '='
BlankDigit == 16
Underline == 17
BitsOf(n, width) == [i \in 1 .. width |-> (n \div 2 ^ (width - i)) % 2]

-----------------------------------------------------------------------------
(***************************************************************************)
(* Base64.  The bits of block that are not assigned are shifted out.       *)
(***************************************************************************)
ByteAt(data, i) == IF i < Len(data) THEN data[i + 1] ELSE 0
Block(data, n) == 65536 * ByteAt(data, n) + 256 * ByteAt(data, n + 1) + ByteAt(data, n + 2)

\* with less than two bytes data.size() - 2 wraps and the loop reads on until
\* there is no memory left
Base64Encodes(data) == Len(data) >= 2
Base64Encode(data) ==
    LET length == 4 * ((Len(data) + 2) \div 3)
        equals == (3 - (Len(data) % 3)) % 3
    IN  [k \in 1 .. length |->
            IF k > length - equals THEN Padding
            ELSE (Block(data, 3 * ((k - 1) \div 4)) \div 64 ^ (3 - ((k - 1) % 4))) % 64]

Reverse64(char) == IF char = Padding THEN 0 ELSE char

\* slip: the second byte is dropped with one '=', not with two
BytesOfBlockSwapped(text, n, skip) ==
    LET block == FoldLeft(LAMBDA b, c : 64 * b + Reverse64(c), 0, SubSeq(text, n - 3, n))
        bytes == <<block \div 65536, (block \div 256) % 256, block % 256>>
    IN  IF skip <= 0 THEN bytes ELSE SubSeq(bytes, 1, skip)

\* the bytes of the block that ends at n, skip characters behind the last one
BytesOfBlock(text, n, skip) ==
    LET block == FoldLeft(LAMBDA b, c : 64 * b + Reverse64(c), 0, SubSeq(text, n - 3, n))
        bytes == <<block \div 65536, (block \div 256) % 256, block % 256>>
    IN  IF skip <= 0 THEN bytes ELSE SubSeq(bytes, 1, 2)

Base64Decode(text) ==
    LET length == Max({0} \cup {i \in DOMAIN text : text[i] # Padding})
    IN  IF Len(text) % 4 # 0 THEN <<>>
        ELSE FlattenSeq([g \in 1 .. (length + 3) \div 4 |->
                            BytesOfBlock(text, 4 * g, 4 * g - length)])

-----------------------------------------------------------------------------
(***************************************************************************)
(* Hexadecimal: two digits and a blank; a digit alone is a byte, too.      *)
(***************************************************************************)
HexEncode(data) ==
    FlattenSeq([i \in DOMAIN data |-> <<data[i] \div 16, data[i] % 16, BlankDigit>>])

HexDecode(text) ==
    LET Next_(read, c) ==
            IF c = BlankDigit THEN [read EXCEPT !.odd = FALSE]
            ELSE IF read.odd
            THEN [odd |-> FALSE,
                  bytes |-> [read.bytes EXCEPT ![Len(read.bytes)] = 16 * @ + c]]
            ELSE [odd |-> TRUE, bytes |-> Append(read.bytes, c)]
    IN  FoldLeft(Next_, [odd |-> FALSE, bytes |-> <<>>], text).bytes

-----------------------------------------------------------------------------
(***************************************************************************)
(* Integers: ValueConverter keeps the format in which a value was typed.   *)
(***************************************************************************)
BitsPerDigit == [BINARY |-> 1, OCTAL |-> 3, HEX |-> 4, HEX_COLOR |-> 4]

\* the digits of k bits each, without leading zeros
DigitsOf(bits, k) ==
    LET n == (Len(bits) + k - 1) \div k
        padded == [i \in 1 .. n * k - Len(bits) |-> 0] \o bits
        all == [d \in 1 .. n |-> FoldLeft(LAMBDA v, b : 2 * v + b, 0,
                                          SubSeq(padded, (d - 1) * k + 1, d * k))]
        first == Min({n} \cup {d \in 1 .. n : all[d] # 0})
    IN  SubSeq(all, first, n)

AsText(value, format) ==
    CASE format = "BINARY" -> FlattenSeq([n \in 1 .. 4 |->
             SubSeq(value, 8 * n - 7, 8 * n) \o (IF n < 4 THEN <<Underline>> ELSE <<>>)])
      [] format = "HEX_COLOR" ->
             [d \in 1 .. 6 |-> FoldLeft(LAMBDA v, b : 2 * v + b, 0,
                                        SubSeq(value, 4 * d + 5, 4 * d + 8))]
      [] OTHER -> DigitsOf(value, BitsPerDigit[format])

\* strtoll reads up to the first character that is no digit
FromText(text, format) ==
    LET k == BitsPerDigit[format]
        end == Min({Len(text) + 1} \cup {i \in DOMAIN text : text[i] >= 2 ^ k})
        bits == FlattenSeq([i \in 1 .. end - 1 |-> BitsOf(text[i], k)])
    IN  [i \in 1 .. 32 |-> LET j == Len(bits) - 32 + i IN IF j < 1 THEN 0 ELSE bits[j]]

-----------------------------------------------------------------------------
(***************************************************************************)
(* The checksum, by the table and bit by bit.                              *)
(***************************************************************************)
Crc8Table ==
    <<0,   7,  14,   9,  28,  27,  18,  21,  56,  63,  54,  49,  36,  35,  42,  45,
      112, 119, 126, 121, 108, 107,  98, 101,  72,  79,  70,  65,  84,  83,  90,  93,
      224, 231, 238, 233, 252, 251, 242, 245, 216, 223, 214, 209, 196, 195, 202, 205,
      144, 151, 158, 153, 140, 139, 130, 133, 168, 175, 166, 161, 180, 179, 186, 189,
      199, 192, 201, 206, 219, 220, 213, 210, 255, 248, 241, 246, 227, 228, 237, 234,
      183, 176, 185, 190, 171, 172, 165, 162, 143, 136, 129, 134, 147, 148, 157, 154,
       39,  32,  41,  46,  59,  60,  53,  50,  31,  24,  17,  22,   3,   4,  13,  10,
       87,  80,  89,  94,  75,  76,  69,  66, 111, 104,  97, 102, 115, 116, 125, 122,
      137, 142, 135, 128, 149, 146, 155, 156, 177, 182, 191, 184, 173, 170, 163, 164,
      249, 254, 247, 240, 229, 226, 235, 236, 193, 198, 207, 200, 221, 218, 211, 212,
      105, 110, 103,  96, 117, 114, 123, 124,  81,  86,  95,  88,  77,  74,  67,  68,
       25,  30,  23,  16,   5,   2,  11,  12,  33,  38,  47,  40,  61,  58,  51,  52,
       78,  73,  64,  71,  82,  85,  92,  91, 118, 113, 120, 127, 106, 109, 100,  99,
       62,  57,  48,  55,  34,  37,  44,  43,   6,   1,   8,  15,  26,  29,  20,  19,
      174, 169, 160, 167, 178, 181, 188, 187, 150, 145, 152, 159, 138, 141, 132, 131,
      222, 217, 208, 215, 194, 197, 204, 203, 230, 225, 232, 239, 250, 253, 244, 243>>

Calculate(data) == FoldLeft(LAMBDA crc, byte : Crc8Table[(crc ^^ byte) + 1], 255, data)

Shifted[crc \in 0 .. 255, j \in 0 .. 8] ==
    IF j = 0 THEN crc
    ELSE Shifted[IF crc >= 128 THEN ((2 * crc) % 256) ^^ 7 ELSE 2 * crc, j - 1]
CalculateByBits(data) == FoldLeft(LAMBDA crc, byte : Shifted[crc ^^ byte, 8], 255, data)

-----------------------------------------------------------------------------
(***************************************************************************)
(* The signature of a field: five bits for each of up to three characters, *)
(* and a bit that makes the number of ones even.                           *)
(***************************************************************************)
InTable(name) == SelectSeq(SubSeq(name, 1, Min({3, Len(name)})), LAMBDA j : j < 40)
Parity(bits) == FoldLeft(LAMBDA n, b : (n + b) % 2, 0, bits)

MakeSignature(name) ==
    LET bits == BitsOf(FoldLeft(LAMBDA n, j : 32 * n + (j % 32), 0, InTable(name)), 15)
    IN  <<Parity(bits)>> \o bits

SignatureToString(bits) ==
    [i \in 1 .. 3 |-> FoldLeft(LAMBDA n, b : 2 * n + b, 0, SubSeq(bits, 5 * i - 3, 5 * i + 1))]

CheckSignature(bits) == Parity(bits) = 0

-----------------------------------------------------------------------------
ConversionInit ==
    \/ \E kind \in {"base64", "hex", "crc"}, data \in ByteStrings :
          conversion = [kind |-> kind, at |-> "given", given |-> data, text |-> <<>>, back |-> <<>>]
    \/ \E name \in FieldNames :
          conversion = [kind |-> "signature", at |-> "given", given |-> name, text |-> <<>>,
                        back |-> <<>>]
    \/ \E kind \in DOMAIN BitsPerDigit, value \in Ints :
          conversion = [kind |-> kind, at |-> "given", given |-> value, text |-> <<>>, back |-> <<>>]

Encode ==
    /\ conversion.at = "given"
    /\ conversion.kind = "base64" => Base64Encodes(conversion.given)
    /\ LET given == conversion.given
           text == CASE conversion.kind = "base64" -> Base64Encode(given)
                     [] conversion.kind = "hex" -> HexEncode(given)
                     [] conversion.kind = "crc" -> Append(given, Calculate(given))
                     [] conversion.kind = "signature" -> MakeSignature(given)
                     [] OTHER -> AsText(given, conversion.kind)
       IN  conversion' = [conversion EXCEPT !.at = "text", !.text = text]

Decode ==
    /\ conversion.at = "text"
    /\ LET text == conversion.text
           back == CASE conversion.kind = "base64" -> Base64Decode(text)
                     [] conversion.kind = "hex" -> HexDecode(text)
                     [] conversion.kind = "crc" -> <<Calculate(text)>>
                     [] conversion.kind = "signature" -> SignatureToString(text)
                     [] OTHER -> FromText(text, conversion.kind)
       IN  conversion' = [conversion EXCEPT !.at = "back", !.back = back]

ConversionNext == Encode \/ Decode

-----------------------------------------------------------------------------
\* What was printed is read back: bytes through hexadecimal and base64, where one
\* byte more than a multiple of three comes back with a zero byte behind it; ints
\* in octal and hexadecimal, a colour if it has no more than 24 bits.  A number in
\* binary is printed with an underline behind every eighth bit and read up to the
\* first one: only its highest byte comes back.  The checksum of data with its
\* checksum behind it is 0 (isFileHeaderValid, isValidFieldHeader), and the table
\* is the one of the polynomial.  The name of a field comes back behind the
\* first character of the table, without what the table does not hold, and a
\* space or a digit from 5 on as the character 32 places before it; with one bit
\* of its signature turned it is refused (checkSignature).
CodesReadBack ==
    LET given == conversion.given
        kind == conversion.kind
    IN  conversion.at = "back" =>
            CASE kind = "base64" /\ Len(given) % 3 = 1 -> conversion.back = Append(given, 0)
              [] kind = "crc" -> /\ conversion.back = <<0>>
                                 /\ Calculate(given) = CalculateByBits(given)
              [] kind = "signature" ->
                    /\ conversion.back = LET name == <<0, 0, 0>> \o InTable(given)
                                         IN  [i \in 1 .. 3 |-> name[Len(name) - 3 + i] % 32]
                    /\ CheckSignature(conversion.text)
                    /\ \A i \in 1 .. 16 : ~CheckSignature([conversion.text EXCEPT ![i] = 1 - @])
              [] kind = "BINARY" -> conversion.back = BitsOf(0, 24) \o SubSeq(given, 1, 8)
              [] kind = "HEX_COLOR" -> SubSeq(conversion.back, 9, 32) = SubSeq(given, 9, 32)
              [] OTHER -> conversion.back = given
=================================================================================
