------------------------------ MODULE Convert -------------------------------
(***************************************************************************)
(* Conversions between bytes and what they stand for: the encoded strings  *)
(* handlers turn into native ones with ConvertString, and the SIDs of      *)
(* Windows.  A string is the sequence of its bytes.                        *)
(***************************************************************************)
EXTENDS Ber, SequencesExt

TagOctetString == 4
TagGeneralString == 27

\* The ber library writes a length in one byte up to 127; above, a byte with
\* the number of length bytes precedes them.
BigEndian[n \in Nat] == IF n < 256 THEN <<n>> ELSE Append(BigEndian[n \div 256], n % 256)
encodeLength(n) == IF n > 127 THEN <<128 + Len(BigEndian[n])>> \o BigEndian[n] ELSE <<n>>
Bytes(tag, text) == <<tag>> \o encodeLength(Len(text)) \o text

\* readLength: the length, and how many bytes it took.  128 is the indefinite form.
Indefinite == -1
readLength(bytes) ==
  IF bytes = <<>> THEN Panicked
  ELSE LET b == bytes[1]
           lengthBytes == b - 128
       IN  CASE b = 255 -> Failed
             [] b = 128 -> [kind |-> "length", length |-> Indefinite, read |-> 1]
             [] b < 128 -> [kind |-> "length", length |-> b, read |-> 1]
             [] lengthBytes \in 9..126 -> Failed
             [] lengthBytes \in 1..8 ->
                  IF Len(bytes) < 1 + lengthBytes THEN Panicked
                  ELSE [kind |-> "length",
                        length |-> FoldLeft(LAMBDA n, x : 256 * n + x, 0,
                                            SubSeq(bytes, 2, 1 + lengthBytes)),
                        read |-> 1 + lengthBytes]

convert(data) ==
  IF data = <<>> THEN Panicked
  ELSE IF data[1] \notin {TagOctetString, TagGeneralString} THEN Failed
  ELSE LET l == readLength(Tail(data))
       IN  IF ~Returned(l) THEN l
           ELSE [kind |-> "string", text |-> SubSeq(data, 2 + l.read, Len(data))]

ConvertString(octetString) ==
  LET converted == [k \in 1..Len(octetString) |-> convert(octetString[k])]
  IN  IF AllReturned(converted)
        THEN [kind |-> "strings", texts |-> [k \in 1..Len(octetString) |-> converted[k].text]]
        ELSE FirstBad(converted)
-----------------------------------------------------------------------------
\* Three words of 16 bits, big endian; the identifier is the last.
SIDBytes(revision, identifierAuthority) ==
  <<revision, 0>> \o <<0, 0, 0, 0>> \o <<identifierAuthority \div 256, identifierAuthority % 256>>

Number(bytes) == FoldLeft(LAMBDA n, x : 256 * n + x, 0, bytes)

subAuthorityBig(bytes) == Number(bytes)
subAuthority(bytes) == Number(Reverse(bytes))

\* The numbers of the text S-revision-authority-sub-...
SIDBytesToString(b) ==
  IF Len(b) < 8 \/ Len(b) < 8 + 4 * b[2] THEN Failed
  ELSE [kind |-> "sid",
        numbers |-> <<b[1], Number(SubSeq(b, 3, 8))>>
                    \o [k \in 1..b[2] |-> subAuthority(SubSeq(b, 5 + 4 * k, 8 + 4 * k))]]
=============================================================================
