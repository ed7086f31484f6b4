---------------------------------- MODULE Rtf ----------------------------------
(***************************************************************************)
(* rtf.py: decompress_rtf.  A payload is a stream of literals and of       *)
(* references into a ring that starts with a known text and receives every *)
(* byte of output.                                                         *)
(*                                                                         *)
(* The stream is abstracted to its tokens.  Control bytes only say which   *)
(* of the tokens are references, and an end of the payload in a control    *)
(* byte, a literal or half a reference has one outcome, the end of the     *)
(* tokens.  A reference's length has its 2 added.                          *)
(***************************************************************************)
EXTENDS PstLimits, SequencesExt

CONSTANTS Bytes, Zero,              \* Zero: what a ring is filled with before it is written
          DictionarySize, InitialDictionary, MaxReferenceLength,
          Values,                   \* values to decompress
          MaxOutput

Offset == 0..(DictionarySize - 1)
Token == [kind : {"literal"}, byte : Bytes]
    \cup [kind : {"reference"}, offset : Offset, length : 2..MaxReferenceLength]
Header == [kind : {"refused"}]
     \cup [kind : {"MELA"}, rawSize : Nat]
     \cup [kind : {"LZFu"}, rawSize : Nat, crcMatches : BOOLEAN]

ASSUME DictionaryAssumption ==
    /\ DictionarySize \in Nat \ {0} /\ Zero \in Bytes
    /\ InitialDictionary \in Seq(Bytes) /\ Len(InitialDictionary) < DictionarySize
ASSUME RtfLimitsAssumption == MaxOutput \in Nat /\ MaxReferenceLength \in Nat
ASSUME RtfValuesAssumption ==
    \A c \in Values : /\ c.header \in Header
                      /\ c.bytes \in Seq(Bytes)      \* of a payload that is not compressed
                      /\ c.tokens \in Seq(Token)     \* of one that is

VARIABLES header, bytes, tokens,
          pc,               \* "header", "token", "copy", "returned", "refused"
          pos,              \* tokens read
          dictionary, write, end,
          output,
          read, left,       \* a copy: where it reads, and bytes still to come
          refusal

decoder == <<pos, dictionary, write, end, output, read, left>>
rtfvars == <<header, bytes, tokens, pc, decoder, refusal>>

RtfStarts(c) ==
    /\ header = c.header /\ bytes = c.bytes /\ tokens = c.tokens
    /\ pc = "header" /\ pos = 0 /\ output = <<>> /\ read = 0 /\ left = 0
    /\ dictionary = [i \in Offset |-> IF i < Len(InitialDictionary)
                                      THEN InitialDictionary[i + 1] ELSE Zero]
    /\ write = Len(InitialDictionary) /\ end = Len(InitialDictionary)
    /\ refusal = NoError

RtfInit == \E c \in Values : RtfStarts(c)

ReadOnly == UNCHANGED <<header, bytes, tokens>>

RefuseWith(class) == /\ pc' = "refused" /\ refusal' = class
                     /\ UNCHANGED decoder

-----------------------------------------------------------------------------
(* Up to the loop. *)
HeaderRefusal ==
    IF header.kind = "refused" THEN "PstFormatError"
    ELSE IF Exceeds(header.rawSize, MaxOutput) THEN "PstLimitError"
    ELSE IF header.kind = "MELA"
         THEN IF header.rawSize > Len(bytes) THEN "PstFormatError" ELSE NoError
    ELSE IF ~header.crcMatches THEN "PstFormatError" ELSE NoError

RefuseHeader == /\ pc = "header" /\ HeaderRefusal # NoError
                /\ RefuseWith(HeaderRefusal)
                /\ ReadOnly

ReturnUncompressed ==
    /\ pc = "header" /\ HeaderRefusal = NoError /\ header.kind = "MELA"
    /\ output' = SubSeq(bytes, 1, header.rawSize)
    /\ pc' = "returned"
    /\ ReadOnly /\ UNCHANGED <<pos, dictionary, write, end, read, left, refusal>>

StartTokens == /\ pc = "header" /\ HeaderRefusal = NoError /\ header.kind = "LZFu"
               /\ pc' = "token"
               /\ ReadOnly /\ UNCHANGED <<decoder, refusal>>

-----------------------------------------------------------------------------
(* The loop of _decompress_lzfu. *)
Wrap(offset) == offset % DictionarySize

(* Mutant: the end does not saturate. *)
EmitUnsaturated(byte) ==
    /\ output' = Append(output, byte)
    /\ dictionary' = [dictionary EXCEPT ![write] = byte]
    /\ write' = Wrap(write + 1)
    /\ end' = end + 1

(* Mutant: saturates one byte early. *)
EmitSaturatesEarly(byte) ==
    /\ output' = Append(output, byte)
    /\ dictionary' = [dictionary EXCEPT ![write] = byte]
    /\ write' = Wrap(write + 1)
    /\ end' = IF end < DictionarySize - 1 THEN end + 1 ELSE end

(* A byte goes to the output and to the dictionary. *)
Emit(byte) ==
    /\ output' = Append(output, byte)
    /\ dictionary' = [dictionary EXCEPT ![write] = byte]
    /\ write' = Wrap(write + 1)
    /\ end' = IF end < DictionarySize THEN end + 1 ELSE end

AtToken == pc = "token" /\ pos < Len(tokens)

Token1 == tokens[pos + 1]

(* Mutant: looks for the terminator at the end, not at the write offset. *)
IsTerminatorAtEnd(offset) == offset = end

IsTerminator(offset) == offset = write

TokenRefusal ==
    IF pos = Len(tokens) THEN "PstFormatError"
    ELSE IF Token1.kind = "literal"
         THEN IF Len(output) >= MaxOutput THEN "PstLimitError" ELSE NoError
    ELSE IF IsTerminator(Token1.offset) THEN NoError
    ELSE IF Token1.offset >= end THEN "PstFormatError"
    ELSE IF Exceeds(Len(output) + Token1.length, MaxOutput) THEN "PstLimitError"
    ELSE NoError

RefuseToken == /\ pc = "token" /\ TokenRefusal # NoError
               /\ RefuseWith(TokenRefusal)
               /\ ReadOnly

Literal == /\ AtToken /\ TokenRefusal = NoError /\ Token1.kind = "literal"
           /\ pos' = pos + 1
           /\ Emit(Token1.byte)
           /\ ReadOnly /\ UNCHANGED <<pc, read, left, refusal>>

Terminate == /\ AtToken /\ Token1.kind = "reference" /\ IsTerminator(Token1.offset)
             /\ pos' = pos + 1 /\ pc' = "returned"
             /\ ReadOnly /\ UNCHANGED <<dictionary, write, end, output, read, left, refusal>>

Reference == /\ AtToken /\ TokenRefusal = NoError
             /\ Token1.kind = "reference" /\ ~IsTerminator(Token1.offset)
             /\ pos' = pos + 1 /\ pc' = "copy"
             /\ read' = Token1.offset /\ left' = Token1.length
             /\ ReadOnly /\ UNCHANGED <<dictionary, write, end, output, refusal>>

CopyByte == /\ pc = "copy"
            /\ Emit(dictionary[read])
            /\ read' = Wrap(read + 1) /\ left' = left - 1
            /\ pc' = IF left' = 0 THEN "token" ELSE "copy"
            /\ ReadOnly /\ UNCHANGED <<pos, refusal>>

RtfNext == \/ RefuseHeader \/ ReturnUncompressed \/ StartTokens
           \/ RefuseToken \/ Literal \/ Terminate \/ Reference \/ CopyByte

RtfSpec == RtfInit /\ [][RtfNext]_rtfvars

-----------------------------------------------------------------------------
(* The type of the decoder.  The output never exceeds the ceiling, not in  *)
(* the middle of a reference either.                                       *)
RtfTypeOK ==
    /\ header \in Header /\ bytes \in Seq(Bytes) /\ tokens \in Seq(Token)
    /\ pc \in {"header", "token", "copy", "returned", "refused"}
    /\ pos \in 0..Len(tokens)
    /\ dictionary \in [Offset -> Bytes] /\ write \in Offset
    /\ end \in Len(InitialDictionary)..DictionarySize
    /\ output \in Seq(Bytes) /\ Len(output) + left <= MaxOutput
    /\ read \in Offset /\ left \in Nat /\ (pc = "copy") = (left > 0)
    /\ refusal \in Refusals \cup {NoError}

History == InitialDictionary \o output

(* The offset k bytes before the write offset. *)
Back(k) == IF k <= write THEN write - k ELSE write + DictionarySize - k

(* In a compressed value the ring holds the last bytes of the initial text *)
(* and the output, as many as it has room for, in order and ending at the  *)
(* write offset; and a copy, however far it runs over the write offset or  *)
(* around the ring, only ever reads a byte that was written.               *)
RingIsHistory ==
    header.kind = "LZFu" =>
        /\ end = IF Len(History) < DictionarySize THEN Len(History) ELSE DictionarySize
        /\ \A k \in 1..end : dictionary[Back(k)] = History[Len(History) + 1 - k]
        /\ pc = "copy" => \E k \in 1..end : read = Back(k)

-----------------------------------------------------------------------------
(* The reference has no ring: an offset stands for the last place of the   *)
(* whole text so far that is written there, modulo the ring's size.        *)
Places(text, offset) == {p \in DOMAIN text : (p - 1) % DictionarySize = offset}

Repeated(text, from, n) ==
    LET grown[i \in 0..n] == IF i = 0 THEN text
                             ELSE Append(grown[i - 1], grown[i - 1][from + i - 1])
    IN grown[n]

Room(text, n) == Len(text) - Len(InitialDictionary) + n <= MaxOutput

(* What one more token makes of the text, and of the verdict on the value. *)
DecodeToken(d, t) ==
    IF d.verdict # "open" THEN d
    ELSE IF t.kind = "literal"
         THEN IF Room(d.text, 1) THEN [d EXCEPT !.text = Append(d.text, t.byte)]
              ELSE [d EXCEPT !.verdict = "PstLimitError"]
    ELSE IF t.offset = Len(d.text) % DictionarySize THEN [d EXCEPT !.verdict = "ended"]
    ELSE IF Places(d.text, t.offset) = {} THEN [d EXCEPT !.verdict = "PstFormatError"]
    ELSE IF ~Room(d.text, t.length) THEN [d EXCEPT !.verdict = "PstLimitError"]
    ELSE [d EXCEPT !.text = Repeated(d.text, Max(Places(d.text, t.offset)), t.length)]

Decoded(stream) ==
    LET after[n \in 0..Len(stream)] ==
            IF n = 0 THEN [text |-> InitialDictionary, verdict |-> "open"]
            ELSE DecodeToken(after[n - 1], stream[n])
    IN after[Len(stream)]

(* The bytes a compressed value decodes to, its refusal, and what has been *)
(* put out at a refusal are those of a decoder that keeps all of its text. *)
DecodesTokens ==
    (header.kind = "LZFu" /\ HeaderRefusal = NoError) =>
        /\ pc = "returned" => Decoded(tokens) = [text |-> History, verdict |-> "ended"]
        /\ pc = "refused" => /\ Decoded(tokens).text = History
                             /\ refusal = IF Decoded(tokens).verdict = "open" THEN "PstFormatError"
                                        ELSE Decoded(tokens).verdict

=============================================================================
