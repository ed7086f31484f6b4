----------------------------- MODULE ContentProofs -----------------------------
(***************************************************************************)
(* Theorems about what a message is made of: about Rtf, for every          *)
(* alphabet, ring size, initial text, stream of tokens and ceiling; and    *)
(* about Eml, for every file, every call of to_eml and every ceiling.      *)
(***************************************************************************)
EXTENDS Content, DataLemmas, TLAPS

(* Masking an offset that is at most one too far.                          *)
LEMMA WrapNext ==
    ASSUME NEW o \in Offset
    PROVE  /\ Wrap(o + 1) = (IF o + 1 = DictionarySize THEN 0 ELSE o + 1)
           /\ Wrap(o + 1) \in Offset
<1>0. DictionarySize \in Nat \ {0} BY DictionaryAssumption
<1>1. CASE o + 1 = DictionarySize
  <2>1. DictionarySize % DictionarySize = 0 BY <1>0
  <2>2. QED BY <1>0, <1>1, <2>1 DEF Wrap, Offset
<1>2. CASE o + 1 < DictionarySize
  <2>1. (o + 1) % DictionarySize = o + 1 BY <1>0, <1>2 DEF Offset
  <2>2. QED BY <1>0, <1>2, <2>1 DEF Wrap, Offset
<1>3. QED BY <1>0, <1>1, <1>2 DEF Offset

(* The refusals of a header and of a token are refusals.                   *)
LEMMA RefusalClasses ==
    /\ HeaderRefusal \in Refusals \cup {NoError}
    /\ TokenRefusal \in Refusals \cup {NoError}
BY Zenon DEF HeaderRefusal, TokenRefusal, Refusals, NoError

LEMMA TypeInit == RtfInit => RtfTypeOK
<1>. SUFFICES ASSUME RtfInit PROVE RtfTypeOK OBVIOUS
<1>1. /\ header \in Header /\ bytes \in Seq(Bytes) /\ tokens \in Seq(Token)
  <2>1. PICK c \in Values : header = c.header /\ bytes = c.bytes /\ tokens = c.tokens
    BY DEF RtfInit, RtfStarts
  <2>2. QED BY <2>1, RtfValuesAssumption
<1>2. dictionary \in [Offset -> Bytes]
  <2>1. \A i \in Offset : i < Len(InitialDictionary) => InitialDictionary[i + 1] \in Bytes
    BY DictionaryAssumption DEF Offset
  <2>2. QED BY <2>1, DictionaryAssumption DEF RtfInit, RtfStarts
<1>3. /\ write \in Offset /\ end \in Len(InitialDictionary)..DictionarySize
  BY DictionaryAssumption DEF RtfInit, RtfStarts, Offset
<1>4. /\ output \in Seq(Bytes) /\ Len(output) + left <= MaxOutput
      /\ read \in Offset /\ left \in Nat /\ (pc = "copy") = (left > 0)
  BY DictionaryAssumption, RtfLimitsAssumption DEF RtfInit, RtfStarts, Offset
<1>5. pos \in 0..Len(tokens) BY <1>1 DEF RtfInit, RtfStarts
<1>6. QED BY <1>1, <1>2, <1>3, <1>4, <1>5 DEF RtfTypeOK, RtfInit, RtfStarts

(* What every byte of output does to the types.                            *)
LEMMA EmitTypes ==
    ASSUME RtfTypeOK, NEW byte \in Bytes, Emit(byte)
    PROVE  /\ dictionary' \in [Offset -> Bytes] /\ write' \in Offset
           /\ end' \in Len(InitialDictionary)..DictionarySize
           /\ output' \in Seq(Bytes) /\ Len(output') = Len(output) + 1
<1>1. write' \in Offset BY WrapNext DEF RtfTypeOK, Emit
<1>2. end' \in Len(InitialDictionary)..DictionarySize
  BY DictionaryAssumption DEF RtfTypeOK, Emit
<1>3. QED BY <1>1, <1>2 DEF RtfTypeOK, Emit

LEMMA TypeNext == RtfTypeOK /\ [RtfNext]_rtfvars => RtfTypeOK'
<1>. SUFFICES ASSUME RtfTypeOK, [RtfNext]_rtfvars PROVE RtfTypeOK' OBVIOUS
<1>0. /\ header \in Header /\ bytes \in Seq(Bytes) /\ tokens \in Seq(Token)
      /\ pos \in 0..Len(tokens)
      /\ dictionary \in [Offset -> Bytes] /\ write \in Offset
      /\ end \in Len(InitialDictionary)..DictionarySize
      /\ output \in Seq(Bytes) /\ Len(output) + left <= MaxOutput /\ Len(output) \in Nat
      /\ read \in Offset /\ left \in Nat /\ (pc = "copy") = (left > 0)
      /\ refusal \in Refusals \cup {NoError}
  BY DEF RtfTypeOK
<1>1. CASE RefuseHeader
  <2>1. UNCHANGED <<header, bytes, tokens, decoder>> /\ pc = "header" /\ pc' = "refused"
    BY <1>1 DEF RefuseHeader, RefuseWith, ReadOnly
  <2>2. refusal' \in Refusals \cup {NoError} BY <1>1, RefusalClasses DEF RefuseHeader, RefuseWith
  <2>3. QED BY <1>0, <2>1, <2>2 DEF RtfTypeOK, decoder
<1>2. CASE ReturnUncompressed
  <2>1. header.kind = "MELA" /\ HeaderRefusal = NoError BY <1>2 DEF ReturnUncompressed
  <2>2. header.rawSize \in Nat BY <1>0, <2>1 DEF Header
  <2>3. header.rawSize <= MaxOutput /\ header.rawSize <= Len(bytes)
    BY <2>1, <2>2, <1>0, RtfLimitsAssumption DEF HeaderRefusal, Exceeds, NoError
  <2>4. output' = SubSeq(bytes, 1, header.rawSize) BY <1>2 DEF ReturnUncompressed
  <2>5. output' \in Seq(Bytes) /\ Len(output') = header.rawSize BY <1>0, <2>2, <2>3, <2>4
  <2>6. /\ UNCHANGED <<header, bytes, tokens, pos, dictionary, write, end, read, left, refusal>>
        /\ pc = "header" /\ pc' = "returned"
    BY <1>2 DEF ReturnUncompressed, ReadOnly
  <2>7. left = 0 BY <1>0, <2>6
  <2>8. QED BY <1>0, <2>2, <2>3, <2>5, <2>6, <2>7, RtfLimitsAssumption DEF RtfTypeOK
<1>3. CASE StartTokens
  BY <1>0, <1>3 DEF StartTokens, ReadOnly, decoder, RtfTypeOK
<1>4. CASE RefuseToken
  <2>1. UNCHANGED <<header, bytes, tokens, decoder>> /\ pc = "token" /\ pc' = "refused"
    BY <1>4 DEF RefuseToken, RefuseWith, ReadOnly
  <2>2. refusal' \in Refusals \cup {NoError} BY <1>4, RefusalClasses DEF RefuseToken, RefuseWith
  <2>3. QED BY <1>0, <2>1, <2>2 DEF RtfTypeOK, decoder
<1>5. CASE Literal
  <2>1. /\ pc = "token" /\ pos < Len(tokens) /\ Token1.kind = "literal" /\ TokenRefusal = NoError
        /\ UNCHANGED <<header, bytes, tokens, pc, read, left, refusal>> /\ pos' = pos + 1
        /\ Emit(Token1.byte)
    BY <1>5 DEF Literal, AtToken, ReadOnly
  <2>2. Token1 \in Token BY <1>0, <2>1 DEF Token1
  <2>3. Token1.byte \in Bytes BY <2>1, <2>2 DEF Token
  <2>4. ~(Len(output) >= MaxOutput) BY <2>1, <1>0 DEF TokenRefusal, NoError
  <2>5. left = 0 BY <1>0, <2>1
  <2>6. QED BY <1>0, <2>1, <2>3, <2>4, <2>5, EmitTypes, RtfLimitsAssumption DEF RtfTypeOK
<1>6. CASE Terminate
  BY <1>0, <1>6 DEF Terminate, AtToken, ReadOnly, RtfTypeOK
<1>7. CASE Reference
  <2>1. /\ pc = "token" /\ pos < Len(tokens) /\ Token1.kind = "reference"
        /\ ~IsTerminator(Token1.offset) /\ TokenRefusal = NoError
        /\ UNCHANGED <<header, bytes, tokens, dictionary, write, end, output, refusal>>
        /\ pos' = pos + 1 /\ pc' = "copy" /\ read' = Token1.offset /\ left' = Token1.length
    BY <1>7 DEF Reference, AtToken, ReadOnly
  <2>2. Token1 \in Token BY <1>0, <2>1 DEF Token1
  <2>3. Token1.offset \in Offset /\ Token1.length \in 2..MaxReferenceLength
    BY <2>1, <2>2 DEF Token
  <2>4. Len(output) + Token1.length <= MaxOutput
    BY <2>1, <2>3, <1>0, RtfLimitsAssumption DEF TokenRefusal, NoError, Exceeds
  <2>5. QED BY <1>0, <2>1, <2>3, <2>4, RtfLimitsAssumption DEF RtfTypeOK
<1>8. CASE CopyByte
  <2>1. /\ pc = "copy" /\ Emit(dictionary[read]) /\ read' = Wrap(read + 1) /\ left' = left - 1
        /\ pc' = IF left' = 0 THEN "token" ELSE "copy"
        /\ UNCHANGED <<header, bytes, tokens, pos, refusal>>
    BY <1>8 DEF CopyByte, ReadOnly
  <2>2. dictionary[read] \in Bytes /\ left > 0 BY <1>0, <2>1
  <2>3. read' \in Offset BY <1>0, <2>1, WrapNext
  <2>4. left' \in Nat /\ (pc' = "copy") = (left' > 0) BY <1>0, <2>1, <2>2
  <2>5. QED BY <1>0, <2>1, <2>2, <2>3, <2>4, EmitTypes, RtfLimitsAssumption DEF RtfTypeOK
<1>9. CASE UNCHANGED rtfvars
  BY <1>0, <1>9 DEF rtfvars, decoder, RtfTypeOK
<1>10. QED BY <1>1, <1>2, <1>3, <1>4, <1>5, <1>6, <1>7, <1>8, <1>9 DEF RtfNext

(* The decoder keeps its types, its write offset inside the ring, and its  *)
(* output below the ceiling: decompress_rtf, for every value.              *)
THEOREM RtfTypeCorrect == RtfSpec => []RtfTypeOK
BY TypeInit, TypeNext, PTL DEF RtfSpec

-----------------------------------------------------------------------------
(* The parts of RingIsHistory, as an invariant that is inductive with the  *)
(* types.  All arithmetic is on distances back from the write offset.      *)
Filled == IF Len(History) < DictionarySize THEN Len(History) ELSE DictionarySize

RingHolds == \A k \in 1..end : dictionary[Back(k)] = History[Len(History) + 1 - k]

LEMMA HistoryType ==
    ASSUME RtfTypeOK
    PROVE  History \in Seq(Bytes) /\ Len(History) = Len(InitialDictionary) + Len(output)
BY DictionaryAssumption DEF RtfTypeOK, History

(* A byte of output is the next one of the history, the offset one back,   *)
(* and everything else moves one further back; the byte furthest back is   *)
(* overwritten exactly when the ring is full.                              *)
LEMMA EmitKeepsRing ==
    ASSUME RtfTypeOK, end = Filled, RingHolds, NEW byte \in Bytes, Emit(byte)
    PROVE  end' = Filled' /\ RingHolds'
<1>0. DictionarySize \in Nat \ {0} /\ write \in 0..(DictionarySize - 1)
      /\ end \in Nat /\ end <= DictionarySize /\ output \in Seq(Bytes)
  BY DictionaryAssumption DEF RtfTypeOK, Offset
<1>1. History' = Append(History, byte)
  BY <1>0, DictionaryAssumption DEF History, Emit
<1>2. History \in Seq(Bytes) /\ Len(History) \in Nat BY HistoryType
<1>3. Len(History') = Len(History) + 1 BY <1>1, <1>2
<1>4. end' = Filled' BY <1>0, <1>2, <1>3 DEF Filled, Emit
<1>5. write' = IF write + 1 = DictionarySize THEN 0 ELSE write + 1
  BY <1>0, WrapNext DEF Emit, Offset
<1>6. end' <= DictionarySize /\ end' <= end + 1 /\ end' \in Nat
  BY <1>0 DEF Emit
<1>7. dictionary' = [dictionary EXCEPT ![write] = byte] BY DEF Emit
<1>8. dictionary \in [Offset -> Bytes] BY DEF RtfTypeOK
<1>9. ASSUME NEW k \in 1..end'
      PROVE  dictionary'[Back(k)'] = History'[Len(History') + 1 - k]
  <2>1. CASE k = 1
    <3>1. Back(k)' = write BY <1>0, <1>5, <2>1 DEF Back
    <3>2. dictionary'[write] = byte BY <1>0, <1>7, <1>8 DEF Offset
    <3>3. History'[Len(History') + 1 - k] = byte BY <1>1, <1>2, <1>3, <2>1
    <3>4. QED BY <3>1, <3>2, <3>3
  <2>2. CASE k # 1
    <3>1. k - 1 \in 1..end /\ k <= DictionarySize BY <1>0, <1>6, <2>2
    <3>2. Back(k)' = Back(k - 1) BY <1>0, <1>5, <3>1 DEF Back
    <3>3. Back(k - 1) \in Offset /\ Back(k - 1) # write BY <1>0, <3>1 DEF Back, Offset
    <3>4. dictionary'[Back(k - 1)] = dictionary[Back(k - 1)] BY <1>7, <1>8, <3>3
    <3>5. dictionary[Back(k - 1)] = History[Len(History) + 1 - (k - 1)]
      BY <3>1 DEF RingHolds
    <3>6. Len(History) + 1 - (k - 1) \in 1..Len(History)
      BY <1>0, <1>2, <3>1 DEF Filled
    <3>7. History'[Len(History) + 1 - (k - 1)] = History[Len(History) + 1 - (k - 1)]
      BY <1>1, <1>2, <3>6
    <3>8. Len(History') + 1 - k = Len(History) + 1 - (k - 1) BY <1>2, <1>3
    <3>9. QED BY <3>2, <3>4, <3>5, <3>7, <3>8
  <2>3. QED BY <2>1, <2>2
<1>10. RingHolds' BY <1>9 DEF RingHolds
<1>11. QED BY <1>4, <1>10

(* Until the ring is full, the write offset is the end.                    *)
WriteAtEnd == end < DictionarySize => write = end

LEMMA EmitKeepsWriteAtEnd ==
    ASSUME RtfTypeOK, WriteAtEnd, NEW byte \in Bytes, Emit(byte)
    PROVE  WriteAtEnd'
<1>0. DictionarySize \in Nat \ {0} /\ write \in 0..(DictionarySize - 1) /\ end \in Nat
  BY DictionaryAssumption DEF RtfTypeOK, Offset
<1>1. write' = IF write + 1 = DictionarySize THEN 0 ELSE write + 1
  BY WrapNext DEF Emit, RtfTypeOK
<1>2. end' = IF end < DictionarySize THEN end + 1 ELSE end BY DEF Emit
<1>3. QED BY <1>0, <1>1, <1>2 DEF WriteAtEnd

(* An offset below the end, other than the write offset, is a distance     *)
(* back that was written.                                                  *)
LEMMA OffsetIsBack ==
    ASSUME RtfTypeOK, WriteAtEnd, NEW o \in Offset, o # write, o < end
    PROVE  \E k \in 1..end : o = Back(k)
<1>0. DictionarySize \in Nat \ {0} /\ write \in Offset /\ end \in Nat /\ end <= DictionarySize
  BY DictionaryAssumption DEF RtfTypeOK
<1>1. CASE o < write
  <2>1. write - o \in 1..end BY <1>0, <1>1 DEF WriteAtEnd, Offset
  <2>2. o = Back(write - o) BY <1>0, <1>1 DEF Back, Offset
  <2>3. QED BY <2>1, <2>2
<1>2. CASE o > write
  <2>1. end = DictionarySize BY <1>0, <1>2 DEF WriteAtEnd, Offset
  <2>2. write + DictionarySize - o \in 1..end BY <1>0, <1>2, <2>1 DEF Offset
  <2>3. o = Back(write + DictionarySize - o) BY <1>0, <1>2 DEF Back, Offset
  <2>4. QED BY <2>2, <2>3
<1>3. QED BY <1>0, <1>1, <1>2 DEF Offset

(* A copy stays at its distance while both offsets go round the ring.      *)
LEMMA CopyStaysBack ==
    ASSUME RtfTypeOK, NEW k \in 1..end, read = Back(k), NEW byte \in Bytes, Emit(byte),
           read' = Wrap(read + 1)
    PROVE  k \in 1..end' /\ read' = Back(k)'
<1>0. DictionarySize \in Nat \ {0} /\ write \in 0..(DictionarySize - 1) /\ end \in Nat
      /\ end <= DictionarySize
  BY DictionaryAssumption DEF RtfTypeOK, Offset
<1>1. write' = IF write + 1 = DictionarySize THEN 0 ELSE write + 1
  BY WrapNext DEF Emit, RtfTypeOK
<1>2. read' = IF read + 1 = DictionarySize THEN 0 ELSE read + 1
  BY WrapNext DEF RtfTypeOK
<1>3. k \in 1..end' BY <1>0 DEF Emit
<1>4. QED BY <1>0, <1>1, <1>2, <1>3 DEF Back

RingInv == header.kind = "LZFu" => /\ end = Filled /\ WriteAtEnd /\ RingHolds
                                   /\ pc = "copy" => \E k \in 1..end : read = Back(k)

LEMMA RingInit == RtfInit => RingInv
<1>. SUFFICES ASSUME RtfInit PROVE RingInv OBVIOUS
<1>1. History = InitialDictionary /\ pc = "header"
      /\ write = Len(InitialDictionary) /\ end = Len(InitialDictionary)
  BY DictionaryAssumption DEF RtfInit, RtfStarts, History
<1>2. end = Filled /\ WriteAtEnd BY <1>1, DictionaryAssumption DEF Filled, WriteAtEnd
<1>3. ASSUME NEW k \in 1..end
      PROVE  dictionary[Back(k)] = History[Len(History) + 1 - k]
  <2>1. Back(k) = Len(InitialDictionary) - k /\ Back(k) \in Offset
    BY <1>1, DictionaryAssumption DEF Back, Offset
  <2>2. dictionary[Back(k)] = InitialDictionary[Len(InitialDictionary) - k + 1]
    BY <1>1, <2>1, DictionaryAssumption DEF RtfInit, RtfStarts
  <2>3. Len(InitialDictionary) - k + 1 = Len(InitialDictionary) + 1 - k
    BY <1>1, DictionaryAssumption
  <2>4. QED BY <1>1, <2>2, <2>3
<1>4. QED BY <1>1, <1>2, <1>3 DEF RingInv, RingHolds

LEMMA RingNext == RtfTypeOK /\ RingInv /\ [RtfNext]_rtfvars => RingInv'
<1>. SUFFICES ASSUME RtfTypeOK, RingInv, [RtfNext]_rtfvars, header'.kind = "LZFu"
              PROVE  /\ end' = Filled' /\ WriteAtEnd' /\ RingHolds'
                     /\ pc' = "copy" => \E k \in 1..end' : read' = Back(k)'
  BY DEF RingInv
<1>0. header' = header
  BY DEF RtfNext, RefuseHeader, ReturnUncompressed, StartTokens, RefuseToken, Literal, Terminate,
         Reference, CopyByte, ReadOnly, rtfvars
<1>1. /\ end = Filled /\ WriteAtEnd /\ RingHolds
      /\ pc = "copy" => \E k \in 1..end : read = Back(k)
  BY <1>0 DEF RingInv
<1>2. ASSUME UNCHANGED <<dictionary, write, end, output>>
      PROVE  end' = Filled' /\ WriteAtEnd' /\ RingHolds'
  BY <1>1, <1>2 DEF Filled, History, WriteAtEnd, RingHolds, Back
<1>3. CASE RefuseHeader \/ StartTokens \/ RefuseToken \/ Terminate \/ UNCHANGED rtfvars
  <2>1. UNCHANGED <<dictionary, write, end, output, read>> /\ (pc' = "copy" => pc = "copy")
    BY <1>3 DEF RefuseHeader, StartTokens, RefuseToken, Terminate, RefuseWith, decoder, rtfvars
  <2>2. QED BY <1>1, <1>2, <2>1 DEF Back
<1>4. CASE ReturnUncompressed
  BY <1>0, <1>4 DEF ReturnUncompressed
<1>5. CASE Literal
  <2>1. Emit(Token1.byte) /\ pc' # "copy" /\ Token1.kind = "literal"
    BY <1>5 DEF Literal, AtToken
  <2>2. Token1 \in Token BY <1>5 DEF Literal, AtToken, Token1, RtfTypeOK
  <2>3. Token1.byte \in Bytes BY <2>1, <2>2 DEF Token
  <2>4. QED BY <1>1, <2>1, <2>3, EmitKeepsRing, EmitKeepsWriteAtEnd
<1>6. CASE Reference
  <2>1. /\ UNCHANGED <<dictionary, write, end, output>> /\ read' = Token1.offset
        /\ Token1.kind = "reference" /\ ~IsTerminator(Token1.offset) /\ TokenRefusal = NoError
        /\ pos < Len(tokens) /\ pos \in Nat
    BY <1>6 DEF Reference, AtToken, RtfTypeOK
  <2>2. Token1 \in Token BY <2>1 DEF Token1, RtfTypeOK
  <2>3. Token1.offset \in Offset BY <2>1, <2>2 DEF Token
  <2>4. ~(Token1.offset >= end) BY <2>1 DEF TokenRefusal, NoError
  <2>5. Token1.offset # write BY <2>1 DEF IsTerminator
  <2>6. end \in Nat /\ Token1.offset < end
    BY <2>3, <2>4, DictionaryAssumption DEF Offset, RtfTypeOK
  <2>7. \E k \in 1..end : Token1.offset = Back(k)
    BY <1>1, <2>3, <2>5, <2>6, OffsetIsBack
  <2>8. QED BY <1>2, <2>1, <2>7 DEF Back
<1>7. CASE CopyByte
  <2>1. pc = "copy" /\ Emit(dictionary[read]) /\ read' = Wrap(read + 1)
    BY <1>7 DEF CopyByte
  <2>2. dictionary[read] \in Bytes BY DEF RtfTypeOK
  <2>3. PICK k \in 1..end : read = Back(k) BY <1>1, <2>1
  <2>4. k \in 1..end' /\ read' = Back(k)' BY <2>1, <2>2, <2>3, CopyStaysBack
  <2>5. QED BY <1>1, <2>1, <2>2, <2>4, EmitKeepsRing, EmitKeepsWriteAtEnd
<1>8. QED BY <1>3, <1>4, <1>5, <1>6, <1>7 DEF RtfNext

(* For every ring and every stream: what _decompress_lzfu reads from its   *)
(* dictionary is what a decoder with no ring would read from its text, and *)
(* it never reads a byte that was not written.                             *)
THEOREM RingKeepsHistory == RtfSpec => []RingIsHistory
<1>1. RtfTypeOK /\ RingInv => RingIsHistory
  BY DEF RingInv, RingIsHistory, Filled, RingHolds
<1>2. QED BY TypeInit, TypeNext, RingInit, RingNext, <1>1, PTL DEF RtfSpec

-----------------------------------------------------------------------------
(* Rtf.  What a remainder is, and the next number's.                       *)
LEMMA RemainderIs ==
    ASSUME NEW x \in Nat, NEW n \in Nat \ {0}
    PROVE  x % n \in 0..(n - 1) /\ x \div n \in Nat /\ x = (x \div n) * n + (x % n)
  OBVIOUS

LEMMA RemainderOnly ==
    ASSUME NEW n \in Nat \ {0}, NEW q \in Nat, NEW r \in 0..(n - 1), NEW x \in Nat, x = q * n + r
    PROVE  x % n = r
  <1>1. PICK p \in Nat, s \in 0..(n - 1) : s = x % n /\ x = p * n + s
    BY RemainderIs
  <1>2. PICK pn \in Nat, qn \in Nat : pn = p * n /\ qn = q * n
    <2>1. p * n \in Nat /\ q * n \in Nat
      OBVIOUS
    <2>. QED  BY <2>1
  <1>3. ASSUME p + 1 <= q PROVE FALSE
    <2>1. (p + 1) * n <= q * n
      <3>1. PICK d \in Nat : q = (p + 1) + d
        <4>1. q - (p + 1) \in Nat /\ q = (p + 1) + (q - (p + 1))
          BY <1>3
        <4>. QED  BY <4>1
      <3>2. q * n = (p + 1) * n + d * n
        BY <3>1
      <3>3. d * n \in Nat /\ (p + 1) * n \in Nat
        OBVIOUS
      <3>. QED  BY <3>2, <3>3
    <2>2. (p + 1) * n = pn + n
      BY <1>2
    <2>. QED  BY <1>1, <1>2, <2>1, <2>2
  <1>4. ASSUME q + 1 <= p PROVE FALSE
    <2>1. (q + 1) * n <= p * n
      <3>1. PICK d \in Nat : p = (q + 1) + d
        <4>1. p - (q + 1) \in Nat /\ p = (q + 1) + (p - (q + 1))
          BY <1>4
        <4>. QED  BY <4>1
      <3>2. p * n = (q + 1) * n + d * n
        BY <3>1
      <3>3. d * n \in Nat /\ (q + 1) * n \in Nat
        OBVIOUS
      <3>. QED  BY <3>2, <3>3
    <2>2. (q + 1) * n = qn + n
      BY <1>2
    <2>. QED  BY <1>1, <1>2, <2>1, <2>2
  <1>5. p = q
    BY <1>3, <1>4
  <1>. QED  BY <1>1, <1>2, <1>5

LEMMA RemainderNext ==
    ASSUME NEW x \in Nat, NEW n \in Nat \ {0}
    PROVE  (x + 1) % n = IF (x % n) + 1 = n THEN 0 ELSE (x % n) + 1
  <1>1. PICK q \in Nat, r \in 0..(n - 1) : r = x % n /\ x = q * n + r
    BY RemainderIs
  <1>2. CASE r + 1 = n
    <2>1. x + 1 = (q + 1) * n + 0
      BY <1>1, <1>2
    <2>2. (x + 1) % n = 0
      <3>1. PICK y \in Nat, p \in Nat, s \in 0..(n - 1) : y = x + 1 /\ p = q + 1 /\ s = 0
        OBVIOUS
      <3>2. y = p * n + s
        BY <2>1, <3>1
      <3>3. y % n = s
        BY <3>2, RemainderOnly
      <3>. QED  BY <3>1, <3>3
    <2>. QED  BY <1>1, <1>2, <2>2
  <1>3. CASE r + 1 # n
    <2>1. r + 1 \in 0..(n - 1) /\ x + 1 \in Nat
      BY <1>3
    <2>2. x + 1 = q * n + (r + 1)
      <3>1. q * n \in Nat
        OBVIOUS
      <3>. QED  BY <1>1, <3>1
    <2>3. (x + 1) % n = r + 1
      <3>1. PICK y \in Nat, s \in 0..(n - 1) : y = x + 1 /\ s = r + 1
        BY <2>1
      <3>2. y = q * n + s
        BY <2>2, <3>1
      <3>3. y % n = s
        BY <3>2, RemainderOnly
      <3>. QED  BY <3>1, <3>3
    <2>. QED  BY <1>1, <1>3, <2>3
  <1>. QED  BY <1>2, <1>3

LEMMA RemainderSmall ==
    ASSUME NEW n \in Nat \ {0}, NEW x \in 0..(n - 1)
    PROVE  x % n = x
  <1>1. x = 0 * n + x /\ x \in Nat /\ 0 \in Nat
    OBVIOUS
  <1>. QED  BY <1>1, RemainderOnly

(* Among numbers up to a bound there is a greatest. *)
LEMMA MaxProperties ==
    ASSUME NEW S \in SUBSET Nat, NEW m \in Nat, \A x \in S : x <= m, NEW e \in S
    PROVE  Max(S) \in S /\ \A x \in S : x <= Max(S)
  <1> DEFINE D == {i \in Nat : m - i \in S}
  <1>1. m - e \in D
    <2>1. m - e \in Nat /\ m - (m - e) = e
      OBVIOUS
    <2>. QED  BY <2>1
  <1>2. PICK l \in D : \A i \in D : l <= i
    BY <1>1, LeastElement
  <1>3. PICK b \in S : b = m - l
    BY <1>2
  <1>4. ASSUME NEW x \in S PROVE x <= b
    <2>1. m - x \in Nat /\ m - (m - x) = x
      OBVIOUS
    <2>2. m - x \in D
      BY <2>1
    <2>3. l <= m - x
      BY <1>2, <2>2
    <2>. QED  BY <1>2, <1>3, <2>1, <2>3
  <1>. QED  BY <1>3, <1>4 DEF Max

-----------------------------------------------------------------------------
(* A text that grows by copies of what is in it from a place on.           *)
Grows(text, from, n, g) ==
    /\ g \in [0..n -> Seq(Bytes)] /\ g[0] = text
    /\ \A i \in 1..n : g[i] = Append(g[i - 1], g[i - 1][from + i - 1])
    /\ \A i \in 0..n : Len(g[i]) = Len(text) + i

LEMMA RepeatedGrows ==
    ASSUME NEW text \in Seq(Bytes), NEW from \in 1..Len(text), NEW n \in Nat
    PROVE  \E g : Grows(text, from, n, g) /\ Repeated(text, from, n) = g[n]
  <1> DEFINE To(i, s) == IF from + i - 1 \in 1..Len(s) THEN Append(s, s[from + i - 1]) ELSE s
             grown == CHOOSE f : f = [i \in 0..n |-> IF i = 0 THEN text
                                                ELSE Append(f[i - 1], f[i - 1][from + i - 1])]
  <1>0. PICK m \in Nat : m = Len(text) /\ from \in Nat /\ from >= 1 /\ from <= m
    BY LenProperties
  <1>1. ASSUME NEW i \in Nat, NEW s \in Seq(Bytes) PROVE To(i, s) \in Seq(Bytes)
    <2>1. CASE from + i - 1 \in 1..Len(s)
      <3>1. s[from + i - 1] \in Bytes
        BY <2>1, ElementOfSeq
      <3>2. Append(s, s[from + i - 1]) \in Seq(Bytes)
        BY <3>1, AppendProperties
      <3>. QED  BY <2>1, <3>2
    <2>2. CASE from + i - 1 \notin 1..Len(s)
      BY <2>2
    <2>. QED  BY <2>1, <2>2
  <1> HIDE DEF To
  <1>2. PICK step \in [Nat -> [Seq(Bytes) -> Seq(Bytes)]] :
           step = [i \in Nat |-> [s \in Seq(Bytes) |-> To(i, s)]]
    BY <1>1
  <1>3. PICK g \in [0..n -> Seq(Bytes)] : IsRecursion(g, text, step, n)
    BY RecursionExists
  <1>4. \A i \in 0..n : g[i] = IF i = 0 THEN text ELSE step[i][g[i - 1]]
    BY <1>3 DEF IsRecursion
  <1>5. g[0] = text
    <2>1. 0 \in 0..n
      OBVIOUS
    <2>. QED  BY <1>4, <2>1
  <1> DEFINE Fine(i) == i <= n => /\ Len(g[i]) = m + i
                                  /\ i # 0 => g[i] = Append(g[i - 1], g[i - 1][from + i - 1])
             Good == {i \in Nat : Fine(i)}
  <1>6. 0 \in Good
    BY <1>0, <1>5
  <1>7. ASSUME NEW i \in Nat, i \in Good PROVE i + 1 \in Good
    <2> SUFFICES ASSUME i + 1 <= n
                 PROVE  /\ Len(g[i + 1]) = m + (i + 1)
                        /\ g[i + 1] = Append(g[i], g[i][from + (i + 1) - 1])
      OBVIOUS
    <2>1. i \in 0..n /\ i + 1 \in 0..n /\ i + 1 # 0 /\ (i + 1) - 1 = i
      OBVIOUS
    <2>2. PICK s \in Seq(Bytes) : s = g[i] /\ Len(s) = m + i
      BY <1>7, <2>1
    <2>3. g[i + 1] = To(i + 1, s)
      <3>1. g[i + 1] = step[i + 1][g[i]]
        BY <1>4, <2>1
      <3>. QED  BY <1>2, <2>2, <3>1
    <2>4. PICK a \in 1..Len(s) : a = from + (i + 1) - 1
      BY <1>0, <2>2
    <2>5. To(i + 1, s) = Append(s, s[a])
      BY <2>4 DEF To
    <2>6. s[a] \in Bytes
      BY ElementOfSeq
    <2>7. Len(Append(s, s[a])) = Len(s) + 1
      BY <2>6, AppendProperties
    <2>8. Len(g[i + 1]) = m + (i + 1)
      BY <2>2, <2>3, <2>5, <2>7
    <2>. QED  BY <2>2, <2>3, <2>4, <2>5, <2>8
  <1> HIDE DEF Good
  <1>8. \A i \in Nat : i \in Good
    BY <1>6, <1>7, NatInduct
  <1>9. \A i \in 0..n : /\ Len(g[i]) = m + i
                        /\ i # 0 => g[i] = Append(g[i - 1], g[i - 1][from + i - 1])
    <2> SUFFICES ASSUME NEW i \in 0..n
                 PROVE  /\ Len(g[i]) = m + i
                        /\ i # 0 => g[i] = Append(g[i - 1], g[i - 1][from + i - 1])
      OBVIOUS
    <2>1. i \in Nat /\ i <= n
      OBVIOUS
    <2>2. Fine(i)
      BY <1>8, <2>1 DEF Good
    <2>. QED  BY <2>1, <2>2
  <1>10. Grows(text, from, n, g)
    <2>1. \A i \in 1..n : i \in 0..n /\ i # 0
      OBVIOUS
    <2>2. \A i \in 1..n : g[i] = Append(g[i - 1], g[i - 1][from + i - 1])
      BY <1>9, <2>1
    <2>3. \A i \in 0..n : Len(g[i]) = Len(text) + i
      BY <1>0, <1>9
    <2>. QED  BY <1>5, <2>2, <2>3 DEF Grows
  <1>11. \A f : f = [i \in 0..n |-> IF i = 0 THEN text ELSE Append(f[i - 1], f[i - 1][from + i - 1])]
              => f[n] = g[n]
    <2> SUFFICES ASSUME NEW f, f = [i \in 0..n |-> IF i = 0 THEN text
                                                   ELSE Append(f[i - 1], f[i - 1][from + i - 1])]
                 PROVE f[n] = g[n]
      OBVIOUS
    <2> DEFINE Same == {i \in Nat : i <= n => f[i] = g[i]}
    <2>0. \A i \in 0..n : f[i] = IF i = 0 THEN text ELSE Append(f[i - 1], f[i - 1][from + i - 1])
      OBVIOUS
    <2>1. 0 \in Same
      <3>1. 0 \in 0..n
        OBVIOUS
      <3>. QED  BY <1>5, <2>0, <3>1
    <2>2. ASSUME NEW i \in Nat, i \in Same PROVE i + 1 \in Same
      <3> SUFFICES ASSUME i + 1 <= n PROVE f[i + 1] = g[i + 1]
        OBVIOUS
      <3>1. i + 1 \in 0..n /\ i + 1 # 0 /\ (i + 1) - 1 = i /\ f[i] = g[i]
        BY <2>2
      <3>2. f[i + 1] = Append(f[i], f[i][from + (i + 1) - 1])
        BY <2>0, <3>1
      <3>3. g[i + 1] = Append(g[i], g[i][from + (i + 1) - 1])
        BY <1>9, <3>1
      <3>. QED  BY <3>1, <3>2, <3>3
    <2> HIDE DEF Same
    <2>3. \A i \in Nat : i \in Same
      BY <2>1, <2>2, NatInduct
    <2>4. n \in Same /\ n <= n
      BY <2>3
    <2>. QED  BY <2>4 DEF Same
  <1>12. grown = [i \in 0..n |-> IF i = 0 THEN text ELSE Append(grown[i - 1], grown[i - 1][from + i - 1])]
    <2>1. g = [i \in 0..n |-> IF i = 0 THEN text ELSE Append(g[i - 1], g[i - 1][from + i - 1])]
      <3>1. g = [i \in 0..n |-> g[i]]
        OBVIOUS
      <3>2. \A i \in 0..n : g[i] = IF i = 0 THEN text ELSE Append(g[i - 1], g[i - 1][from + i - 1])
        BY <1>5, <1>9
      <3>. QED  BY <3>1, <3>2
    <2>. QED  BY <2>1
  <1>13. Repeated(text, from, n) = grown[n]
    BY DEF Repeated
  <1> HIDE DEF grown
  <1>. QED  BY <1>10, <1>11, <1>12, <1>13

-----------------------------------------------------------------------------
(* The reference, a token at a time. *)
Verdicts == {"open", "ended", "PstFormatError", "PstLimitError"}
Reading == [text : Seq(Bytes), verdict : Verdicts]
Start == [text |-> InitialDictionary, verdict |-> "open"]

After(stream) ==
    CHOOSE f : f = [n \in 0..Len(stream) |-> IF n = 0 THEN Start ELSE DecodeToken(f[n - 1], stream[n])]

LEMMA TokenIs ==
    ASSUME NEW t \in Token
    PROVE  /\ t.kind = "literal" => t.byte \in Bytes
           /\ t.kind # "literal" => t.kind = "reference" /\ t.offset \in Offset /\ t.length \in Nat /\ t.length >= 2
  <1>1. CASE t \in [kind : {"literal"}, byte : Bytes]
    BY <1>1
  <1>2. CASE t \in [kind : {"reference"}, offset : Offset, length : 2..MaxReferenceLength]
    <2>1. t.length \in 2..MaxReferenceLength /\ t.kind = "reference" /\ t.offset \in Offset
      BY <1>2
    <2>. QED  BY <2>1, RtfLimitsAssumption
  <1>. QED  BY <1>1, <1>2 DEF Token

LEMMA LastPlace ==
    ASSUME NEW text \in Seq(Bytes), NEW offset, Places(text, offset) # {}
    PROVE  /\ Max(Places(text, offset)) \in Places(text, offset)
           /\ Max(Places(text, offset)) \in 1..Len(text)
           /\ \A p \in Places(text, offset) : p <= Max(Places(text, offset))
  <1>1. PICK m \in Nat : m = Len(text) /\ DOMAIN text = 1..m
    BY LenProperties
  <1>2. PICK S : S = Places(text, offset)
    OBVIOUS
  <1>3. S \in SUBSET (1..m)
    BY <1>1, <1>2 DEF Places
  <1>4. S \in SUBSET Nat /\ \A x \in S : x <= m
    BY <1>3
  <1>5. PICK e \in S : TRUE
    BY <1>2
  <1>6. Max(S) \in S /\ \A x \in S : x <= Max(S)
    BY <1>4, <1>5, MaxProperties
  <1>. QED  BY <1>1, <1>2, <1>3, <1>6

LEMMA DecodeTokenType ==
    ASSUME NEW d \in Reading, NEW t \in Token
    PROVE  DecodeToken(d, t) \in Reading
  <1>1. d.text \in Seq(Bytes) /\ d.verdict \in Verdicts
    BY DEF Reading
  <1>2. ASSUME NEW v \in Verdicts PROVE [d EXCEPT !.verdict = v] \in Reading
    BY DEF Reading
  <1>3. ASSUME NEW x \in Seq(Bytes) PROVE [d EXCEPT !.text = x] \in Reading
    BY DEF Reading
  <1>4. ASSUME t.kind = "literal" PROVE Append(d.text, t.byte) \in Seq(Bytes)
    <2>1. t.byte \in Bytes
      BY <1>4, TokenIs
    <2>. QED  BY <1>1, <2>1, AppendProperties
  <1>5. ASSUME t.kind # "literal", Places(d.text, t.offset) # {}
        PROVE  Repeated(d.text, Max(Places(d.text, t.offset)), t.length) \in Seq(Bytes)
    <2>1. PICK x \in Seq(Bytes), n \in Nat : x = d.text /\ n = t.length
      BY <1>1, <1>5, TokenIs
    <2>2. PICK from \in 1..Len(x) : from = Max(Places(d.text, t.offset))
      BY <1>5, <2>1, LastPlace
    <2>3. PICK g : Grows(x, from, n, g) /\ Repeated(x, from, n) = g[n]
      BY RepeatedGrows
    <2>4. n \in 0..n /\ g \in [0..n -> Seq(Bytes)]
      BY <2>3 DEF Grows
    <2>. QED  BY <2>1, <2>2, <2>3, <2>4
  <1>6. {"ended", "PstFormatError", "PstLimitError"} \subseteq Verdicts
    BY DEF Verdicts
  <1>. QED  BY <1>2, <1>3, <1>4, <1>5, <1>6 DEF DecodeToken

LEMMA AfterIs ==
    ASSUME NEW stream \in Seq(Token)
    PROVE  /\ After(stream) \in [0..Len(stream) -> Reading]
           /\ After(stream)[0] = Start
           /\ \A n \in 1..Len(stream) : After(stream)[n] = DecodeToken(After(stream)[n - 1], stream[n])
           /\ Decoded(stream) = After(stream)[Len(stream)]
  <1> DEFINE To(n, d) == IF n \in 1..Len(stream) THEN DecodeToken(d, stream[n]) ELSE d
             Is(f) == f = [n \in 0..Len(stream) |-> IF n = 0 THEN Start ELSE DecodeToken(f[n - 1], stream[n])]
  <1>0. Len(stream) \in Nat /\ \A n \in 1..Len(stream) : stream[n] \in Token
    BY LenProperties, ElementOfSeq
  <1>1. Start \in Reading
    BY DictionaryAssumption DEF Start, Reading, Verdicts
  <1>2. ASSUME NEW n \in Nat, NEW d \in Reading PROVE To(n, d) \in Reading
    BY <1>0, DecodeTokenType
  <1> HIDE DEF To
  <1>3. PICK step \in [Nat -> [Reading -> Reading]] : step = [n \in Nat |-> [d \in Reading |-> To(n, d)]]
    BY <1>2
  <1>4. PICK f \in [0..Len(stream) -> Reading] : IsRecursion(f, Start, step, Len(stream))
    BY <1>0, <1>1, RecursionExists
  <1>5. \A n \in 0..Len(stream) : f[n] = IF n = 0 THEN Start ELSE step[n][f[n - 1]]
    BY <1>4 DEF IsRecursion
  <1>6. \A n \in 0..Len(stream) : f[n] = IF n = 0 THEN Start ELSE DecodeToken(f[n - 1], stream[n])
    <2> SUFFICES ASSUME NEW n \in 0..Len(stream), n # 0
                 PROVE f[n] = DecodeToken(f[n - 1], stream[n])
      BY <1>5
    <2>1. n \in Nat /\ n \in 1..Len(stream) /\ n - 1 \in 0..Len(stream)
      BY <1>0
    <2>2. f[n - 1] \in Reading
      BY <2>1
    <2>3. f[n] = To(n, f[n - 1])
      BY <1>3, <1>5, <2>1, <2>2
    <2>. QED  BY <2>1, <2>3 DEF To
  <1>7. Is(f)
    <2>1. f = [n \in 0..Len(stream) |-> f[n]]
      OBVIOUS
    <2>. QED  BY <1>6, <2>1
  <1>8. After(stream) = CHOOSE g : Is(g)
    BY DEF After
  <1>9. Is(After(stream))
    BY <1>7, <1>8
  <1>10. PICK A : A = After(stream)
    OBVIOUS
  <1>11. \A n \in 0..Len(stream) : A[n] = IF n = 0 THEN Start ELSE DecodeToken(A[n - 1], stream[n])
    BY <1>9, <1>10
  <1>12. DOMAIN A = 0..Len(stream) /\ A = [n \in 0..Len(stream) |-> A[n]]
    BY <1>9, <1>10
  <1>13. \A n \in 0..Len(stream) : A[n] = f[n]
    <2> DEFINE Same == {n \in Nat : n <= Len(stream) => A[n] = f[n]}
    <2>1. 0 \in Same
      <3>1. 0 \in 0..Len(stream)
        BY <1>0
      <3>. QED  BY <1>6, <1>11, <3>1
    <2>2. ASSUME NEW n \in Nat, n \in Same PROVE n + 1 \in Same
      <3> SUFFICES ASSUME n + 1 <= Len(stream) PROVE A[n + 1] = f[n + 1]
        OBVIOUS
      <3>1. n + 1 \in 0..Len(stream) /\ n + 1 # 0 /\ (n + 1) - 1 = n /\ n <= Len(stream)
        BY <1>0
      <3>2. A[n] = f[n]
        BY <2>2, <3>1
      <3>. QED  BY <1>6, <1>11, <3>1, <3>2
    <2> HIDE DEF Same
    <2>3. \A n \in Nat : n \in Same
      BY <2>1, <2>2, NatInduct
    <2>4. \A n \in 0..Len(stream) : n \in Nat /\ n <= Len(stream)
      BY <1>0
    <2>. QED  BY <2>3, <2>4 DEF Same
  <1>14. A \in [0..Len(stream) -> Reading]
    BY <1>12, <1>13
  <1>15. 0 \in 0..Len(stream) /\ \A n \in 1..Len(stream) : n \in 0..Len(stream) /\ n # 0
    BY <1>0
  <1>16. Decoded(stream) = After(stream)[Len(stream)]
    BY DEF Decoded, After, Start
  <1>. QED  BY <1>10, <1>11, <1>14, <1>15, <1>16

(* A verdict stays. *)
LEMMA VerdictStays ==
    ASSUME NEW stream \in Seq(Token), NEW n \in 0..Len(stream), After(stream)[n].verdict # "open"
    PROVE  Decoded(stream) = After(stream)[n]
  <1>0. Len(stream) \in Nat
    BY LenProperties
  <1>1. PICK A, m : A = After(stream) /\ m = Len(stream) /\ m \in Nat
    BY <1>0
  <1>2. \A i \in 1..m : A[i] = DecodeToken(A[i - 1], stream[i])
    BY <1>1, AfterIs
  <1>3. n \in 0..m /\ n \in Nat /\ n <= m
    BY <1>1
  <1> DEFINE Good == {i \in Nat : n + i <= m => A[n + i] = A[n]}
  <1>4. 0 \in Good
    BY <1>3
  <1>5. ASSUME NEW i \in Nat, i \in Good PROVE i + 1 \in Good
    <2> SUFFICES ASSUME n + (i + 1) <= m PROVE A[n + (i + 1)] = A[n]
      OBVIOUS
    <2>0. n + (i + 1) \in 1..m /\ (n + (i + 1)) - 1 = n + i /\ n + i <= m
      BY <1>1, <1>3
    <2>1. PICK j \in 1..m : j = n + (i + 1) /\ j - 1 = n + i /\ n + i <= m
      BY <2>0
    <2>2. A[j] = DecodeToken(A[j - 1], stream[j]) /\ A[j - 1] = A[n]
      BY <1>2, <1>5, <2>1
    <2>3. DecodeToken(A[n], stream[j]) = A[n]
      BY <1>1 DEF DecodeToken
    <2>. QED  BY <2>1, <2>2, <2>3
  <1> HIDE DEF Good
  <1>6. \A i \in Nat : i \in Good
    BY <1>4, <1>5, NatInduct
  <1>7. m - n \in Good /\ m - n \in Nat /\ n + (m - n) = m
    <2>1. m - n \in Nat /\ n + (m - n) = m
      BY <1>1, <1>3
    <2>. QED  BY <1>6, <2>1
  <1>8. A[m] = A[n]
    <2>1. n + (m - n) <= m => A[n + (m - n)] = A[n]
      BY <1>7 DEF Good
    <2>. QED  BY <1>3, <1>7, <2>1
  <1>. QED  BY <1>1, <1>8, AfterIs

-----------------------------------------------------------------------------
(* Offsets of the ring are places of the text, modulo its size.            *)
OffsetsHold ==
    /\ write = Len(History) % DictionarySize
    /\ \A k \in 1..end : Back(k) = (Len(History) - k) % DictionarySize

LEMMA OffsetsInit == RtfInit => OffsetsHold
  <1> SUFFICES ASSUME RtfInit PROVE OffsetsHold
    OBVIOUS
  <1>1. PICK m \in Nat, n \in Nat \ {0} : /\ m = Len(InitialDictionary) /\ n = DictionarySize /\ m < n
                                          /\ write = m /\ end = m
    BY DictionaryAssumption, LenProperties DEF RtfInit, RtfStarts
  <1>2. Len(History) = m
    BY <1>1, DictionaryAssumption DEF RtfInit, RtfStarts, History
  <1>3. m % n = m
    <2>1. m \in 0..(n - 1)
      BY <1>1
    <2>. QED  BY <2>1, RemainderSmall
  <1>4. ASSUME NEW k \in 1..m PROVE Back(k) = (m - k) % n
    <2>0. m - k \in 0..(n - 1)
      BY <1>1
    <2>1. PICK x \in 0..(n - 1) : x = m - k
      BY <2>0
    <2>2. x % n = x
      BY RemainderSmall
    <2>3. Back(k) = m - k
      BY <1>1 DEF Back
    <2>. QED  BY <2>1, <2>2, <2>3
  <1>. QED  BY <1>1, <1>2, <1>3, <1>4 DEF OffsetsHold

LEMMA EmitKeepsOffsets ==
    ASSUME RtfTypeOK, end = Filled, OffsetsHold, NEW byte \in Bytes, Emit(byte)
    PROVE  OffsetsHold'
  <1>1. PICK n \in Nat \ {0}, w \in Nat, e \in Nat, l \in Nat :
           /\ n = DictionarySize /\ w = write /\ w < n /\ e = end /\ e <= n /\ l = Len(History) /\ e <= l
    <2>1. /\ DictionarySize \in Nat \ {0} /\ write \in Nat /\ write < DictionarySize
          /\ end \in Nat /\ end <= DictionarySize
      BY DictionaryAssumption DEF RtfTypeOK, Offset
    <2>2. Len(History) \in Nat
      BY HistoryType, LenProperties
    <2>3. end <= Len(History)
      BY <2>1, <2>2 DEF Filled
    <2>. QED  BY <2>1, <2>2, <2>3
  <1>2. Len(History') = l + 1
    <2>1. History' = Append(History, byte)
      BY DictionaryAssumption DEF RtfTypeOK, History, Emit
    <2>. QED  BY <1>1, <2>1, HistoryType, AppendProperties
  <1>3. write' = IF w + 1 = n THEN 0 ELSE w + 1
    BY <1>1, WrapNext DEF Emit, RtfTypeOK
  <1>4. write' = (l + 1) % n
    <2>1. (l + 1) % n = IF (l % n) + 1 = n THEN 0 ELSE (l % n) + 1
      BY RemainderNext
    <2>2. w = l % n
      BY <1>1 DEF OffsetsHold
    <2>. QED  BY <1>3, <2>1, <2>2
  <1>5. end' \in Nat /\ end' <= n /\ end' <= e + 1
    BY <1>1 DEF Emit
  <1>6. ASSUME NEW k \in 1..end' PROVE Back(k)' = ((l + 1) - k) % n
    <2>1. CASE k = 1
      <3>1. Back(k)' = w
        BY <1>1, <1>3, <2>1 DEF Back
      <3>2. (l + 1) - k = l
        BY <2>1
      <3>3. w = l % n
        BY <1>1 DEF OffsetsHold
      <3>. QED  BY <3>1, <3>2, <3>3
    <2>2. CASE k # 1
      <3>1. k - 1 \in 1..e /\ k \in Nat /\ k <= n
        BY <1>1, <1>5, <2>2
      <3>2. Back(k)' = Back(k - 1)
        BY <1>1, <1>3, <3>1 DEF Back
      <3>3. Back(k - 1) = (l - (k - 1)) % n
        BY <1>1, <3>1 DEF OffsetsHold
      <3>4. l - (k - 1) = (l + 1) - k
        BY <3>1
      <3>. QED  BY <3>2, <3>3, <3>4
    <2>. QED  BY <2>1, <2>2
  <1>. QED  BY <1>1, <1>2, <1>4, <1>6 DEF OffsetsHold

(* The last place of an offset that was written. *)
LEMMA PlaceOfOffset ==
    ASSUME RtfTypeOK, end = Filled, OffsetsHold, NEW k \in 1..end
    PROVE  /\ Places(History, Back(k)) # {}
           /\ Max(Places(History, Back(k))) = Len(History) + 1 - k
           /\ Len(History) + 1 - k \in 1..Len(History)
  <1>1. PICK n \in Nat \ {0}, w \in Nat, e \in Nat, l \in Nat :
           /\ n = DictionarySize /\ w = write /\ w < n /\ e = end /\ e <= n /\ l = Len(History) /\ e <= l
           /\ DOMAIN History = 1..l
    <2>1. /\ DictionarySize \in Nat \ {0} /\ write \in Nat /\ write < DictionarySize
          /\ end \in Nat /\ end <= DictionarySize
      BY DictionaryAssumption DEF RtfTypeOK, Offset
    <2>2. Len(History) \in Nat
      BY HistoryType, LenProperties
    <2>3. end <= Len(History)
      BY <2>1, <2>2 DEF Filled
    <2>4. DOMAIN History = 1..Len(History)
      BY HistoryType, LenProperties
    <2>. QED  BY <2>1, <2>2, <2>3, <2>4
  <1>2. PICK p \in 1..l : p = l + 1 - k
    BY <1>1, SMTT(30)
  <1>3. \A j \in 1..e : Back(j) = (l - j) % n
    BY <1>1 DEF OffsetsHold
  <1>4. PICK S : S = Places(History, Back(k)) /\ S = {q \in 1..l : (q - 1) % n = Back(k)}
    BY <1>1 DEF Places
  <1>5. p \in S
    <2>1. p - 1 = l - k
      BY <1>2
    <2>. QED  BY <1>1, <1>2, <1>3, <1>4, <2>1
  <1>6. ASSUME NEW q \in S, p < q PROVE FALSE
    <2>0. q \in 1..l /\ k \in 1..e /\ l + 1 - k < q
      BY <1>1, <1>2, <1>4, <1>6
    <2>1. PICK j \in Nat : j = l + 1 - q
      BY <2>0
    <2>3. j \in 1..e /\ j < k /\ q - 1 = l - j
      BY <2>0, <2>1
    <2>2. Back(j) = Back(k)
      BY <1>3, <1>4, <2>3
    <2>. QED  BY <1>1, <2>0, <2>3, <2>2 DEF Back
  <1>7. \A q \in S : q <= p
    BY <1>4, <1>6
  <1>8. Max(S) = p
    <2>1. S \in SUBSET Nat /\ \A q \in S : q <= l
      BY <1>4
    <2>2. Max(S) \in S /\ \A q \in S : q <= Max(S)
      BY <1>5, <2>1, MaxProperties
    <2>3. Max(S) <= p /\ p <= Max(S) /\ Max(S) \in Nat
      BY <1>5, <1>7, <2>1, <2>2
    <2>. QED  BY <2>3
  <1>. QED  BY <1>1, <1>2, <1>4, <1>5, <1>8

LEMMA NoPlace ==
    ASSUME RtfTypeOK, end = Filled, NEW o \in Offset, o >= end
    PROVE  Places(History, o) = {}
  <1>1. PICK n \in Nat \ {0}, l \in Nat :
           /\ n = DictionarySize /\ l = Len(History) /\ DOMAIN History = 1..l
           /\ end = IF l < n THEN l ELSE n
    <2>1. DictionarySize \in Nat \ {0}
      BY DictionaryAssumption
    <2>2. Len(History) \in Nat /\ DOMAIN History = 1..Len(History)
      BY HistoryType, LenProperties
    <2>. QED  BY <2>1, <2>2 DEF Filled
  <1>2. o \in 0..(n - 1) /\ l < n /\ l <= o
    BY <1>1 DEF Offset
  <1>3. ASSUME NEW p \in 1..l PROVE (p - 1) % n # o
    <2>1. PICK x \in 0..(n - 1) : x = p - 1 /\ x < o
      BY <1>2
    <2>2. x % n = x
      BY RemainderSmall
    <2>. QED  BY <1>2, <2>1, <2>2
  <1>. QED  BY <1>1, <1>3 DEF Places

-----------------------------------------------------------------------------
(* What the next token makes of the text so far.                           *)
OpenText(x) == [text |-> x, verdict |-> "open"]

LEMMA TokenTaken ==
    ASSUME RtfTypeOK, end = Filled, WriteAtEnd, OffsetsHold, pos < Len(tokens)
    PROVE  /\ Token1 \in Token
           /\ TokenRefusal # NoError =>
                 /\ TokenRefusal \in {"PstFormatError", "PstLimitError"}
                 /\ DecodeToken(OpenText(History), Token1) = [text |-> History, verdict |-> TokenRefusal]
           /\ TokenRefusal = NoError /\ Token1.kind = "literal" =>
                 DecodeToken(OpenText(History), Token1) = OpenText(Append(History, Token1.byte))
           /\ Token1.kind = "reference" /\ IsTerminator(Token1.offset) =>
                 DecodeToken(OpenText(History), Token1) = [text |-> History, verdict |-> "ended"]
           /\ TokenRefusal = NoError /\ Token1.kind = "reference" /\ ~IsTerminator(Token1.offset) =>
                 \E k \in 1..end :
                    /\ Token1.offset = Back(k) /\ Len(History) + 1 - k \in 1..Len(History)
                    /\ DecodeToken(OpenText(History), Token1)
                         = OpenText(Repeated(History, Len(History) + 1 - k, Token1.length))
  <1>1. PICK t \in Token : t = Token1
    <2>1. pos + 1 \in 1..Len(tokens) /\ tokens \in Seq(Token)
      BY LenProperties DEF RtfTypeOK
    <2>. QED  BY <2>1, ElementOfSeq DEF Token1
  <1>2. PICK h \in Seq(Bytes) : h = History
    BY HistoryType
  <1>3. PICK b \in Nat, i \in Nat : /\ b = Len(output) /\ i = Len(InitialDictionary) /\ Len(h) = i + b
    BY <1>2, HistoryType, DictionaryAssumption, LenProperties DEF RtfTypeOK
  <1>4. \A n \in Nat : Room(h, n) <=> b + n <= MaxOutput
    BY <1>3 DEF Room
  <1>5. /\ OpenText(h).text = h /\ OpenText(h).verdict = "open" 
        /\ \A v : [OpenText(h) EXCEPT !.verdict = v] = [text |-> h, verdict |-> v]
        /\ \A x : [OpenText(h) EXCEPT !.text = x] = OpenText(x)
    BY DEF OpenText
  <1>6. pos # Len(tokens)
    BY LenProperties DEF RtfTypeOK
  <1>7. CASE t.kind = "literal"
    <2>1. DecodeToken(OpenText(h), t) = IF Room(h, 1) THEN OpenText(Append(h, t.byte))
                                        ELSE [text |-> h, verdict |-> "PstLimitError"]
      BY <1>5, <1>7 DEF DecodeToken
    <2>2. TokenRefusal = IF b >= MaxOutput THEN "PstLimitError" ELSE NoError
      BY <1>1, <1>3, <1>6, <1>7 DEF TokenRefusal
    <2>3. Room(h, 1) <=> ~(b >= MaxOutput)
      <3>1. Room(h, 1) <=> b + 1 <= MaxOutput
        BY <1>4
      <3>. QED  BY <3>1, RtfLimitsAssumption
    <2>. QED  BY <1>1, <1>2, <1>7, <2>1, <2>2, <2>3 DEF NoError
  <1>8. CASE t.kind # "literal"
    <2>1. t.kind = "reference" /\ t.offset \in Offset /\ t.length \in Nat
      BY <1>8, TokenIs
    <2>2. DecodeToken(OpenText(h), t) =
             IF t.offset = Len(h) % DictionarySize THEN [text |-> h, verdict |-> "ended"]
             ELSE IF Places(h, t.offset) = {} THEN [text |-> h, verdict |-> "PstFormatError"]
             ELSE IF ~Room(h, t.length) THEN [text |-> h, verdict |-> "PstLimitError"]
             ELSE OpenText(Repeated(h, Max(Places(h, t.offset)), t.length))
      BY <1>5, <1>8 DEF DecodeToken
    <2>3. IsTerminator(t.offset) <=> t.offset = Len(h) % DictionarySize
      BY <1>2 DEF IsTerminator, OffsetsHold
    <2>4. TokenRefusal = IF IsTerminator(t.offset) THEN NoError
                         ELSE IF t.offset >= end THEN "PstFormatError"
                         ELSE IF b + t.length > MaxOutput THEN "PstLimitError"
                         ELSE NoError
      BY <1>1, <1>3, <1>6, <1>8 DEF TokenRefusal, Exceeds
    <2>5. CASE IsTerminator(t.offset)
      BY <1>1, <1>2, <1>8, <2>2, <2>3, <2>4, <2>5
    <2>6. CASE ~IsTerminator(t.offset) /\ t.offset >= end
      <3>1. Places(h, t.offset) = {}
        BY <1>2, <2>1, <2>6, NoPlace
      <3>. QED  BY <1>1, <1>2, <1>8, <2>1, <2>2, <2>3, <2>4, <2>6, <3>1 DEF NoError
    <2>7. CASE ~IsTerminator(t.offset) /\ ~(t.offset >= end)
      <3>1. t.offset < end /\ t.offset # write
        <4>1. t.offset \in Nat /\ end \in Nat
          BY <2>1, DictionaryAssumption DEF RtfTypeOK, Offset
        <4>. QED  BY <2>7, <4>1 DEF IsTerminator
      <3>2. PICK k \in 1..end : t.offset = Back(k)
        BY <2>1, <3>1, OffsetIsBack
      <3>3. /\ Places(h, t.offset) # {} /\ Max(Places(h, t.offset)) = Len(h) + 1 - k
            /\ Len(h) + 1 - k \in 1..Len(h)
        BY <1>2, <3>2, PlaceOfOffset
      <3>4. Room(h, t.length) <=> ~(b + t.length > MaxOutput)
        <4>1. PICK n \in Nat : n = t.length
          BY <2>1
        <4>2. Room(h, n) <=> b + n <= MaxOutput
          BY <1>4
        <4>. QED  BY <4>1, <4>2, RtfLimitsAssumption
      <3>5. CASE Room(h, t.length)
        BY <1>1, <1>2, <1>8, <2>1, <2>2, <2>3, <2>4, <2>7, <3>2, <3>3, <3>4, <3>5 DEF NoError
      <3>6. CASE ~Room(h, t.length)
        BY <1>1, <1>2, <1>8, <2>1, <2>2, <2>3, <2>4, <2>7, <3>2, <3>3, <3>4, <3>6 DEF NoError
      <3>. QED  BY <3>5, <3>6
    <2>. QED  BY <2>5, <2>6, <2>7
  <1>. QED  BY <1>7, <1>8

-----------------------------------------------------------------------------
(* The decoder beside the reference: at a token both have the same text;   *)
(* in a copy the decoder is some bytes into what the reference has copied; *)
(* at an end both have the same text and the same verdict.                 *)
Copying ==
    \E text \in Seq(Bytes), n \in Nat : \E from \in 1..Len(text) : \E g :
        /\ Grows(text, from, n, g)
        /\ left \in 1..n /\ History = g[n - left]
        /\ After(tokens)[pos] = OpenText(g[n])
        /\ Len(text) + 1 - from \in 1..end /\ read = Back(Len(text) + 1 - from)

Halted ==
    \/ pos = Len(tokens) /\ After(tokens)[pos] = OpenText(History) /\ refusal = "PstFormatError"
    \/ /\ pos < Len(tokens) /\ refusal \in {"PstFormatError", "PstLimitError"}
       /\ After(tokens)[pos + 1] = [text |-> History, verdict |-> refusal]

DecodeInv ==
    header.kind = "LZFu" /\ HeaderRefusal = NoError =>
        /\ OffsetsHold
        /\ pc = "header" => pos = 0 /\ output = <<>>
        /\ pc = "token" => After(tokens)[pos] = OpenText(History)
        /\ pc = "copy" => Copying
        /\ pc = "returned" => After(tokens)[pos] = [text |-> History, verdict |-> "ended"]
        /\ pc = "refused" => Halted

LEMMA DecodeInit == RtfInit => DecodeInv
  <1> SUFFICES ASSUME RtfInit PROVE DecodeInv
    OBVIOUS
  <1>1. pc = "header" /\ pos = 0 /\ output = <<>>
    BY DEF RtfInit, RtfStarts
  <1>. QED  BY <1>1, OffsetsInit DEF DecodeInv

(* A byte more of a copy. *)
LEMMA CopyGoesOn ==
    ASSUME RtfTypeOK, RingInv, header.kind = "LZFu", Copying, CopyByte
    PROVE  /\ left' > 0 => Copying'
           /\ left' = 0 => After(tokens)[pos] = OpenText(History')
  <1>1. PICK text \in Seq(Bytes), n \in Nat : \E from \in 1..Len(text) : \E g :
           /\ Grows(text, from, n, g)
           /\ left \in 1..n /\ History = g[n - left]
           /\ After(tokens)[pos] = OpenText(g[n])
           /\ Len(text) + 1 - from \in 1..end /\ read = Back(Len(text) + 1 - from)
    BY DEF Copying
  <1>0. PICK from \in 1..Len(text) : \E g :
           /\ Grows(text, from, n, g)
           /\ left \in 1..n /\ History = g[n - left]
           /\ After(tokens)[pos] = OpenText(g[n])
           /\ Len(text) + 1 - from \in 1..end /\ read = Back(Len(text) + 1 - from)
    BY <1>1
  <1>2. PICK g :
           /\ Grows(text, from, n, g)
           /\ left \in 1..n /\ History = g[n - left]
           /\ After(tokens)[pos] = OpenText(g[n])
           /\ Len(text) + 1 - from \in 1..end /\ read = Back(Len(text) + 1 - from)
    BY <1>0
  <1>3. PICK m \in Nat, i \in 0..n : m = Len(text) /\ i = n - left /\ i + 1 \in 1..n
    <2>1. Len(text) \in Nat /\ n - left \in 0..n /\ (n - left) + 1 \in 1..n
      BY <1>2, LenProperties
    <2>. QED  BY <2>1
  <1>4. PICK k \in 1..end : k = m + 1 - from /\ read = Back(k)
    BY <1>2, <1>3
  <1>5. /\ pc = "copy" /\ Emit(dictionary[read]) /\ read' = Wrap(read + 1) /\ left' = left - 1
        /\ UNCHANGED <<tokens, pos>>
    BY DEF CopyByte, ReadOnly
  <1>6. dictionary[read] \in Bytes
    BY DEF RtfTypeOK
  <1>7. k \in 1..end' /\ read' = Back(k)'
    BY <1>4, <1>5, <1>6, CopyStaysBack
  <1>8. History \in Seq(Bytes) /\ Len(History) = m + i
    BY <1>2, <1>3, HistoryType DEF Grows
  <1>9. dictionary[read] = History[from + i]
    <2>1. dictionary[read] = History[Len(History) + 1 - k]
      BY <1>4 DEF RingInv, RingHolds
    <2>2. Len(History) + 1 - k = from + i
      BY <1>3, <1>4, <1>8
    <2>. QED  BY <2>1, <2>2
  <1>10. History' = Append(History, dictionary[read])
    BY <1>5, DictionaryAssumption DEF RtfTypeOK, History, Emit
  <1>11. History' = g[i + 1]
    <2>1. g[i + 1] = Append(g[(i + 1) - 1], g[(i + 1) - 1][from + (i + 1) - 1])
      BY <1>2, <1>3 DEF Grows
    <2>2. (i + 1) - 1 = i /\ from + (i + 1) - 1 = from + i
      BY <1>3
    <2>. QED  BY <1>2, <1>3, <1>9, <1>10, <2>1, <2>2
  <1>12. left' \in 0..n /\ i + 1 = n - left'
    BY <1>2, <1>3, <1>5
  <1>13. ASSUME left' > 0 PROVE Copying'
    <2>1. left' \in 1..n
      BY <1>12, <1>13
    <2>2. After(tokens')[pos'] = OpenText(g[n])
      BY <1>2, <1>5
    <2>3. /\ Grows(text, from, n, g)
          /\ left' \in 1..n /\ History' = g[n - left']
          /\ After(tokens')[pos'] = OpenText(g[n])
          /\ Len(text) + 1 - from \in 1..end' /\ read' = Back(Len(text) + 1 - from)'
      BY <1>2, <1>3, <1>4, <1>7, <1>11, <1>12, <2>1, <2>2
    <2>. QED  BY <2>3 DEF Copying
  <1>14. ASSUME left' = 0 PROVE After(tokens)[pos] = OpenText(History')
    <2>1. i + 1 = n
      BY <1>12, <1>14
    <2>. QED  BY <1>2, <1>11, <2>1
  <1>. QED  BY <1>13, <1>14

(* The start of one. *)
LEMMA CopyBegins ==
    ASSUME RtfTypeOK, RingInv, OffsetsHold, header.kind = "LZFu",
           After(tokens)[pos] = OpenText(History), Reference
    PROVE  Copying'
  <1>1. /\ pos < Len(tokens) /\ TokenRefusal = NoError /\ Token1.kind = "reference"
        /\ ~IsTerminator(Token1.offset) /\ pos' = pos + 1 /\ read' = Token1.offset /\ left' = Token1.length
        /\ UNCHANGED <<tokens, dictionary, write, end, output>>
    BY DEF Reference, AtToken, ReadOnly
  <1>2. end = Filled /\ WriteAtEnd
    BY DEF RingInv
  <1>3. Token1 \in Token
    BY <1>1, <1>2, TokenTaken
  <1>4. PICK k \in 1..end :
           /\ Token1.offset = Back(k) /\ Len(History) + 1 - k \in 1..Len(History)
           /\ DecodeToken(OpenText(History), Token1)
                = OpenText(Repeated(History, Len(History) + 1 - k, Token1.length))
    BY <1>1, <1>2, TokenTaken
  <1>5. PICK text \in Seq(Bytes) : text = History
    BY HistoryType
  <1>6. PICK m \in Nat, n \in Nat : m = Len(text) /\ n = Token1.length /\ n >= 1
    <2>1. Token1.length \in Nat /\ Token1.length >= 1
      BY <1>1, <1>3, TokenIs
    <2>2. Len(text) \in Nat
      BY LenProperties
    <2>. QED  BY <2>1, <2>2
  <1>7. PICK from \in 1..Len(text) : from = Len(text) + 1 - k
    BY <1>4, <1>5
  <1>8. PICK g : Grows(text, from, n, g) /\ Repeated(text, from, n) = g[n]
    BY RepeatedGrows
  <1>9. After(tokens)[pos + 1] = OpenText(g[n])
    <2>1. tokens \in Seq(Token) /\ pos + 1 \in 1..Len(tokens) /\ (pos + 1) - 1 = pos
      BY <1>1, LenProperties DEF RtfTypeOK
    <2>2. After(tokens)[pos + 1] = DecodeToken(After(tokens)[(pos + 1) - 1], tokens[pos + 1])
      BY <2>1, AfterIs
    <2>3. After(tokens)[pos + 1] = DecodeToken(OpenText(History), Token1)
      BY <2>1, <2>2 DEF Token1
    <2>. QED  BY <1>4, <1>5, <1>6, <1>7, <1>8, <2>3
  <1>10. History' = text /\ g[0] = text
    BY <1>1, <1>5, <1>8 DEF History, Grows
  <1>11. n - n = 0 /\ n \in 1..n
    BY <1>6
  <1>12. Len(text) + 1 - from = k
    <2>1. k \in Int
      OBVIOUS
    <2>. QED  BY <1>6, <1>7, <2>1
  <1>13. Back(k)' = Back(k)
    BY <1>1 DEF Back
  <1>14. /\ Grows(text, from, n, g)
         /\ left' \in 1..n /\ History' = g[n - left']
         /\ After(tokens')[pos'] = OpenText(g[n])
         /\ Len(text) + 1 - from \in 1..end' /\ read' = Back(Len(text) + 1 - from)'
    <2>1. left' = n
      BY <1>1, <1>6
    <2>2. left' \in 1..n /\ History' = g[n - left']
      BY <1>10, <1>11, <2>1
    <2>3. After(tokens')[pos'] = OpenText(g[n])
      BY <1>1, <1>9
    <2>4. Len(text) + 1 - from \in 1..end'
      BY <1>1, <1>12
    <2>5. read' = Back(Len(text) + 1 - from)'
      BY <1>1, <1>4, <1>12, <1>13
    <2>. QED  BY <1>8, <2>2, <2>3, <2>4, <2>5
  <1>. QED  BY <1>14 DEF Copying

LEMMA DecodeNext == RtfTypeOK /\ RingInv /\ DecodeInv /\ [RtfNext]_rtfvars => DecodeInv'
  <1> SUFFICES ASSUME RtfTypeOK, RingInv, DecodeInv, [RtfNext]_rtfvars,
                      header'.kind = "LZFu", HeaderRefusal' = NoError
               PROVE  /\ OffsetsHold'
                      /\ pc' = "header" => pos' = 0 /\ output' = <<>>
                      /\ pc' = "token" => After(tokens')[pos'] = OpenText(History')
                      /\ pc' = "copy" => Copying'
                      /\ pc' = "returned" => After(tokens')[pos'] = [text |-> History', verdict |-> "ended"]
                      /\ pc' = "refused" => Halted'
    BY DEF DecodeInv
  <1>1. ReadOnly
    BY DEF RtfNext, RefuseHeader, ReturnUncompressed, StartTokens, RefuseToken, Literal, Terminate,
           Reference, CopyByte, ReadOnly, rtfvars
  <1>2. header.kind = "LZFu" /\ HeaderRefusal = NoError /\ tokens' = tokens
    BY <1>1 DEF ReadOnly, HeaderRefusal
  <1>3. /\ OffsetsHold
        /\ pc = "header" => pos = 0 /\ output = <<>>
        /\ pc = "token" => After(tokens)[pos] = OpenText(History)
        /\ pc = "copy" => Copying
        /\ pc = "returned" => After(tokens)[pos] = [text |-> History, verdict |-> "ended"]
        /\ pc = "refused" => Halted
    BY <1>2 DEF DecodeInv
  <1>4. end = Filled /\ WriteAtEnd /\ tokens \in Seq(Token) /\ Len(tokens) \in Nat /\ pos \in 0..Len(tokens)
    BY <1>2, LenProperties DEF RingInv, RtfTypeOK
  <1>5. ASSUME UNCHANGED <<dictionary, write, end, output>>
        PROVE  OffsetsHold' /\ History' = History
    BY <1>3, <1>5 DEF OffsetsHold, History, Back
  <1>6. ASSUME pc = "token", pos < Len(tokens)
        PROVE  After(tokens)[pos + 1] = DecodeToken(OpenText(History), Token1)
    <2>1. pos + 1 \in 1..Len(tokens) /\ (pos + 1) - 1 = pos
      BY <1>4, <1>6
    <2>2. After(tokens)[pos + 1] = DecodeToken(After(tokens)[(pos + 1) - 1], tokens[pos + 1])
      BY <1>4, <2>1, AfterIs
    <2>. QED  BY <1>3, <1>6, <2>1, <2>2 DEF Token1
  <1>7. CASE RefuseHeader \/ ReturnUncompressed
    BY <1>2, <1>7 DEF RefuseHeader, ReturnUncompressed
  <1>8. CASE StartTokens
    <2>1. pc' = "token" /\ UNCHANGED <<pos, dictionary, write, end, output>> /\ pos = 0 /\ output = <<>>
      BY <1>3, <1>8 DEF StartTokens, decoder
    <2>2. History = InitialDictionary
      BY <2>1, DictionaryAssumption, ConcatEmptySeq DEF History
    <2>3. After(tokens)[0] = OpenText(InitialDictionary)
      BY <1>4, AfterIs DEF OpenText, Start
    <2>. QED  BY <1>2, <1>5, <2>1, <2>2, <2>3
  <1>9. CASE RefuseToken
    <2>1. /\ pc = "token" /\ TokenRefusal # NoError /\ pc' = "refused" /\ refusal' = TokenRefusal
          /\ UNCHANGED <<pos, dictionary, write, end, output>>
      BY <1>9 DEF RefuseToken, RefuseWith, decoder
    <2>2. OffsetsHold' /\ History' = History
      BY <1>5, <2>1
    <2>3. CASE pos = Len(tokens)
      <3>1. TokenRefusal = "PstFormatError"
        BY <2>3 DEF TokenRefusal
      <3>. QED  BY <1>2, <1>3, <2>1, <2>2, <2>3, <3>1 DEF Halted
    <2>4. CASE pos < Len(tokens)
      <3>1. /\ TokenRefusal \in {"PstFormatError", "PstLimitError"}
            /\ DecodeToken(OpenText(History), Token1) = [text |-> History, verdict |-> TokenRefusal]
        BY <1>3, <1>4, <2>1, <2>4, TokenTaken
      <3>2. After(tokens)[pos + 1] = [text |-> History, verdict |-> TokenRefusal]
        BY <1>6, <2>1, <2>4, <3>1
      <3>. QED  BY <1>2, <2>1, <2>2, <2>4, <3>1, <3>2 DEF Halted
    <2>. QED  BY <1>4, <2>3, <2>4
  <1>10. CASE Literal
    <2>1. /\ pc = "token" /\ pos < Len(tokens) /\ TokenRefusal = NoError /\ Token1.kind = "literal"
          /\ pos' = pos + 1 /\ Emit(Token1.byte) /\ pc' = pc
      BY <1>10 DEF Literal, AtToken
    <2>2. /\ Token1 \in Token
          /\ DecodeToken(OpenText(History), Token1) = OpenText(Append(History, Token1.byte))
      BY <1>3, <1>4, <2>1, TokenTaken
    <2>3. Token1.byte \in Bytes
      BY <2>1, <2>2, TokenIs
    <2>4. OffsetsHold'
      BY <1>3, <1>4, <2>1, <2>3, EmitKeepsOffsets
    <2>5. History' = Append(History, Token1.byte)
      BY <2>1, <2>3, DictionaryAssumption DEF RtfTypeOK, History, Emit
    <2>. QED  BY <1>2, <1>6, <2>1, <2>2, <2>4, <2>5
  <1>11. CASE Terminate
    <2>1. /\ pc = "token" /\ pos < Len(tokens) /\ Token1.kind = "reference" /\ IsTerminator(Token1.offset)
          /\ pos' = pos + 1 /\ pc' = "returned" /\ UNCHANGED <<dictionary, write, end, output>>
      BY <1>11 DEF Terminate, AtToken
    <2>2. DecodeToken(OpenText(History), Token1) = [text |-> History, verdict |-> "ended"]
      BY <1>3, <1>4, <2>1, TokenTaken
    <2>. QED  BY <1>2, <1>5, <1>6, <2>1, <2>2
  <1>12. CASE Reference
    <2>1. pc = "token" /\ pc' = "copy" /\ UNCHANGED <<dictionary, write, end, output>>
      BY <1>12 DEF Reference, AtToken
    <2>2. Copying'
      BY <1>2, <1>3, <1>12, <2>1, CopyBegins
    <2>. QED  BY <1>5, <2>1, <2>2
  <1>13. CASE CopyByte
    <2>1. /\ pc = "copy" /\ Emit(dictionary[read]) /\ pos' = pos /\ left' = left - 1
          /\ pc' = IF left' = 0 THEN "token" ELSE "copy"
      BY <1>13 DEF CopyByte
    <2>2. dictionary[read] \in Bytes /\ left \in Nat /\ left > 0
      BY <2>1 DEF RtfTypeOK
    <2>3. OffsetsHold'
      BY <1>3, <1>4, <2>1, <2>2, EmitKeepsOffsets
    <2>4. /\ left' > 0 => Copying'
          /\ left' = 0 => After(tokens)[pos] = OpenText(History')
      BY <1>2, <1>3, <1>13, <2>1, CopyGoesOn
    <2>5. left' > 0 \/ left' = 0
      BY <2>1, <2>2
    <2>. QED  BY <1>2, <2>1, <2>3, <2>4, <2>5
  <1>14. CASE UNCHANGED rtfvars
    <2>1. UNCHANGED <<pc, pos, dictionary, write, end, output, read, left, refusal, tokens>>
      BY <1>14 DEF rtfvars, decoder
    <2>2. OffsetsHold' /\ History' = History
      BY <1>5, <2>1
    <2>3. Halted => Halted'
      BY <2>1, <2>2 DEF Halted
    <2>4. Copying => Copying'
      BY <2>1, <2>2 DEF Copying, Back
    <2>. QED  BY <1>3, <2>1, <2>2, <2>3, <2>4
  <1>. QED  BY <1>7, <1>8, <1>9, <1>10, <1>11, <1>12, <1>13, <1>14 DEF RtfNext

LEMMA DecodeInvGives ==
    ASSUME RtfTypeOK, DecodeInv
    PROVE  DecodesTokens
  <1> SUFFICES ASSUME header.kind = "LZFu", HeaderRefusal = NoError
               PROVE  /\ pc = "returned" => Decoded(tokens) = [text |-> History, verdict |-> "ended"]
                      /\ pc = "refused" => /\ Decoded(tokens).text = History
                                           /\ refusal = IF Decoded(tokens).verdict = "open"
                                                        THEN "PstFormatError" ELSE Decoded(tokens).verdict
    BY DEF DecodesTokens
  <1>1. tokens \in Seq(Token) /\ Len(tokens) \in Nat /\ pos \in 0..Len(tokens)
    BY LenProperties DEF RtfTypeOK
  <1>2. ASSUME pc = "returned" PROVE Decoded(tokens) = [text |-> History, verdict |-> "ended"]
    <2>1. After(tokens)[pos] = [text |-> History, verdict |-> "ended"]
      BY <1>2 DEF DecodeInv
    <2>2. After(tokens)[pos].verdict # "open"
      BY <2>1
    <2>. QED  BY <1>1, <2>1, <2>2, VerdictStays
  <1>3. ASSUME pc = "refused"
        PROVE  /\ Decoded(tokens).text = History
               /\ refusal = IF Decoded(tokens).verdict = "open"
                            THEN "PstFormatError" ELSE Decoded(tokens).verdict
    <2>1. Halted
      BY <1>3 DEF DecodeInv
    <2>2. CASE pos = Len(tokens) /\ After(tokens)[pos] = OpenText(History) /\ refusal = "PstFormatError"
      <3>1. Decoded(tokens) = OpenText(History)
        BY <1>1, <2>2, AfterIs
      <3>. QED  BY <2>2, <3>1 DEF OpenText
    <2>3. CASE /\ pos < Len(tokens) /\ refusal \in {"PstFormatError", "PstLimitError"}
               /\ After(tokens)[pos + 1] = [text |-> History, verdict |-> refusal]
      <3>1. pos + 1 \in 0..Len(tokens)
        BY <1>1, <2>3
      <3>2. After(tokens)[pos + 1].verdict # "open"
        BY <2>3
      <3>3. Decoded(tokens) = [text |-> History, verdict |-> refusal]
        BY <1>1, <2>3, <3>1, <3>2, VerdictStays
      <3>. QED  BY <2>3, <3>3
    <2>. QED  BY <2>1, <2>2, <2>3 DEF Halted
  <1>. QED  BY <1>2, <1>3

(* For every ring and every stream, the bytes a compressed value decodes   *)
(* to and how decoding ends are those of a decoder that keeps all its text.*)
THEOREM RtfDecodesTokens == RtfSpec => []DecodesTokens
  <1>1. RtfTypeOK /\ DecodeInv => DecodesTokens
    BY DecodeInvGives
  <1>. QED  BY <1>1, TypeInit, TypeNext, RingInit, RingNext, DecodeInit, DecodeNext, PTL DEF RtfSpec

-----------------------------------------------------------------------------
(* Eml.  What the types of the file and of the call give.                  *)
InputInv == file \in Files /\ call \in Calls

Results == Outcome \cup {"ValueError", "TypeError"}

LEMMA EmlInput ==
    ASSUME InputInv
    PROVE  /\ \A m \in Messages : file[m] \in Message
           /\ call \in [message : Messages, depth : Nat, synthesize : BOOLEAN,
                        maxDepth : Nat \ {0}, maxAllocation : Nat \ {0}]
           /\ StoreDepth \in Nat \ {0} /\ MaxAttachments \in Nat \ {0}
BY EmlFilesAssumption, EmlCallsAssumption, EmlLimitsAssumption DEF InputInv

LEMMA MessageParts ==
    ASSUME InputInv, NEW m \in Messages
    PROVE  /\ file[m].nid \in Nids
           /\ \A w \in {"delivered", "stored"} :
                file[m].ids[w].local \in Locals /\ file[m].ids[w].domain \in Domains
                /\ file[m].ids[w] = [local |-> file[m].ids[w].local, domain |-> file[m].ids[w].domain]
           /\ PassedNames(m) = {h.name : h \in ToSet(file[m].transport.list)}
           /\ file[m].transport.kind \in {"headers"} \cup Refusals
           /\ file[m].transport.kind = "headers" => PassedNames(m) \subseteq Names
           /\ file[m].table.kind \in {"rows"} \cup Refusals
           /\ file[m].table.kind = "rows" => Rows(m) \in Seq(Attachment)
<1>1. file[m] \in Message BY EmlInput
<1>0. \A w \in {"delivered", "stored"} : file[m].ids[w] \in [local : Locals, domain : Domains]
  BY <1>1 DEF Message
<1>2. /\ file[m].nid \in Nids
      /\ file[m].transport \in [kind : {"headers"}, list : Seq([name : Names, broken : BOOLEAN])]
                               \cup [kind : Refusals]
      /\ file[m].table \in [kind : {"rows"}, rows : Seq(Attachment)] \cup [kind : Refusals]
  BY <1>1 DEF Message
<1>3. file[m].transport.kind = "headers" =>
        file[m].transport.list \in Seq([name : Names, broken : BOOLEAN])
  BY <1>2 DEF Refusals
<1>4. file[m].table.kind = "rows" => file[m].table.rows \in Seq(Attachment)
  BY <1>2 DEF Refusals
<1>5. file[m].transport.kind = "headers" => PassedNames(m) \subseteq Names
  <2>1. SUFFICES ASSUME file[m].transport.kind = "headers" PROVE PassedNames(m) \subseteq Names
    OBVIOUS
  <2>2. ToSet(file[m].transport.list) \subseteq [name : Names, broken : BOOLEAN]
    <3>1. PICK T : T = [name : Names, broken : BOOLEAN] OBVIOUS
    <3>2. PICK l \in Seq(T) : l = file[m].transport.list BY <1>3, <2>1, <3>1
    <3>3. ToSet(l) \in SUBSET T BY ToSetType
    <3>4. QED BY <3>1, <3>2, <3>3
  <2>3. QED BY <2>2 DEF PassedNames
<1>6. QED BY <1>0, <1>2, <1>4, <1>5 DEF PassedNames, Rows

LEMMA AttachmentParts ==
    ASSUME NEW a \in Attachment
    PROVE  /\ a.opens \in Outcome /\ a.method \in Method \cup Refusals
           /\ a.name \in {"text", "broken"} \cup Refusals /\ a.tags \in Outcome \cup {"multipart"}
           /\ a.data.kind \in {"bytes"} \cup Refusals /\ (a.data.kind = "bytes" => a.data.size \in Nat)
           /\ a.inline \in BOOLEAN /\ a.embeds.node \in Messages \cup Refusals
<1>1. /\ a.data \in [kind : {"bytes"}, size : Nat] \cup [kind : Refusals]
      /\ a.embeds \in [node : Messages] \cup [node : Refusals]
  BY DEF Attachment
<1>2. a.data.kind \in {"bytes"} \cup Refusals /\ (a.data.kind = "bytes" => a.data.size \in Nat)
  BY <1>1 DEF Refusals
<1>3. a.embeds.node \in Messages \cup Refusals BY <1>1
<1>4. QED BY <1>2, <1>3 DEF Attachment

(* Each refusal is one of a class.                                         *)
LEMMA RefusalTypes ==
    ASSUME InputInv, NEW m \in Messages
    PROVE  /\ \A s : HeadersRefusal(m, s) \in Outcome
           /\ BodiesRefusal(m) \in Outcome
           /\ BodiesRefusal(m) = NoError => file[m].table.kind = "rows" /\ Len(Rows(m)) <= MaxAttachments
<1>1. /\ file[m].transport.kind \in {"headers"} \cup Refusals
      /\ file[m].table.kind \in {"rows"} \cup Refusals
      /\ file[m].table.kind = "rows" => Rows(m) \in Seq(Attachment)
  BY MessageParts
<1>2. {"PstFormatError", "PstLimitError", NoError} \subseteq Outcome /\ Refusals \subseteq Outcome
  BY DEF Outcome, Refusals, NoError
<1>3. PassRefusal(m) \in Outcome BY <1>1, <1>2 DEF PassRefusal
<1>4. MakeRefusal(m) \in Outcome
  <2>. DEFINE refused == {i \in DOMAIN MadeOrder :
                             Read(m, MadeOrder[i]) /\ file[m].own[MadeOrder[i]] \in Refusals}
  <2>1. refused # {} => Min(refused) \in refused
    <3>1. DOMAIN MadeOrder \subseteq Nat BY DEF MadeOrder
    <3>2. refused \in SUBSET Nat BY <3>1
    <3>. HIDE DEF refused
    <3>3. QED BY <3>2, MinProperties
  <2>2. refused # {} => file[m].own[MadeOrder[Min(refused)]] \in Refusals
    BY <2>1
  <2>3. MakeRefusal(m) = IF refused # {} THEN file[m].own[MadeOrder[Min(refused)]]
                         ELSE IF \E n \in MadeNames(m) : file[m].own[n] = "broken" THEN "PstFormatError"
                         ELSE NoError
    BY DEF MakeRefusal
  <2>. HIDE DEF refused
  <2>4. QED BY <1>2, <2>2, <2>3
<1>5. BodiesRefusal(m) \in Outcome
      /\ (BodiesRefusal(m) = NoError => file[m].table.kind = "rows" /\ Len(Rows(m)) <= MaxAttachments)
  <2>. DEFINE refused == {i \in DOMAIN Kinds : file[m].body[Kinds[i]] \in Refusals}
  <2>1. refused # {} => Min(refused) \in refused
    <3>1. DOMAIN Kinds \subseteq Nat BY DEF Kinds
    <3>2. refused \in SUBSET Nat BY <3>1
    <3>. HIDE DEF refused
    <3>3. QED BY <3>2, MinProperties
  <2>2. refused # {} => file[m].body[Kinds[Min(refused)]] \in Refusals
    BY <2>1
  <2>3. BodiesRefusal(m) = IF refused # {} THEN file[m].body[Kinds[Min(refused)]]
                           ELSE IF file[m].table.kind # "rows" THEN file[m].table.kind
                           ELSE IF Exceeds(Len(Rows(m)), MaxAttachments) THEN "PstLimitError"
                           ELSE NoError
    BY DEF BodiesRefusal
  <2>. HIDE DEF refused
  <2>4. NoError \notin Refusals /\ "PstLimitError" # NoError BY DEF NoError, Refusals
  <2>5. BodiesRefusal(m) \in Outcome BY <1>1, <1>2, <2>2, <2>3
  <2>6. ASSUME BodiesRefusal(m) = NoError
        PROVE  file[m].table.kind = "rows" /\ Len(Rows(m)) <= MaxAttachments
    <3>1. refused = {} /\ file[m].table.kind = "rows" BY <1>1, <2>2, <2>3, <2>4, <2>6
    <3>2. ~Exceeds(Len(Rows(m)), MaxAttachments) BY <2>3, <2>4, <2>6, <3>1
    <3>3. Len(Rows(m)) \in Nat BY <1>1, <3>1
    <3>4. QED BY <3>1, <3>2, <3>3, EmlLimitsAssumption DEF Exceeds
  <2>7. QED BY <2>5, <2>6
<1>6. QED BY <1>2, <1>3, <1>4, <1>5 DEF HeadersRefusal

(* What an attachment that is not refused is, by its method.               *)
LEMMA AttachmentOutcome ==
    ASSUME NEW a \in Attachment, NEW f
    PROVE  /\ AttachmentRefusal(f, a) \in Results
           /\ AttachmentRefusal(f, a) = NoError =>
                /\ a.method \in Method
                /\ a.method \in CarriesBytes => a.data.kind = "bytes"
                /\ a.method = "EMBEDDED_MESSAGE" =>
                     /\ a.embeds.node \in Messages /\ a.embeds.node \notin Refusals
                     /\ ~Exceeds(f.depth + 1, call.maxDepth) /\ ~Exceeds(f.depth + 1, StoreDepth)
                /\ (a.method \in CarriesBytes /\ GoesInline(f, a) /\ f.htmlRoot) => f.root # "mixed"
<1>1. /\ a.opens \in Outcome /\ a.method \in Method \cup Refusals
      /\ a.name \in {"text", "broken"} \cup Refusals /\ a.tags \in Outcome \cup {"multipart"}
      /\ a.data.kind \in {"bytes"} \cup Refusals
      /\ a.embeds.node \in Messages \cup Refusals
  BY AttachmentParts
<1>2. /\ {"PstFormatError", "PstLimitError", "ValueError", NoError} \subseteq Results
      /\ Refusals \subseteq Results /\ Outcome \subseteq Results
      /\ NoError \notin Refusals
      /\ NoError \notin {"PstFormatError", "PstLimitError", "ValueError", "bytes"}
      /\ "bytes" \notin Refusals
  BY DEF Outcome, Refusals, NoError, Results
<1>3. EmbedRefusal(f, a) \in Results BY <1>1, <1>2 DEF EmbedRefusal
<1>4. EmbedRefusal(f, a) = NoError =>
        /\ a.embeds.node \in Messages /\ a.embeds.node \notin Refusals
        /\ ~Exceeds(f.depth + 1, call.maxDepth) /\ ~Exceeds(f.depth + 1, StoreDepth)
  BY <1>1, <1>2 DEF EmbedRefusal
<1>5. AttachmentRefusal(f, a) \in Results BY <1>1, <1>2, <1>3 DEF AttachmentRefusal
<1>6. ASSUME AttachmentRefusal(f, a) = NoError
      PROVE  /\ a.method \in Method
             /\ a.method = "EMBEDDED_MESSAGE" => EmbedRefusal(f, a) = NoError
             /\ (a.method \in CarriesBytes /\ a.method # "EMBEDDED_MESSAGE") =>
                  /\ a.data.kind = "bytes"
                  /\ ~(GoesInline(f, a) /\ f.htmlRoot /\ f.root = "mixed")
  BY <1>1, <1>2, <1>6 DEF AttachmentRefusal
<1>7. "EMBEDDED_MESSAGE" \notin CarriesBytes BY DEF CarriesBytes
<1>8. QED BY <1>4, <1>5, <1>6, <1>7

-----------------------------------------------------------------------------
(* A frame, whose inner messages are among those of U, and what it has     *)
(* made of its message so far.                                             *)
Stages == {"headers", "bodies", "attachments"}
Roots == {"single", "alternative", "related", "mixed"}
Ids == [local : Locals, domain : Domains \cup {"none"}]
Parts(U) == [index : Nat, eml : {<<>>} \cup {<<x>> : x \in U}]
FramesOf(U) ==
    [message : Messages, depth : Nat, synthesize : BOOLEAN, prefix : Locals,
     stage : Stages, at : Nat, passed : SUBSET Names, made : SUBSET Made, id : Ids,
     root : Roots, htmlRoot : BOOLEAN, hasHtml : BOOLEAN,
     inline : Seq(Nat), attached : Seq(Parts(U)), skipped : Seq(Nat)]

(* The numbers of rows taken, in their order. *)
Numbered(s, n) == /\ s \in Seq(Nat) /\ \A i \in 1..Len(s) : s[i] \in 1..n
                  /\ \A i \in 1..(Len(s) - 1) : s[i] < s[i + 1]
Indices(attached) == [i \in DOMAIN attached |-> attached[i].index]

Taken(f) ==
    /\ Numbered(f.inline, f.at) /\ Numbered(Indices(f.attached), f.at) /\ Numbered(f.skipped, f.at)
    /\ ToSet(f.inline) \cup ToSet(Indices(f.attached)) \cup ToSet(f.skipped) = 1..f.at
    /\ Len(f.inline) + Len(f.attached) + Len(f.skipped) = f.at

Inner(c, x, m) == /\ x.message = m /\ x.depth = c.depth + 1
                  /\ x.synthesize = TRUE /\ x.prefix = ChildPrefix(c)
SkippedRight(f, n) == Rows(f.message)[n].method \in {"BY_REFERENCE", "NONE"}
InlineRight(f, n) == Rows(f.message)[n].inline /\ "html" \in Bodies(f.message)
PartRight(f, p) ==
    LET a == Rows(f.message)[p.index]
    IN IF a.method = "EMBEDDED_MESSAGE"
       THEN p.eml # <<>> /\ Inner(f, p.eml[1], a.embeds.node)
       ELSE p.eml = <<>> /\ a.method \in CarriesBytes
Sorted(f) ==
    /\ \A i \in 1..Len(f.skipped) : SkippedRight(f, f.skipped[i])
    /\ \A i \in 1..Len(f.inline) : InlineRight(f, f.inline[i])
    /\ \A i \in 1..Len(f.attached) : PartRight(f, f.attached[i])

Begun(f) ==
    f.stage # "attachments" => f.at = 0 /\ f.inline = <<>> /\ f.attached = <<>> /\ f.skipped = <<>>
Headed(f) ==
    f.stage # "headers" =>
        /\ HeadersRefusal(f.message, f.synthesize) = NoError
        /\ f.made = IF f.synthesize THEN MadeNames(f.message) ELSE {}
        /\ f.id = Id(f.message, f.made, f.prefix)
HasMixed(f) == \E j \in 1..f.at : IsPart(f.message, Rows(f.message)[j])
Bodied(f) ==
    f.stage = "attachments" =>
        /\ BodiesRefusal(f.message) = NoError
        /\ f.hasHtml = ("html" \in Bodies(f.message)) /\ f.htmlRoot = (Bodies(f.message) = {"html"})
        /\ f.at <= Len(Rows(f.message)) /\ (f.root = "mixed" <=> HasMixed(f))
FrameOK(f) == Begun(f) /\ Headed(f) /\ Bodied(f) /\ Taken(f) /\ Sorted(f)

LEMMA NumberedGrows ==
    ASSUME NEW n \in Nat, NEW s, Numbered(s, n)
    PROVE  /\ Numbered(s, n + 1) /\ Numbered(Append(s, n + 1), n + 1)
           /\ ToSet(Append(s, n + 1)) = ToSet(s) \cup {n + 1}
           /\ Len(Append(s, n + 1)) = Len(s) + 1 /\ Len(s) \in Nat
<1>0. s \in Seq(Nat) /\ Len(s) \in Nat BY DEF Numbered
<1>1. PICK t : t = Append(s, n + 1) OBVIOUS
<1>2. /\ t \in Seq(Nat) /\ Len(t) = Len(s) + 1 /\ t[Len(s) + 1] = n + 1
      /\ \A i \in 1..Len(s) : t[i] = s[i] /\ s[i] \in 1..n
  <2>1. \A i \in 1..Len(s) : s[i] \in 1..n BY DEF Numbered
  <2>2. n + 1 \in Nat OBVIOUS
  <2>3. QED BY <1>0, <1>1, <2>1, <2>2, AppendProperties
<1>3. \A i \in 1..Len(t) : t[i] \in 1..(n + 1)
  <2>1. SUFFICES ASSUME NEW i \in 1..Len(t) PROVE t[i] \in 1..(n + 1) OBVIOUS
  <2>2. CASE i = Len(s) + 1 BY <1>2, <2>2
  <2>3. CASE i # Len(s) + 1
    <3>1. i \in 1..Len(s) BY <1>0, <1>2, <2>3
    <3>2. QED BY <1>2, <3>1
  <2>4. QED BY <2>2, <2>3
<1>4. \A i \in 1..(Len(t) - 1) : t[i] < t[i + 1]
  <2>1. SUFFICES ASSUME NEW i \in 1..(Len(t) - 1) PROVE t[i] < t[i + 1] OBVIOUS
  <2>2. i \in 1..Len(s) BY <1>0, <1>2
  <2>3. CASE i = Len(s) BY <1>2, <2>2, <2>3
  <2>4. CASE i # Len(s)
    <3>1. i \in 1..(Len(s) - 1) /\ i + 1 \in 1..Len(s) BY <1>0, <2>2, <2>4
    <3>2. s[i] < s[i + 1] BY <3>1 DEF Numbered
    <3>3. QED BY <1>2, <2>2, <3>1, <3>2
  <2>5. QED BY <2>3, <2>4
<1>5. Numbered(t, n + 1) BY <1>2, <1>3, <1>4 DEF Numbered
<1>6. Numbered(s, n + 1) BY DEF Numbered
<1>7. ToSet(t) = ToSet(s) \cup {n + 1}
  <2>1. n + 1 \in Nat OBVIOUS
  <2>2. QED BY <1>0, <1>1, <2>1, AppendMembers
<1>8. QED BY <1>0, <1>1, <1>2, <1>5, <1>6, <1>7

LEMMA IndicesAppend ==
    ASSUME NEW U, NEW s \in Seq(Parts(U)), NEW p \in Parts(U)
    PROVE  /\ Indices(Append(s, p)) = Append(Indices(s), p.index)
           /\ Indices(s) \in Seq(Nat) /\ Len(Indices(s)) = Len(s)
<1>1. PICK n \in Nat : n = Len(s) /\ DOMAIN s = 1..n OBVIOUS
<1>2. \A i \in 1..n : s[i].index \in Nat
  <2>1. \A q \in Parts(U) : q.index \in Nat BY DEF Parts
  <2>2. QED BY <1>1, <2>1
<1>3. Indices(s) = [i \in 1..n |-> s[i].index] BY <1>1 DEF Indices
<1>4. Indices(s) \in Seq(Nat) /\ Len(Indices(s)) = n BY <1>2, <1>3
<1>5. PICK t : t = Append(s, p) OBVIOUS
<1>6. /\ t \in Seq(Parts(U)) /\ Len(t) = n + 1 /\ t[n + 1] = p /\ DOMAIN t = 1..(n + 1)
      /\ \A i \in 1..n : t[i] = s[i]
  BY <1>1, <1>5, AppendProperties, LenProperties
<1>7. p.index \in Nat BY DEF Parts
<1>8. PICK r \in Seq(Nat), x \in Nat : r = Indices(s) /\ x = p.index /\ Len(r) = n
  BY <1>4, <1>7
<1>0. PICK e : e = Append(r, x) OBVIOUS
<1>9. e \in Seq(Nat) /\ Len(e) = n + 1 /\ e[n + 1] = x /\ \A i \in 1..n : e[i] = r[i]
  BY <1>0, <1>8, AppendProperties
<1>10. e = [i \in 1..(n + 1) |-> t[i].index]
  <2>1. ASSUME NEW i \in 1..(n + 1) PROVE e[i] = t[i].index
    <3>1. CASE i = n + 1 BY <1>6, <1>8, <1>9, <3>1
    <3>2. CASE i # n + 1
      <4>1. i \in 1..n BY <1>1, <3>2
      <4>2. QED BY <1>3, <1>6, <1>8, <1>9, <4>1
    <3>3. QED BY <3>1, <3>2
  <2>2. e = [i \in 1..(n + 1) |-> e[i]] BY <1>9
  <2>3. QED BY <2>1, <2>2
<1>11. Indices(t) = [i \in 1..(n + 1) |-> t[i].index] BY <1>6 DEF Indices
<1>12. QED BY <1>0, <1>1, <1>4, <1>5, <1>8, <1>10, <1>11

(* One more row is taken.                                                  *)
TakesInline(f, g) == /\ g.inline = Append(f.inline, f.at + 1)
                     /\ g.attached = f.attached /\ g.skipped = f.skipped
TakesSkipped(f, g) == /\ g.skipped = Append(f.skipped, f.at + 1)
                      /\ g.attached = f.attached /\ g.inline = f.inline
TakesPart(f, g, p) == /\ g.attached = Append(f.attached, p) /\ p.index = f.at + 1
                      /\ g.inline = f.inline /\ g.skipped = f.skipped

LEMMA TakenGrows ==
    ASSUME NEW U, NEW f \in FramesOf(U), NEW g, Taken(f), g.at = f.at + 1,
           \/ TakesInline(f, g) \/ TakesSkipped(f, g)
           \/ \E p \in Parts(U) : TakesPart(f, g, p)
    PROVE  Taken(g)
<1>1. PICK n, a, b, c :
        /\ n \in Nat /\ n = f.at /\ a = f.inline /\ b = Indices(f.attached) /\ c = f.skipped
        /\ Numbered(a, n) /\ Numbered(b, n) /\ Numbered(c, n)
        /\ ToSet(a) \cup ToSet(b) \cup ToSet(c) = 1..n
        /\ Len(a) + Len(f.attached) + Len(c) = n
        /\ f.attached \in Seq(Parts(U))
  BY DEF Taken, FramesOf
<1>2. PICK la \in Nat, lb \in Nat, lc \in Nat :
        la = Len(a) /\ lb = Len(f.attached) /\ lc = Len(c) /\ la + lb + lc = n
  <2>1. Len(f.attached) \in Nat BY <1>1
  <2>2. Len(a) \in Nat /\ Len(c) \in Nat BY <1>1, NumberedGrows
  <2>3. QED BY <1>1, <2>1, <2>2
<1>0. la + lb + lc = n BY <1>2
<1>3. 1..(n + 1) = (1..n) \cup {n + 1} BY <1>1
<1>4. \A s : Numbered(s, n) =>
        /\ Numbered(s, n + 1) /\ Numbered(Append(s, n + 1), n + 1)
        /\ ToSet(Append(s, n + 1)) = ToSet(s) \cup {n + 1}
        /\ Len(Append(s, n + 1)) = Len(s) + 1 /\ Len(s) \in Nat
  BY <1>1, NumberedGrows
<1>5. CASE TakesInline(f, g)
  <2>1. g.at = n + 1 /\ g.inline = Append(a, n + 1) /\ Indices(g.attached) = b /\ g.skipped = c
        /\ g.attached = f.attached
    BY <1>1, <1>5 DEF TakesInline
  <2>2. ToSet(Append(a, n + 1)) \cup ToSet(b) \cup ToSet(c) = 1..(n + 1) BY <1>1, <1>3, <1>4
  <2>3. Len(Append(a, n + 1)) + Len(g.attached) + Len(c) = n + 1
    <3>1. Len(Append(a, n + 1)) = la + 1 /\ Len(g.attached) = lb BY <1>1, <1>2, <1>4, <2>1
    <3>2. (la + 1) + lb + lc = n + 1 BY <1>0
    <3>3. QED BY <1>2, <3>1, <3>2
  <2>4. QED BY <1>1, <1>4, <2>1, <2>2, <2>3 DEF Taken
<1>6. CASE TakesSkipped(f, g)
  <2>1. g.at = n + 1 /\ g.skipped = Append(c, n + 1) /\ Indices(g.attached) = b /\ g.inline = a
        /\ g.attached = f.attached
    BY <1>1, <1>6 DEF TakesSkipped
  <2>2. ToSet(a) \cup ToSet(b) \cup ToSet(Append(c, n + 1)) = 1..(n + 1) BY <1>1, <1>3, <1>4
  <2>3. Len(a) + Len(g.attached) + Len(Append(c, n + 1)) = n + 1
    <3>1. Len(Append(c, n + 1)) = lc + 1 /\ Len(g.attached) = lb BY <1>1, <1>2, <1>4, <2>1
    <3>2. la + lb + (lc + 1) = n + 1 BY <1>0
    <3>3. QED BY <1>2, <3>1, <3>2
  <2>4. QED BY <1>1, <1>4, <2>1, <2>2, <2>3 DEF Taken
<1>7. ASSUME NEW p \in Parts(U), TakesPart(f, g, p) PROVE Taken(g)
  <2>1. g.at = n + 1 /\ g.skipped = c /\ g.inline = a /\ g.attached = Append(f.attached, p)
        /\ p.index = n + 1
    BY <1>1, <1>7 DEF TakesPart
  <2>2. Indices(g.attached) = Append(b, n + 1) BY <1>1, <2>1, IndicesAppend
  <2>3. Len(g.attached) = Len(f.attached) + 1 BY <1>1, <2>1, AppendProperties
  <2>4. ToSet(a) \cup ToSet(Append(b, n + 1)) \cup ToSet(c) = 1..(n + 1) BY <1>1, <1>3, <1>4
  <2>5. Len(a) + Len(g.attached) + Len(c) = n + 1
    <3>1. Len(g.attached) = lb + 1 BY <1>2, <2>3
    <3>2. la + (lb + 1) + lc = n + 1 BY <1>0
    <3>3. QED BY <1>2, <3>1, <3>2
  <2>6. QED BY <1>1, <1>4, <2>1, <2>2, <2>4, <2>5 DEF Taken
<1>8. QED BY <1>5, <1>6, <1>7

(* The frames of a larger set.                                             *)
LEMMA FramesGrow ==
    ASSUME NEW U, NEW V, U \subseteq V
    PROVE  FramesOf(U) \subseteq FramesOf(V) /\ Parts(U) \subseteq Parts(V)
<1>1. Parts(U) \subseteq Parts(V) BY DEF Parts
<1>2. Seq(Parts(U)) \subseteq Seq(Parts(V)) BY <1>1
<1>3. ASSUME NEW f \in FramesOf(U) PROVE f \in FramesOf(V)
  BY <1>2 DEF FramesOf
<1>4. QED BY <1>1, <1>3

(* What a part has to be depends on the call of _assemble alone.           *)
SameCall(f, g) == /\ g.message = f.message /\ g.depth = f.depth
                  /\ g.synthesize = f.synthesize /\ g.prefix = f.prefix

(* One more row is put where it belongs.                                   *)
LEMMA SortedGrows ==
    ASSUME NEW U, NEW f \in FramesOf(U), NEW g, Sorted(f), SameCall(f, g), g.id = f.id,
           \/ TakesInline(f, g) /\ InlineRight(f, f.at + 1)
           \/ TakesSkipped(f, g) /\ SkippedRight(f, f.at + 1)
           \/ \E p \in Parts(U) : TakesPart(f, g, p) /\ PartRight(f, p)
    PROVE  Sorted(g)
<1>1. PICK n \in Nat, a \in Seq(Nat), b \in Seq(Parts(U)), c \in Seq(Nat) :
        n = f.at + 1 /\ a = f.inline /\ b = f.attached /\ c = f.skipped
  BY DEF FramesOf
<1>2. /\ \A k : SkippedRight(g, k) = SkippedRight(f, k)
      /\ \A k : InlineRight(g, k) = InlineRight(f, k)
  BY DEF SameCall, SkippedRight, InlineRight
<1>3. \A x, m : Inner(g, x, m) = Inner(f, x, m) BY DEF SameCall, Inner, ChildPrefix
<1>4. \A p : PartRight(g, p) = PartRight(f, p) BY <1>3 DEF SameCall, PartRight
<1>5. /\ \A i \in 1..Len(c) : SkippedRight(g, c[i])
      /\ \A i \in 1..Len(a) : InlineRight(g, a[i])
      /\ \A i \in 1..Len(b) : PartRight(g, b[i])
  BY <1>1, <1>2, <1>4 DEF Sorted
<1>6. CASE TakesInline(f, g) /\ InlineRight(f, f.at + 1)
  <2>1. PICK t : t = Append(a, n) OBVIOUS
  <2>2. Len(t) = Len(a) + 1 /\ t[Len(a) + 1] = n /\ (\A i \in 1..Len(a) : t[i] = a[i]) /\ Len(a) \in Nat
    BY <2>1, AppendProperties, LenProperties
  <2>3. \A i \in 1..Len(t) : i = Len(a) + 1 \/ i \in 1..Len(a) BY <2>2
  <2>4. \A i \in 1..Len(t) : InlineRight(g, t[i]) BY <1>1, <1>2, <1>5, <1>6, <2>2, <2>3
  <2>5. QED BY <1>1, <1>5, <1>6, <2>1, <2>4 DEF TakesInline, Sorted
<1>7. CASE TakesSkipped(f, g) /\ SkippedRight(f, f.at + 1)
  <2>1. PICK t : t = Append(c, n) OBVIOUS
  <2>2. Len(t) = Len(c) + 1 /\ t[Len(c) + 1] = n /\ (\A i \in 1..Len(c) : t[i] = c[i]) /\ Len(c) \in Nat
    BY <2>1, AppendProperties, LenProperties
  <2>3. \A i \in 1..Len(t) : i = Len(c) + 1 \/ i \in 1..Len(c) BY <2>2
  <2>4. \A i \in 1..Len(t) : SkippedRight(g, t[i]) BY <1>1, <1>2, <1>5, <1>7, <2>2, <2>3
  <2>5. QED BY <1>1, <1>5, <1>7, <2>1, <2>4 DEF TakesSkipped, Sorted
<1>8. ASSUME NEW p \in Parts(U), TakesPart(f, g, p), PartRight(f, p) PROVE Sorted(g)
  <2>1. PICK t : t = Append(b, p) OBVIOUS
  <2>2. Len(t) = Len(b) + 1 /\ t[Len(b) + 1] = p /\ (\A i \in 1..Len(b) : t[i] = b[i]) /\ Len(b) \in Nat
    BY <2>1, AppendProperties, LenProperties
  <2>3. \A i \in 1..Len(t) : i = Len(b) + 1 \/ i \in 1..Len(b) BY <2>2
  <2>4. \A i \in 1..Len(t) : PartRight(g, t[i]) BY <1>1, <1>4, <1>5, <1>8, <2>2, <2>3
  <2>5. QED BY <1>1, <1>5, <1>8, <2>1, <2>4 DEF TakesPart, Sorted
<1>9. QED BY <1>6, <1>7, <1>8

(* The empty local part, and that of an id that is made.                   *)
LEMMA NoLocalType == NoLocal \in Locals /\ NoLocal.base = "empty" /\ NoLocal.path = <<>>
<1>1. "empty" \in Texts /\ <<>> \in Seq(Nids) BY EmlIdsAssumption
<1>2. QED BY <1>1 DEF NoLocal, Locals

LEMMA InventedParts ==
    ASSUME InputInv, NEW m \in Messages, NEW p \in Locals
    PROVE  /\ InventedLocal(m, p) \in Locals /\ InventedLocal(m, p) # NoLocal
           /\ InventedLocal(m, p).base = IF p = NoLocal THEN "own" ELSE p.base
           /\ InventedLocal(m, p).path = Append(p.path, file[m].nid)
           /\ Len(p.path) \in Nat /\ Len(InventedLocal(m, p).path) = Len(p.path) + 1
<1>1. PICK k \in Nids : k = file[m].nid BY MessageParts
<1>2. PICK q \in Seq(Nids) : q = p.path BY DEF Locals
<1>3. PICK r : r = Append(q, k) OBVIOUS
<1>4. r \in Seq(Nids) /\ Len(q) \in Nat /\ Len(r) = Len(q) + 1 BY <1>3, AppendProperties, LenProperties
<1>5. PICK l : l = InventedLocal(m, p) OBVIOUS
<1>6. l.path = r /\ (l.base = IF p = NoLocal THEN "own" ELSE p.base) /\ l \in Locals
  <2>1. CASE p = NoLocal
    <3>1. l = [base |-> "own", path |-> <<k>>] BY <1>1, <1>5, <2>1 DEF InventedLocal
    <3>2. q = <<>> BY <1>2, <2>1, NoLocalType
    <3>3. Append(<<>>, k) = <<k>> OBVIOUS
    <3>4. r = <<k>> BY <1>3, <3>2, <3>3
    <3>5. "own" \in Texts BY EmlIdsAssumption
    <3>6. QED BY <1>4, <2>1, <3>1, <3>4, <3>5 DEF Locals
  <2>2. CASE p # NoLocal
    <3>1. l = [p EXCEPT !.path = r] BY <1>1, <1>2, <1>3, <1>5, <2>2 DEF InventedLocal
    <3>2. p = [base |-> p.base, path |-> p.path] /\ p.base \in Texts BY DEF Locals
    <3>3. l = [base |-> p.base, path |-> r] BY <3>1, <3>2
    <3>4. QED BY <1>4, <2>2, <3>2, <3>3 DEF Locals
  <2>3. QED BY <2>1, <2>2
<1>7. l # NoLocal
  <2>1. Len(<<>>) = 0 OBVIOUS
  <2>2. r # <<>> BY <1>4, <2>1
  <2>3. QED BY <1>6, <2>2, NoLocalType
<1>8. QED BY <1>1, <1>2, <1>3, <1>4, <1>5, <1>6, <1>7

LEMMA LocalPartType ==
    ASSUME NEW i \in Ids
    PROVE  LocalPart(i) \in Locals /\ LocalPart(i) # NoLocal
           /\ (i.local # NoLocal => LocalPart(i) = i.local)
<1>1. i.local \in Locals BY DEF Ids
<1>2. PICK l : l = [base |-> "pypstreader", path |-> <<>>] OBVIOUS
<1>3. l.base = "pypstreader" /\ "pypstreader" \in Texts /\ <<>> \in Seq(Nids)
  BY <1>2, EmlIdsAssumption
<1>4. l \in Locals /\ l # NoLocal
  <2>1. l \in Locals BY <1>2, <1>3 DEF Locals
  <2>2. "pypstreader" # "empty" OBVIOUS
  <2>3. QED BY <1>3, <2>1, <2>2, NoLocalType
<1>5. QED BY <1>1, <1>2, <1>4 DEF LocalPart

(* A call of _assemble begins.                                             *)
LEMMA FrameBegins ==
    ASSUME NEW U, NEW m \in Messages, NEW d \in Nat, NEW s \in BOOLEAN, NEW p \in Locals
    PROVE  /\ Frame(m, d, s, p) \in FramesOf(U) /\ FrameOK(Frame(m, d, s, p))
           /\ Frame(m, d, s, p).message = m /\ Frame(m, d, s, p).depth = d
           /\ Frame(m, d, s, p).synthesize = s /\ Frame(m, d, s, p).prefix = p
<1>1. PICK f : f = Frame(m, d, s, p) OBVIOUS
<1>2. /\ f.message = m /\ f.depth = d /\ f.synthesize = s /\ f.prefix = p
      /\ f.stage = "headers" /\ f.at = 0 /\ f.passed = {} /\ f.made = {} /\ f.id = NoId
      /\ f.root = "single" /\ f.htmlRoot = FALSE /\ f.hasHtml = FALSE
      /\ f.inline = <<>> /\ f.attached = <<>> /\ f.skipped = <<>>
  BY <1>1 DEF Frame
<1>3. f \in FramesOf(U)
  <2>1. NoId \in Ids /\ <<>> \in Seq(Nat) /\ <<>> \in Seq(Parts(U)) BY NoLocalType DEF Ids, NoId
  <2>2. QED BY <1>1, <2>1 DEF Frame, FramesOf, Stages, Roots
<1>4. Taken(f)
  <2>1. Numbered(<<>>, 0) BY DEF Numbered
  <2>2. Indices(<<>>) = <<>> BY DEF Indices
  <2>3. ToSet(<<>>) = {} /\ Len(<<>>) = 0 /\ 1..0 = {} BY DEF ToSet
  <2>4. QED BY <1>2, <2>1, <2>2, <2>3 DEF Taken
<1>5. Sorted(f)
  <2>1. 1..Len(<<>>) = {} OBVIOUS
  <2>2. QED BY <1>2, <2>1 DEF Sorted
<1>6. Begun(f) /\ Headed(f) /\ Bodied(f) BY <1>2 DEF Begun, Headed, Bodied
<1>7. QED BY <1>1, <1>2, <1>3, <1>4, <1>5, <1>6 DEF FrameOK

LEMMA IdTypes ==
    ASSUME InputInv, NEW m \in Messages, NEW made, NEW p \in Locals
    PROVE  Id(m, made, p) \in Ids
<1>1. file[m].ids["delivered"] \in Ids /\ file[m].ids["stored"] \in Ids
  <2>1. ASSUME NEW w \in {"delivered", "stored"} PROVE file[m].ids[w] \in Ids
    <3>1. PICK l \in Locals, d \in Domains : file[m].ids[w] = [local |-> l, domain |-> d]
      BY MessageParts
    <3>2. QED BY <3>1 DEF Ids
  <2>2. QED BY <2>1
<1>2. NoId \in Ids BY NoLocalType DEF Ids, NoId
<1>3. [local |-> InventedLocal(m, p), domain |-> "synthetic"] \in Ids
  BY InventedParts, EmlIdsAssumption DEF Ids
<1>4. QED BY <1>1, <1>2, <1>3 DEF Id

LEMMA HeadersWritten ==
    ASSUME InputInv, NEW U, NEW f \in FramesOf(U), FrameOK(f), f.stage = "headers",
           HeadersRefusal(f.message, f.synthesize) = NoError,
           NEW made, made = IF f.synthesize THEN MadeNames(f.message) ELSE {},
           NEW g, g = [f EXCEPT !.stage = "bodies", !.passed = PassedNames(f.message),
                                !.made = made, !.id = Id(f.message, made, f.prefix)]
    PROVE  g \in FramesOf(U) /\ FrameOK(g) /\ SameCall(f, g)
<1>1. f.message \in Messages /\ f.prefix \in Locals BY DEF FramesOf
<1>2. made \in SUBSET Made BY DEF MadeNames
<1>3. PassedNames(f.message) \in SUBSET Names
  <2>1. file[f.message].transport.kind = "headers"
    <3>1. file[f.message].transport.kind \in {"headers"} \cup Refusals BY <1>1, MessageParts
    <3>2. PassRefusal(f.message) = NoError BY DEF HeadersRefusal
    <3>3. NoError \notin Refusals BY DEF NoError, Refusals
    <3>4. QED BY <3>1, <3>2, <3>3 DEF PassRefusal
  <2>2. QED BY <1>1, <2>1, MessageParts
<1>4. Id(f.message, made, f.prefix) \in Ids BY <1>1, IdTypes
<1>5. /\ SameCall(f, g) /\ g.stage = "bodies" /\ g.at = f.at /\ g.made = made
      /\ g.id = Id(f.message, made, f.prefix)
      /\ g.inline = f.inline /\ g.attached = f.attached /\ g.skipped = f.skipped
  BY DEF FramesOf, SameCall
<1>6. g \in FramesOf(U) BY <1>2, <1>3, <1>4 DEF FramesOf, Stages
<1>7. /\ g.at = 0 /\ g.inline = <<>> /\ g.attached = <<>> /\ g.skipped = <<>>
  BY <1>5 DEF FrameOK, Begun
<1>8. Taken(g) BY <1>5 DEF FrameOK, Taken
<1>9. Sorted(g)
  <2>1. 1..Len(<<>>) = {} OBVIOUS
  <2>2. QED BY <1>7, <2>1 DEF Sorted
<1>10. Headed(g)
  <2>1. HeadersRefusal(g.message, g.synthesize) = NoError BY <1>5 DEF SameCall
  <2>2. g.made = IF g.synthesize THEN MadeNames(g.message) ELSE {} BY <1>5 DEF SameCall
  <2>3. g.id = Id(g.message, g.made, g.prefix) BY <1>5 DEF SameCall
  <2>4. QED BY <2>1, <2>2, <2>3 DEF Headed
<1>11. Begun(g) /\ Bodied(g) BY <1>5, <1>7 DEF Begun, Bodied
<1>12. QED BY <1>5, <1>6, <1>8, <1>9, <1>10, <1>11 DEF FrameOK

LEMMA BodiesWritten ==
    ASSUME InputInv, NEW U, NEW f \in FramesOf(U), FrameOK(f), f.stage = "bodies",
           BodiesRefusal(f.message) = NoError,
           NEW b, b = Bodies(f.message),
           NEW g, g = [f EXCEPT !.stage = "attachments",
                                !.root = IF Cardinality(b) > 1 THEN "alternative" ELSE "single",
                                !.hasHtml = "html" \in b, !.htmlRoot = b = {"html"}]
    PROVE  g \in FramesOf(U) /\ FrameOK(g) /\ SameCall(f, g)
<1>1. f.message \in Messages BY DEF FramesOf
<1>2. PICK root : root = IF Cardinality(b) > 1 THEN "alternative" ELSE "single" OBVIOUS
<1>3. root \in {"alternative", "single"} BY <1>2
<1>5. /\ SameCall(f, g) /\ g.stage = "attachments" /\ g.at = f.at /\ g.made = f.made
      /\ g.id = f.id /\ g.root = root /\ g.hasHtml = ("html" \in b) /\ g.htmlRoot = (b = {"html"})
      /\ g.inline = f.inline /\ g.attached = f.attached /\ g.skipped = f.skipped
  BY <1>2 DEF FramesOf, SameCall
<1>6. g \in FramesOf(U)
  <2>0. ("html" \in b) \in BOOLEAN /\ (b = {"html"}) \in BOOLEAN OBVIOUS
  <2>1. PICK h, r : h \in BOOLEAN /\ r \in BOOLEAN /\ h = ("html" \in b) /\ r = (b = {"html"})
    BY <2>0, Zenon
  <2>2. g = [f EXCEPT !.stage = "attachments", !.root = root, !.hasHtml = h, !.htmlRoot = r]
    BY <1>2, <2>1
  <2>3. "attachments" \in Stages /\ root \in Roots BY <1>3 DEF Stages, Roots
  <2>4. QED BY <2>1, <2>2, <2>3 DEF FramesOf
<1>7. /\ g.at = 0 /\ g.inline = <<>> /\ g.attached = <<>> /\ g.skipped = <<>>
  BY <1>5 DEF FrameOK, Begun
<1>8. Taken(g) BY <1>5 DEF FrameOK, Taken
<1>9. Sorted(g)
  <2>1. 1..Len(<<>>) = {} OBVIOUS
  <2>2. QED BY <1>7, <2>1 DEF Sorted
<1>10. Headed(g) BY <1>5 DEF FrameOK, Headed, SameCall
<1>11. Begun(g) BY <1>5 DEF Begun
<1>12. Bodied(g)
  <2>1. Len(Rows(f.message)) \in Nat
    <3>1. Rows(f.message) \in Seq(Attachment) BY <1>1, RefusalTypes, MessageParts
    <3>2. QED BY <3>1, LenProperties
  <2>2. g.at <= Len(Rows(g.message)) BY <1>5, <1>7, <2>1 DEF SameCall
  <2>3. ~HasMixed(g)
    <3>1. 1..0 = {} OBVIOUS
    <3>2. QED BY <1>7, <3>1 DEF HasMixed
  <2>4. BodiesRefusal(g.message) = NoError /\ b = Bodies(g.message) BY <1>5 DEF SameCall
  <2>5. g.root # "mixed" BY <1>3, <1>5
  <2>6. QED BY <1>5, <2>2, <2>3, <2>4, <2>5 DEF Bodied
<1>13. QED BY <1>5, <1>6, <1>8, <1>9, <1>10, <1>11, <1>12 DEF FrameOK

(* A turn of the loop over the attachments: one row more is taken.         *)
Turns(f, g) ==
    /\ SameCall(f, g) /\ g.stage = f.stage /\ g.at = f.at + 1
    /\ g.passed = f.passed /\ g.made = f.made /\ g.id = f.id
    /\ g.hasHtml = f.hasHtml /\ g.htmlRoot = f.htmlRoot

LEMMA TurnTaken ==
    ASSUME InputInv, NEW U, NEW f \in FramesOf(U), FrameOK(f),
           f.stage = "attachments", f.at < Len(Rows(f.message)),
           NEW g \in FramesOf(U), Turns(f, g),
           g.root = "mixed" <=> f.root = "mixed" \/ IsPart(f.message, Rows(f.message)[f.at + 1]),
           \/ TakesInline(f, g) /\ InlineRight(f, f.at + 1)
           \/ TakesSkipped(f, g) /\ SkippedRight(f, f.at + 1)
           \/ \E p \in Parts(U) : TakesPart(f, g, p) /\ PartRight(f, p)
    PROVE  FrameOK(g)
<1>1. f.message \in Messages /\ f.at \in Nat BY DEF FramesOf
<1>2. Taken(g)
  <2>1. g.at = f.at + 1 /\ Taken(f) BY DEF Turns, FrameOK
  <2>2. QED BY <2>1, TakenGrows
<1>3. Sorted(g)
  <2>1. SameCall(f, g) /\ g.id = f.id /\ Sorted(f) BY DEF Turns, FrameOK
  <2>2. QED BY <2>1, SortedGrows
<1>4. Begun(g) /\ Headed(g) BY DEF Turns, SameCall, Begun, Headed, FrameOK
<1>5. Bodied(g)
  <2>1. Len(Rows(f.message)) \in Nat
    <3>1. Rows(f.message) \in Seq(Attachment) BY <1>1, RefusalTypes, MessageParts DEF FrameOK, Bodied
    <3>2. QED BY <3>1, LenProperties
  <2>2. f.at + 1 <= Len(Rows(f.message)) BY <1>1, <2>1
  <2>3. HasMixed(g) <=> HasMixed(f) \/ IsPart(f.message, Rows(f.message)[f.at + 1])
    <3>1. 1..(f.at + 1) = (1..f.at) \cup {f.at + 1} BY <1>1
    <3>2. g.at = f.at + 1 /\ g.message = f.message BY DEF Turns, SameCall
    <3>3. QED BY <3>1, <3>2 DEF HasMixed
  <2>4. QED BY <2>2, <2>3 DEF Turns, SameCall, Bodied, FrameOK
<1>6. QED BY <1>2, <1>3, <1>4, <1>5 DEF FrameOK

(* The row a frame is at is an attachment, refused for the reason that the *)
(* reference gives.                                                        *)
LEMMA AtRow ==
    ASSUME InputInv, NEW U, NEW f \in FramesOf(U), FrameOK(f),
           f.stage = "attachments", f.at < Len(Rows(f.message)),
           NEW a, a = Rows(f.message)[f.at + 1]
    PROVE  /\ a \in Attachment /\ f.at + 1 \in 1..Len(Rows(f.message))
           /\ f.message \in Messages /\ f.at \in Nat
           /\ AttachmentRefusal(f, a) = AttachmentRefusal(Met(f.depth, f.message, f.at + 1), a)
           /\ (a.method \in CarriesBytes /\ AttachmentRefusal(f, a) = NoError) =>
                 /\ IsPart(f.message, a) <=> ~GoesInline(f, a)
                 /\ GoesInline(f, a) => InlineRight(f, f.at + 1) /\ (f.htmlRoot => f.root # "mixed")
<1>1. f.message \in Messages /\ f.at \in Nat BY DEF FramesOf
<1>2. PICK r \in Seq(Attachment) : r = Rows(f.message)
  BY <1>1, RefusalTypes, MessageParts DEF FrameOK, Bodied
<1>3. Len(r) \in Nat /\ \A i \in 1..Len(r) : r[i] \in Attachment BY LenProperties, ElementOfSeq
<1>4. f.at + 1 \in 1..Len(r) BY <1>1, <1>2, <1>3
<1>5. a \in Attachment BY <1>2, <1>3, <1>4
<1>6. PICK g : g = Met(f.depth, f.message, f.at + 1) OBVIOUS
<1>7. g.depth = f.depth /\ g.hasHtml = f.hasHtml /\ g.htmlRoot = f.htmlRoot
      /\ (g.root = "mixed" <=> f.root = "mixed")
  <2>1. g.depth = f.depth /\ g.hasHtml = ("html" \in Bodies(f.message))
        /\ g.htmlRoot = (Bodies(f.message) = {"html"})
        /\ (g.root = "mixed" <=> \E j \in 1..((f.at + 1) - 1) : IsPart(f.message, Rows(f.message)[j]))
    BY <1>6 DEF Met
  <2>2. (f.at + 1) - 1 = f.at BY <1>1
  <2>3. QED BY <2>1, <2>2 DEF FrameOK, Bodied, HasMixed
<1>8. AttachmentRefusal(f, a) = AttachmentRefusal(g, a)
  <2>1. GoesInline(f, a) = GoesInline(g, a) BY <1>7 DEF GoesInline
  <2>2. EmbedRefusal(f, a) = EmbedRefusal(g, a) BY <1>7 DEF EmbedRefusal
  <2>3. (GoesInline(f, a) /\ f.htmlRoot /\ f.root = "mixed")
          <=> (GoesInline(g, a) /\ g.htmlRoot /\ g.root = "mixed") BY <1>7, <2>1
  <2>4. QED BY <2>2, <2>3 DEF AttachmentRefusal
<1>9. ASSUME a.method \in CarriesBytes, AttachmentRefusal(f, a) = NoError
      PROVE  /\ IsPart(f.message, a) <=> ~GoesInline(f, a)
             /\ GoesInline(f, a) => InlineRight(f, f.at + 1) /\ (f.htmlRoot => f.root # "mixed")
  <2>1. f.hasHtml = ("html" \in Bodies(f.message)) BY DEF FrameOK, Bodied
  <2>2. a.inline \in BOOLEAN BY <1>5, AttachmentParts
  <2>3. a.method # "EMBEDDED_MESSAGE" BY <1>9 DEF CarriesBytes
  <2>4. IsPart(f.message, a) <=> ~GoesInline(f, a) BY <1>9, <2>1, <2>2, <2>3 DEF IsPart, GoesInline
  <2>5. GoesInline(f, a) => InlineRight(f, f.at + 1) BY <2>1 DEF GoesInline, InlineRight
  <2>6. GoesInline(f, a) => (f.htmlRoot => f.root # "mixed") BY <1>5, <1>9, AttachmentOutcome
  <2>7. QED BY <2>4, <2>5, <2>6
<1>10. QED BY <1>1, <1>2, <1>4, <1>5, <1>6, <1>8, <1>9

LEMMA RowSkipped ==
    ASSUME InputInv, NEW U, NEW f \in FramesOf(U), FrameOK(f),
           f.stage = "attachments", f.at < Len(Rows(f.message)),
           Rows(f.message)[f.at + 1].method \in Method \ (CarriesBytes \cup {"EMBEDDED_MESSAGE"}),
           NEW g, g = [f EXCEPT !.at = @ + 1, !.skipped = Append(@, f.at + 1)]
    PROVE  g \in FramesOf(U) /\ FrameOK(g) /\ SameCall(f, g) /\ g.at = f.at + 1
<1>1. PICK n \in Nat, s \in Seq(Nat) : n = f.at + 1 /\ s = Append(f.skipped, n)
  <2>1. PICK n \in Nat, t \in Seq(Nat) : n = f.at + 1 /\ t = f.skipped BY DEF FramesOf
  <2>2. Append(t, n) \in Seq(Nat) BY AppendProperties
  <2>3. QED BY <2>1, <2>2
<1>2. g = [f EXCEPT !.at = n, !.skipped = s] BY <1>1 DEF FramesOf
<1>3. g \in FramesOf(U) BY <1>2 DEF FramesOf
<1>4. Turns(f, g) /\ g.root = f.root BY <1>1, <1>2 DEF FramesOf, Turns, SameCall
<1>5. TakesSkipped(f, g) BY <1>1, <1>2 DEF FramesOf, TakesSkipped
<1>6. SkippedRight(f, f.at + 1) BY DEF SkippedRight, Method, CarriesBytes
<1>7. ~IsPart(f.message, Rows(f.message)[f.at + 1]) BY DEF IsPart
<1>8. FrameOK(g) BY <1>3, <1>4, <1>5, <1>6, <1>7, TurnTaken
<1>9. QED BY <1>3, <1>4, <1>8 DEF Turns

LEMMA RowInline ==
    ASSUME InputInv, NEW U, NEW f \in FramesOf(U), FrameOK(f),
           f.stage = "attachments", f.at < Len(Rows(f.message)),
           NEW a, a = Rows(f.message)[f.at + 1], a.method \in CarriesBytes,
           AttachmentRefusal(f, a) = NoError, GoesInline(f, a),
           NEW g, g = [f EXCEPT !.at = @ + 1, !.inline = Append(@, f.at + 1),
                                !.root = IF f.htmlRoot THEN "related" ELSE @]
    PROVE  g \in FramesOf(U) /\ FrameOK(g) /\ SameCall(f, g) /\ g.at = f.at + 1
<1>1. PICK n \in Nat, s \in Seq(Nat) : n = f.at + 1 /\ s = Append(f.inline, n)
  <2>1. PICK n \in Nat, t \in Seq(Nat) : n = f.at + 1 /\ t = f.inline BY DEF FramesOf
  <2>2. Append(t, n) \in Seq(Nat) BY AppendProperties
  <2>3. QED BY <2>1, <2>2
<1>2. PICK r \in Roots : r = IF f.htmlRoot THEN "related" ELSE f.root BY DEF FramesOf, Roots
<1>3. g = [f EXCEPT !.at = n, !.inline = s, !.root = r] BY <1>1, <1>2 DEF FramesOf
<1>4. g \in FramesOf(U) BY <1>3 DEF FramesOf
<1>5. Turns(f, g) /\ g.root = r BY <1>1, <1>3 DEF FramesOf, Turns, SameCall
<1>6. TakesInline(f, g) BY <1>1, <1>3 DEF FramesOf, TakesInline
<1>7. /\ ~IsPart(f.message, a) /\ InlineRight(f, f.at + 1) /\ (f.htmlRoot => f.root # "mixed")
  BY AtRow
<1>8. g.root = "mixed" <=> f.root = "mixed" BY <1>2, <1>5, <1>7
<1>9. FrameOK(g) BY <1>4, <1>5, <1>6, <1>7, <1>8, TurnTaken
<1>10. QED BY <1>4, <1>5, <1>9 DEF Turns

(* A part, of which eml is the inner message or <<>>.                      *)
LEMMA RowAttached ==
    ASSUME InputInv, NEW U, NEW f \in FramesOf(U), FrameOK(f),
           f.stage = "attachments", f.at < Len(Rows(f.message)),
           NEW p \in Parts(U), p.index = f.at + 1, PartRight(f, p),
           IsPart(f.message, Rows(f.message)[f.at + 1]),
           NEW g, g = [f EXCEPT !.at = @ + 1, !.root = "mixed", !.attached = Append(@, p)]
    PROVE  g \in FramesOf(U) /\ FrameOK(g) /\ SameCall(f, g) /\ g.at = f.at + 1
<1>1. PICK n \in Nat, s \in Seq(Parts(U)) : n = f.at + 1 /\ s = Append(f.attached, p)
  <2>1. PICK n \in Nat, t \in Seq(Parts(U)) : n = f.at + 1 /\ t = f.attached BY DEF FramesOf
  <2>2. Append(t, p) \in Seq(Parts(U)) BY AppendProperties
  <2>3. QED BY <2>1, <2>2
<1>3. g = [f EXCEPT !.at = n, !.root = "mixed", !.attached = s] BY <1>1 DEF FramesOf
<1>4. g \in FramesOf(U) BY <1>3 DEF FramesOf, Roots
<1>5. Turns(f, g) /\ g.root = "mixed" BY <1>1, <1>3 DEF FramesOf, Turns, SameCall
<1>6. TakesPart(f, g, p) BY <1>1, <1>3 DEF FramesOf, TakesPart
<1>9. FrameOK(g) BY <1>4, <1>5, <1>6, TurnTaken
<1>10. QED BY <1>4, <1>5, <1>9 DEF Turns

(* A frame that has taken all its rows; the frame that to_eml began; and a *)
(* frame f begun by c for the attachment that c is at.                     *)
Done(x) == FrameOK(x) /\ x.stage = "attachments" /\ x.at = Len(Rows(x.message))
Root(f) == /\ f.message = call.message /\ f.depth = call.depth
           /\ f.synthesize = call.synthesize /\ f.prefix = NoLocal
Carries(c, f) ==
    /\ c.stage = "attachments" /\ c.at < Len(Rows(c.message))
    /\ LET a == Rows(c.message)[c.at + 1]
       IN /\ a.method = "EMBEDDED_MESSAGE" /\ AttachmentRefusal(c, a) = NoError
          /\ Inner(c, f, a.embeds.node)

(* U holds the inner messages that are assembled; s is the stack of calls. *)
Finished(U) == U \subseteq FramesOf(U) /\ \A x \in U : Done(x)
Chain(U, s) ==
    /\ s \in Seq(FramesOf(U)) /\ Len(s) > 0 /\ Root(s[1])
    /\ \A i \in 1..Len(s) : FrameOK(s[i])
    /\ \A i \in 2..Len(s) : Carries(s[i - 1], s[i])

(* t is the stack s cut at its n-th call, of which g is what has become.    *)
Cut(s, n, g, t) == /\ n \in 1..Len(s) /\ SameCall(s[n], g) /\ FrameOK(g)
                   /\ t = Append(SubSeq(s, 1, n - 1), g)

LEMMA ChainReplaced ==
    ASSUME NEW U, NEW V, U \subseteq V, NEW s, Chain(U, s), NEW n,
           NEW g \in FramesOf(V), NEW t, Cut(s, n, g, t)
    PROVE  Chain(V, t) /\ Len(t) = n /\ t[n] = g
<1>0. /\ n \in 1..Len(s) /\ SameCall(s[n], g) /\ FrameOK(g)
      /\ t = Append(SubSeq(s, 1, n - 1), g)
  BY DEF Cut
<1>1. s \in Seq(FramesOf(U)) /\ Len(s) \in Nat /\ n \in Nat
  BY <1>0, LenProperties DEF Chain
<1>2. FramesOf(U) \subseteq FramesOf(V) BY FramesGrow
<1>3. PICK S, T : S = FramesOf(U) /\ T = FramesOf(V) OBVIOUS
<1>4. /\ t \in Seq(T) /\ Len(t) = n /\ t[n] = g /\ \A i \in 1..(n - 1) : t[i] = s[i]
  <2>1. S \subseteq T /\ s \in Seq(S) /\ g \in T BY <1>1, <1>2, <1>3
  <2>2. QED BY <1>0, <2>1, CutThenAppend
<1>5. \A i \in 1..n : SameCall(s[i], t[i]) /\ FrameOK(t[i]) /\ (i # n => t[i] = s[i])
  <2>1. SUFFICES ASSUME NEW i \in 1..n
                 PROVE  SameCall(s[i], t[i]) /\ FrameOK(t[i]) /\ (i # n => t[i] = s[i])
    OBVIOUS
  <2>2. CASE i = n BY <1>0, <1>4, <2>2
  <2>3. CASE i # n
    <3>1. i \in 1..(n - 1) /\ i \in 1..Len(s) BY <1>0, <1>1, <2>3
    <3>2. t[i] = s[i] /\ FrameOK(s[i]) BY <1>4, <3>1 DEF Chain
    <3>3. QED BY <3>2 DEF SameCall
  <2>4. QED BY <2>2, <2>3
<1>6. Root(t[1])
  <2>1. 1 \in 1..n BY <1>0, <1>1
  <2>2. SameCall(s[1], t[1]) /\ Root(s[1]) BY <1>5, <2>1 DEF Chain
  <2>3. QED BY <2>2 DEF Root, SameCall
<1>7. \A i \in 2..n : Carries(t[i - 1], t[i])
  <2>1. SUFFICES ASSUME NEW i \in 2..n PROVE Carries(t[i - 1], t[i]) OBVIOUS
  <2>2. i \in 2..Len(s) /\ i \in 1..n /\ i - 1 \in 1..n /\ i - 1 # n BY <1>0, <1>1
  <2>3. Carries(s[i - 1], s[i]) BY <2>2 DEF Chain
  <2>4. t[i - 1] = s[i - 1] /\ SameCall(s[i], t[i]) BY <1>5, <2>2
  <2>5. QED BY <2>3, <2>4 DEF Carries, Inner, SameCall
<1>8. QED BY <1>0, <1>1, <1>3, <1>4, <1>5, <1>6, <1>7 DEF Chain

LEMMA ChainExtended ==
    ASSUME NEW U, NEW s, Chain(U, s), NEW g \in FramesOf(U), FrameOK(g), Carries(s[Len(s)], g),
           NEW t, t = Append(s, g)
    PROVE  Chain(U, t)
<1>1. s \in Seq(FramesOf(U)) /\ Len(s) \in Nat BY LenProperties DEF Chain
<1>2. PICK S, n : S = FramesOf(U) /\ n = Len(s) OBVIOUS
<1>3. /\ t \in Seq(S) /\ Len(t) = n + 1 /\ t[n + 1] = g /\ \A i \in 1..n : t[i] = s[i]
  <2>1. s \in Seq(S) /\ g \in S BY <1>1, <1>2
  <2>2. QED BY <1>2, <2>1, AppendProperties
<1>4. n \in Nat /\ n > 0 BY <1>1, <1>2 DEF Chain
<1>5. Root(t[1])
  <2>1. 1 \in 1..n BY <1>4
  <2>2. t[1] = s[1] BY <1>3, <2>1
  <2>3. QED BY <2>2 DEF Chain
<1>6. \A i \in 1..(n + 1) : FrameOK(t[i])
  <2>1. \A i \in 1..(n + 1) : i = n + 1 \/ i \in 1..n BY <1>4
  <2>2. \A i \in 1..n : FrameOK(s[i]) BY <1>2 DEF Chain
  <2>3. QED BY <1>3, <2>1, <2>2
<1>7. \A i \in 2..(n + 1) : Carries(t[i - 1], t[i])
  <2>1. SUFFICES ASSUME NEW i \in 2..(n + 1) PROVE Carries(t[i - 1], t[i]) OBVIOUS
  <2>2. CASE i = n + 1
    <3>1. i - 1 = n /\ n \in 1..n BY <1>4, <2>2
    <3>2. t[i - 1] = s[n] /\ t[i] = g BY <1>3, <2>2, <3>1
    <3>3. QED BY <1>2, <3>2
  <2>3. CASE i # n + 1
    <3>1. i \in 2..n /\ i \in 1..n /\ i - 1 \in 1..n BY <1>4, <2>3
    <3>2. t[i - 1] = s[i - 1] /\ t[i] = s[i] BY <1>3, <3>1
    <3>3. Carries(s[i - 1], s[i]) BY <1>2, <3>1 DEF Chain
    <3>4. QED BY <3>2, <3>3
  <2>4. QED BY <2>2, <2>3
<1>8. QED BY <1>2, <1>3, <1>4, <1>5, <1>6, <1>7 DEF Chain

(* What is read of the file and of the call is read of them again.         *)
LEMMA HeadersStay ==
    ASSUME UNCHANGED <<file, call>>, NEW m, NEW s
    PROVE  HeadersRefusal(m, s)' = HeadersRefusal(m, s) /\ MadeNames(m)' = MadeNames(m)
<1>0. file' = file /\ call' = call OBVIOUS
<1>1. PassedNames(m)' = PassedNames(m) BY <1>0 DEF PassedNames
<1>2. PassRefusal(m)' = PassRefusal(m) BY <1>0 DEF PassRefusal
<1>3. MadeNames(m)' = MadeNames(m) BY <1>0, <1>1 DEF MadeNames
<1>4. \A n : Read(m, n)' = Read(m, n) BY <1>0, <1>1 DEF Read
<1>5. MakeRefusal(m)' = MakeRefusal(m) BY <1>0, <1>3, <1>4 DEF MakeRefusal
<1>6. QED BY <1>2, <1>3, <1>5 DEF HeadersRefusal

LEMMA BodiesStay ==
    ASSUME UNCHANGED <<file, call>>, NEW m
    PROVE  /\ BodiesRefusal(m)' = BodiesRefusal(m) /\ Bodies(m)' = Bodies(m)
           /\ Rows(m)' = Rows(m) /\ PartsAreText(m)' = PartsAreText(m)
           /\ \A a : IsPart(m, a)' = IsPart(m, a)
           /\ \A d, i : Met(d, m, i)' = Met(d, m, i)
<1>0. file' = file /\ call' = call OBVIOUS
<1>1. Rows(m)' = Rows(m) /\ Bodies(m)' = Bodies(m) BY <1>0 DEF Rows, Bodies
<1>2. BodiesRefusal(m)' = BodiesRefusal(m) BY <1>0, <1>1 DEF BodiesRefusal
<1>3. PartsAreText(m)' = PartsAreText(m) BY <1>0, <1>1 DEF PartsAreText
<1>4. \A a : IsPart(m, a)' = IsPart(m, a) BY <1>1 DEF IsPart
<1>5. \A d, i : Met(d, m, i)' = Met(d, m, i) BY <1>1, <1>4 DEF Met
<1>6. QED BY <1>1, <1>2, <1>3, <1>4, <1>5

LEMMA AttachmentsStay ==
    ASSUME UNCHANGED <<file, call>>, NEW f, NEW a
    PROVE  AttachmentRefusal(f, a)' = AttachmentRefusal(f, a)
<1>0. file' = file /\ call' = call OBVIOUS
<1>1. EmbedRefusal(f, a)' = EmbedRefusal(f, a) BY <1>0 DEF EmbedRefusal
<1>2. GoesInline(f, a)' = GoesInline(f, a) BY DEF GoesInline
<1>3. QED BY <1>0, <1>1, <1>2 DEF AttachmentRefusal

LEMMA FrameStays ==
    ASSUME UNCHANGED <<file, call>>, NEW f
    PROVE  FrameOK(f)' = FrameOK(f) /\ Done(f)' = Done(f) /\ Root(f)' = Root(f)
<1>0. file' = file /\ call' = call OBVIOUS
<1>1. /\ \A m, s : HeadersRefusal(m, s)' = HeadersRefusal(m, s)
      /\ \A m : MadeNames(m)' = MadeNames(m)
  BY HeadersStay
<1>2. /\ \A m : BodiesRefusal(m)' = BodiesRefusal(m) /\ Bodies(m)' = Bodies(m)
      /\ \A m : Rows(m)' = Rows(m) /\ \A a : IsPart(m, a)' = IsPart(m, a)
  BY BodiesStay
<1>3. \A m, made, p : Id(m, made, p)' = Id(m, made, p) BY <1>0 DEF Id, PassedNames, InventedLocal
<1>4. Headed(f)' = Headed(f) BY <1>1, <1>3 DEF Headed
<1>5. HasMixed(f)' = HasMixed(f) BY <1>2 DEF HasMixed
<1>6. Bodied(f)' = Bodied(f) BY <1>2, <1>5 DEF Bodied
<1>7. \A p : PartRight(f, p)' = PartRight(f, p) BY <1>2 DEF PartRight, Inner, ChildPrefix
<1>8. Sorted(f)' = Sorted(f) BY <1>2, <1>7 DEF Sorted, SkippedRight, InlineRight
<1>9. FrameOK(f)' = FrameOK(f) BY <1>4, <1>6, <1>8 DEF FrameOK, Begun, Taken
<1>10. QED BY <1>0, <1>2, <1>9 DEF Done, Root

LEMMA ChainStays ==
    ASSUME UNCHANGED <<file, call>>, NEW U, NEW s, Chain(U, s), Finished(U)
    PROVE  Chain(U, s)' /\ Finished(U)'
<1>1. \A f : FrameOK(f)' = FrameOK(f) /\ Done(f)' = Done(f) /\ Root(f)' = Root(f) BY FrameStays
<1>2. \A c, f : Carries(c, f)' = Carries(c, f)
  <2>1. \A m : Rows(m)' = Rows(m) BY BodiesStay
  <2>2. \A f, a : AttachmentRefusal(f, a)' = AttachmentRefusal(f, a) BY AttachmentsStay
  <2>3. QED BY <2>1, <2>2 DEF Carries, Inner, ChildPrefix
<1>3. Chain(U, s)' BY <1>1, <1>2 DEF Chain, FramesOf, Parts
<1>4. Finished(U)' BY <1>1 DEF Finished, FramesOf, Parts
<1>5. QED BY <1>3, <1>4

-----------------------------------------------------------------------------
(* The inductive invariant of an assembly.                                 *)
Stack(U, s) == Finished(U) /\ Chain(U, s)
EmlInv ==
    /\ InputInv
    /\ epc \in {"running", "done", "refused"} /\ error \in Results
    /\ (epc = "refused") = (error # NoError)
    /\ \E U, s : s = frames /\ Stack(U, s)
    /\ epc = "done" => Len(frames) = 1 /\ built = <<frames[1]>> /\ Done(frames[1])

LEMMA StackStays ==
    ASSUME UNCHANGED <<file, call>>, NEW U, NEW s, Stack(U, s)
    PROVE  Stack(U, s)'
BY ChainStays DEF Stack

(* It holds when to_eml is called. *)
THEOREM EmlInvInit == Init => EmlInv
<1>1. SUFFICES ASSUME Init PROVE EmlInv OBVIOUS
<1>2. InputInv BY <1>1 DEF Init, InputInv
<1>3. PICK f : f = Frame(call.message, call.depth, call.synthesize, NoLocal) OBVIOUS
<1>4. f \in FramesOf({}) /\ FrameOK(f) /\ Root(f)
  <2>1. call.message \in Messages /\ call.depth \in Nat /\ call.synthesize \in BOOLEAN
    BY <1>2, EmlInput
  <2>2. NoLocal \in Locals BY NoLocalType
  <2>3. PICK m, d, b, p : m = call.message /\ d = call.depth /\ b = call.synthesize /\ p = NoLocal
    OBVIOUS
  <2>4. m \in Messages /\ d \in Nat /\ b \in BOOLEAN /\ p \in Locals BY <2>1, <2>2, <2>3
  <2>5. f = Frame(m, d, b, p) BY <1>3, <2>3
  <2>6. /\ f \in FramesOf({}) /\ FrameOK(f)
        /\ f.message = m /\ f.depth = d /\ f.synthesize = b /\ f.prefix = p
    BY <2>4, <2>5, FrameBegins
  <2>7. QED BY <2>3, <2>6 DEF Root
<1>5. PICK s : s = <<f>> OBVIOUS
<1>6. Stack({}, s)
  <2>1. s \in Seq(FramesOf({})) /\ Len(s) = 1 /\ s[1] = f BY <1>4, <1>5
  <2>2. 1..1 = {1} /\ 2..1 = {} OBVIOUS
  <2>3. Chain({}, s) BY <1>4, <2>1, <2>2 DEF Chain
  <2>4. Finished({}) BY DEF Finished
  <2>5. QED BY <2>3, <2>4 DEF Stack
<1>7. NoError \in Results BY DEF Results, Outcome
<1>8. epc = "running" /\ error = NoError /\ s = frames
  BY <1>1, <1>3, <1>5 DEF Init, EmlStarts
<1>9. QED BY <1>2, <1>6, <1>7, <1>8 DEF EmlInv, NoError

(* The frame that runs.                                                    *)
LEMMA TopFrame ==
    ASSUME EmlInv
    PROVE  \E U, s, n :
             /\ n \in Nat /\ s = frames /\ n = Len(s) /\ n # 0 /\ Stack(U, s)
             /\ F = s[n] /\ F \in FramesOf(U) /\ FrameOK(F)
             /\ Front(frames) = SubSeq(s, 1, n - 1)
<1>1. PICK U, s : s = frames /\ Stack(U, s) BY DEF EmlInv
<1>2. s \in Seq(FramesOf(U)) /\ Len(s) > 0 /\ \A i \in 1..Len(s) : FrameOK(s[i])
  BY <1>1 DEF Stack, Chain
<1>3. PICK n \in Nat : n = Len(s) /\ n # 0 BY <1>2, LenProperties
<1>4. s[n] \in FramesOf(U) /\ FrameOK(s[n])
  <2>1. n \in 1..Len(s) BY <1>3
  <2>2. QED BY <1>2, <2>1, ElementOfSeq
<1>5. F = s[n] /\ Front(frames) = SubSeq(s, 1, n - 1) BY <1>1, <1>3 DEF F, Last, Front
<1>6. QED BY <1>1, <1>3, <1>4, <1>5

LEMMA BecomeKeeps ==
    ASSUME EmlInv, epc = "running", NEW g, Become(g),
           \A U : F \in FramesOf(U) => g \in FramesOf(U), FrameOK(F) => FrameOK(g) /\ SameCall(F, g)
    PROVE  EmlInv'
<1>1. PICK U, s, n :
        /\ n \in Nat /\ s = frames /\ n = Len(s) /\ n # 0 /\ Stack(U, s)
        /\ F = s[n] /\ F \in FramesOf(U) /\ FrameOK(F)
        /\ Front(frames) = SubSeq(s, 1, n - 1)
  BY TopFrame
<1>2. PICK t : t = Append(SubSeq(s, 1, n - 1), g) OBVIOUS
<1>3. Chain(U, t)
  <2>1. n \in 1..Len(s) BY <1>1
  <2>2. g \in FramesOf(U) /\ FrameOK(g) /\ SameCall(s[n], g) /\ Chain(U, s)
    BY <1>1 DEF Stack
  <2>3. Cut(s, n, g, t) BY <1>2, <2>1, <2>2 DEF Cut
  <2>4. U \subseteq U OBVIOUS
  <2>5. QED BY <2>2, <2>3, <2>4, ChainReplaced
<1>4. Stack(U, t) BY <1>1, <1>3 DEF Stack
<1>5. t = frames' /\ UNCHANGED <<file, call, epc, error>> BY <1>1, <1>2 DEF Become
<1>6. Stack(U, t)' BY <1>4, <1>5, StackStays
<1>7. \E V, r : r = frames' /\ Stack(V, r)' BY <1>5, <1>6
<1>8. QED BY <1>5, <1>7 DEF EmlInv, InputInv

LEMMA RefuseKeeps ==
    ASSUME EmlInv, epc = "running", NEW class \in Results, class # NoError, Refuse(class)
    PROVE  EmlInv'
<1>1. UNCHANGED <<file, call, frames, built>> /\ epc' = "refused" /\ error' = class BY DEF Refuse
<1>2. PICK U, s : s = frames /\ Stack(U, s) BY DEF EmlInv
<1>3. Stack(U, s)' BY <1>1, <1>2, StackStays
<1>4. \E V, r : r = frames' /\ Stack(V, r)' BY <1>1, <1>2, <1>3
<1>5. QED BY <1>1, <1>4 DEF EmlInv, InputInv

(* The actions, by what they do to the newest frame.                       *)
LEMMA HeadersKeep ==
    ASSUME EmlInv, RefuseHeaders \/ WriteHeaders
    PROVE  EmlInv'
<1>1. PICK U, s, n :
        /\ n \in Nat /\ s = frames /\ n = Len(s) /\ n # 0 /\ Stack(U, s)
        /\ F = s[n] /\ F \in FramesOf(U) /\ FrameOK(F)
        /\ Front(frames) = SubSeq(s, 1, n - 1)
  BY TopFrame
<1>2. InputInv /\ F.message \in Messages BY <1>1 DEF EmlInv, FramesOf
<1>3. CASE RefuseHeaders
  <2>1. HeadersRefusal(F.message, F.synthesize) \in Results
    BY <1>2, RefusalTypes DEF Results
  <2>2. QED BY <1>3, <2>1, RefuseKeeps DEF RefuseHeaders, In
<1>4. CASE WriteHeaders
  <2>1. PICK made : made = IF F.synthesize THEN MadeNames(F.message) ELSE {} OBVIOUS
  <2>2. PICK g : g = [F EXCEPT !.stage = "bodies", !.passed = PassedNames(F.message),
                               !.made = made, !.id = Id(F.message, made, F.prefix)]
    OBVIOUS
  <2>3. /\ epc = "running" /\ F.stage = "headers"
        /\ HeadersRefusal(F.message, F.synthesize) = NoError /\ Become(g)
    BY <1>4, <2>1, <2>2 DEF WriteHeaders, In
  <2>4. PICK f : f = F OBVIOUS
  <2>5. \A V : f \in FramesOf(V) => g \in FramesOf(V) /\ FrameOK(g) /\ SameCall(f, g)
    BY <1>1, <1>2, <2>1, <2>2, <2>3, <2>4, HeadersWritten, ZenonT(60)
  <2>6. QED BY <1>1, <2>3, <2>4, <2>5, BecomeKeeps
<1>5. QED BY <1>3, <1>4

LEMMA BodiesKeep ==
    ASSUME EmlInv, RefuseBodies \/ WriteBodies
    PROVE  EmlInv'
<1>1. PICK U, s, n :
        /\ n \in Nat /\ s = frames /\ n = Len(s) /\ n # 0 /\ Stack(U, s)
        /\ F = s[n] /\ F \in FramesOf(U) /\ FrameOK(F)
        /\ Front(frames) = SubSeq(s, 1, n - 1)
  BY TopFrame
<1>2. InputInv /\ F.message \in Messages BY <1>1 DEF EmlInv, FramesOf
<1>3. CASE RefuseBodies
  <2>1. BodiesRefusal(F.message) \in Results
    BY <1>2, RefusalTypes DEF Results
  <2>2. QED BY <1>3, <2>1, RefuseKeeps DEF RefuseBodies, In
<1>4. CASE WriteBodies
  <2>1. PICK b : b = Bodies(F.message) OBVIOUS
  <2>2. PICK g : g = [F EXCEPT !.stage = "attachments",
                               !.root = IF Cardinality(b) > 1 THEN "alternative" ELSE "single",
                               !.hasHtml = "html" \in b, !.htmlRoot = b = {"html"}]
    OBVIOUS
  <2>3. /\ epc = "running" /\ F.stage = "bodies"
        /\ BodiesRefusal(F.message) = NoError /\ Become(g)
    BY <1>4, <2>1, <2>2 DEF WriteBodies, In
  <2>4. PICK f : f = F OBVIOUS
  <2>5. \A V : f \in FramesOf(V) => g \in FramesOf(V) /\ FrameOK(g) /\ SameCall(f, g)
    BY <1>1, <1>2, <2>1, <2>2, <2>3, <2>4, BodiesWritten, ZenonT(60)
  <2>6. QED BY <1>1, <2>3, <2>4, <2>5, BecomeKeeps
<1>5. QED BY <1>3, <1>4

LEMMA AttachmentsKeep ==
    ASSUME EmlInv, RefuseAttachment \/ Skip \/ AttachInline \/ AttachData
    PROVE  EmlInv'
<1>1. PICK U, s, n :
        /\ n \in Nat /\ s = frames /\ n = Len(s) /\ n # 0 /\ Stack(U, s)
        /\ F = s[n] /\ F \in FramesOf(U) /\ FrameOK(F)
        /\ Front(frames) = SubSeq(s, 1, n - 1)
  BY TopFrame
<1>2. PICK f, a : f = F /\ a = Rows(f.message)[f.at + 1] OBVIOUS
<1>3. /\ InputInv /\ epc = "running" /\ f.stage = "attachments" /\ f.at < Len(Rows(f.message))
      /\ a = Current
  BY <1>2 DEF EmlInv, RefuseAttachment, Skip, AttachInline, AttachData, Accepted, AtAttachment, In,
              Current
<1>4. a \in Attachment BY <1>1, <1>2, <1>3, AtRow
<1>5. CASE RefuseAttachment
  <2>1. AttachmentRefusal(f, a) \in Results BY <1>4, AttachmentOutcome
  <2>2. QED BY <1>2, <1>3, <1>5, <2>1, RefuseKeeps DEF RefuseAttachment
<1>6. CASE Skip
  <2>1. PICK g : g = [f EXCEPT !.at = @ + 1, !.skipped = Append(@, f.at + 1)] OBVIOUS
  <2>2. a.method \in Method \ (CarriesBytes \cup {"EMBEDDED_MESSAGE"}) /\ Become(g)
    BY <1>2, <1>3, <1>6, <2>1 DEF Skip, Accepted
  <2>3. \A V : f \in FramesOf(V) => g \in FramesOf(V) /\ FrameOK(g) /\ SameCall(f, g)
    BY <1>1, <1>2, <1>3, <2>1, <2>2, RowSkipped
  <2>4. QED BY <1>1, <1>2, <1>3, <2>2, <2>3, BecomeKeeps
<1>7. CASE AttachInline
  <2>1. PICK g : g = [f EXCEPT !.at = @ + 1, !.inline = Append(@, f.at + 1),
                               !.root = IF f.htmlRoot THEN "related" ELSE @]
    OBVIOUS
  <2>2. /\ a.method \in CarriesBytes /\ AttachmentRefusal(f, a) = NoError /\ GoesInline(f, a)
        /\ Become(g)
    BY <1>2, <1>3, <1>7, <2>1 DEF AttachInline, Accepted
  <2>3. \A V : f \in FramesOf(V) => g \in FramesOf(V) /\ FrameOK(g) /\ SameCall(f, g)
    BY <1>1, <1>2, <1>3, <2>1, <2>2, RowInline
  <2>4. QED BY <1>1, <1>2, <1>3, <2>2, <2>3, BecomeKeeps
<1>8. CASE AttachData
  <2>1. PICK p : p = [index |-> f.at + 1, eml |-> <<>>] OBVIOUS
  <2>2. PICK g : g = [f EXCEPT !.at = @ + 1, !.root = "mixed", !.attached = Append(@, p)] OBVIOUS
  <2>3. /\ a.method \in CarriesBytes /\ AttachmentRefusal(f, a) = NoError /\ ~GoesInline(f, a)
    BY <1>2, <1>3, <1>8 DEF AttachData, Accepted
  <2>4. Become(g)
    <3>1. g = [F EXCEPT !.at = @ + 1, !.root = "mixed",
                        !.attached = Append(@, [index |-> F.at + 1, eml |-> <<>>])]
      BY <1>1, <1>2, <2>1, <2>2 DEF FramesOf
    <3>2. QED BY <1>8, <3>1 DEF AttachData
  <2>5. p.index = f.at + 1 /\ \A V : p \in Parts(V)
    <3>1. f.at \in Nat BY <1>1, <1>2 DEF FramesOf
    <3>2. QED BY <2>1, <3>1 DEF Parts
  <2>6. PartRight(f, p) BY <1>2, <2>1, <2>3, <2>5 DEF PartRight, CarriesBytes
  <2>7. IsPart(f.message, a) BY <1>1, <1>2, <1>3, <2>3, AtRow
  <2>8. \A V : f \in FramesOf(V) => g \in FramesOf(V) /\ FrameOK(g) /\ SameCall(f, g)
    <3>1. SUFFICES ASSUME NEW V, f \in FramesOf(V)
                   PROVE  g \in FramesOf(V) /\ FrameOK(g) /\ SameCall(f, g)
      OBVIOUS
    <3>2. p \in Parts(V) /\ p.index = f.at + 1 BY <2>5
    <3>3. IsPart(f.message, Rows(f.message)[f.at + 1]) BY <1>2, <2>7
    <3>4. FrameOK(f) BY <1>1, <1>2
    <3>5. QED BY <1>3, <2>2, <2>6, <3>1, <3>2, <3>3, <3>4, RowAttached
  <2>9. QED BY <1>1, <1>2, <1>3, <2>4, <2>8, BecomeKeeps
<1>9. QED BY <1>5, <1>6, <1>7, <1>8

LEMMA EnterKeeps ==
    ASSUME EmlInv, Enter
    PROVE  EmlInv'
<1>1. PICK U, s, n :
        /\ n \in Nat /\ s = frames /\ n = Len(s) /\ n # 0 /\ Stack(U, s)
        /\ F = s[n] /\ F \in FramesOf(U) /\ FrameOK(F)
        /\ Front(frames) = SubSeq(s, 1, n - 1)
  BY TopFrame
<1>2. PICK f, a : f = F /\ a = Rows(f.message)[f.at + 1] OBVIOUS
<1>3. /\ InputInv /\ epc = "running" /\ f.stage = "attachments" /\ f.at < Len(Rows(f.message))
      /\ a = Current /\ a.method = "EMBEDDED_MESSAGE" /\ AttachmentRefusal(f, a) = NoError
  BY <1>2 DEF EmlInv, Enter, Accepted, AtAttachment, In, Current
<1>4. a \in Attachment BY <1>1, <1>2, <1>3, AtRow
<1>5. PICK m, d, p : m = a.embeds.node /\ d = f.depth + 1 /\ p = ChildPrefix(f) OBVIOUS
<1>6. m \in Messages /\ d \in Nat /\ p \in Locals
  <2>1. m \in Messages BY <1>3, <1>4, <1>5, AttachmentOutcome
  <2>2. f.depth \in Nat /\ f.id \in Ids /\ f.prefix \in Locals BY <1>1, <1>2 DEF FramesOf
  <2>3. QED BY <1>5, <2>1, <2>2, LocalPartType DEF ChildPrefix
<1>7. PICK g : g = Frame(m, d, TRUE, p) OBVIOUS
<1>8. /\ g \in FramesOf(U) /\ FrameOK(g)
      /\ g.message = m /\ g.depth = d /\ g.synthesize = TRUE /\ g.prefix = p
  <2>1. PICK b : b = TRUE OBVIOUS
  <2>2. g = Frame(m, d, b, p) /\ b \in BOOLEAN BY <1>7, <2>1
  <2>3. /\ g \in FramesOf(U) /\ FrameOK(g)
        /\ g.message = m /\ g.depth = d /\ g.synthesize = b /\ g.prefix = p
    BY <1>6, <2>2, FrameBegins
  <2>4. QED BY <2>1, <2>3
<1>9. Carries(f, g) BY <1>2, <1>3, <1>5, <1>8 DEF Carries, Inner
<1>10. PICK t : t = Append(s, g) OBVIOUS
<1>11. Stack(U, t)
  <2>1. Chain(U, s) /\ Carries(s[Len(s)], g) BY <1>1, <1>2, <1>9 DEF Stack
  <2>2. Chain(U, t) BY <1>8, <1>10, <2>1, ChainExtended
  <2>3. QED BY <1>1, <2>2 DEF Stack
<1>12. t = frames' /\ UNCHANGED <<file, call, epc, built, error>>
  BY <1>1, <1>2, <1>3, <1>5, <1>7, <1>10 DEF Enter
<1>13. Stack(U, t)' BY <1>11, <1>12, StackStays
<1>14. \E V, r : r = frames' /\ Stack(V, r)' BY <1>12, <1>13
<1>15. QED BY <1>3, <1>12, <1>14 DEF EmlInv, InputInv

(* What is left is finished, and is right as a part of its carrier.        *)
WithInner(c, f) == [c EXCEPT !.at = @ + 1, !.root = "mixed",
                             !.attached = Append(@, [index |-> c.at + 1, eml |-> <<f>>])]

LEMMA CarrierTakes ==
    ASSUME InputInv, NEW U, NEW V, NEW c \in FramesOf(U), FrameOK(c),
           NEW f \in V, U \subseteq V, Carries(c, f),
           NEW g, g = WithInner(c, f)
    PROVE  g \in FramesOf(V) /\ FrameOK(g) /\ SameCall(c, g)
<1>1. c \in FramesOf(V) BY FramesGrow
<1>2. PICK a : a = Rows(c.message)[c.at + 1] OBVIOUS
<1>3. /\ c.stage = "attachments" /\ c.at < Len(Rows(c.message)) /\ a.method = "EMBEDDED_MESSAGE"
      /\ Inner(c, f, a.embeds.node)
  BY <1>2 DEF Carries
<1>4. PICK p : p = [index |-> c.at + 1, eml |-> <<f>>] OBVIOUS
<1>5. p \in Parts(V) /\ p.index = c.at + 1
  <2>1. c.at \in Nat BY DEF FramesOf
  <2>2. QED BY <1>4, <2>1 DEF Parts
<1>6. PartRight(c, p) BY <1>2, <1>3, <1>4 DEF PartRight
<1>7. IsPart(c.message, Rows(c.message)[c.at + 1]) BY <1>2, <1>3 DEF IsPart
<1>8. g = [c EXCEPT !.at = @ + 1, !.root = "mixed", !.attached = Append(@, p)]
  BY <1>4 DEF WithInner
<1>9. QED BY <1>1, <1>3, <1>5, <1>6, <1>7, <1>8, RowAttached

LEMMA LeaveKeeps ==
    ASSUME EmlInv, Leave
    PROVE  EmlInv'
<1>1. PICK U, s, n :
        /\ n \in Nat /\ s = frames /\ n = Len(s) /\ n # 0 /\ Stack(U, s)
        /\ F = s[n] /\ F \in FramesOf(U) /\ FrameOK(F)
        /\ Front(frames) = SubSeq(s, 1, n - 1)
  BY TopFrame
<1>2. n > 1 /\ Done(F) /\ InputInv /\ epc = "running"
  BY <1>1 DEF Leave, Complete, Assembled, In, Done, EmlInv
<1>3. PICK k \in Nat : k = n - 1 /\ k \in 1..Len(s) /\ n \in 2..Len(s)
  <2>1. n - 1 \in Nat /\ n - 1 \in 1..n /\ n \in 2..n BY <1>1, <1>2
  <2>2. QED BY <1>1, <2>1
<1>4. PICK c, f : c = s[k] /\ f = F OBVIOUS
<1>5. c \in FramesOf(U) /\ FrameOK(c) /\ Carries(c, f)
  <2>1. s \in Seq(FramesOf(U)) /\ FrameOK(s[k]) BY <1>1, <1>3 DEF Stack, Chain
  <2>2. Carries(s[n - 1], s[n]) BY <1>1, <1>3 DEF Stack, Chain
  <2>3. s[k] \in FramesOf(U) BY <1>3, <2>1, ElementOfSeq
  <2>4. QED BY <1>1, <1>3, <1>4, <2>1, <2>2, <2>3
<1>6. PICK V : V = U \cup {f} OBVIOUS
<1>7. U \subseteq V /\ f \in V BY <1>6
<1>8. Finished(V)
  <2>1. FramesOf(U) \subseteq FramesOf(V) BY <1>7, FramesGrow
  <2>2. U \subseteq FramesOf(U) /\ \A x \in U : Done(x) BY <1>1 DEF Stack, Finished
  <2>3. f \in FramesOf(U) /\ Done(f) BY <1>1, <1>2, <1>4
  <2>4. QED BY <1>6, <2>1, <2>2, <2>3 DEF Finished
<1>9. PICK g : g = WithInner(c, f) OBVIOUS
<1>10. g \in FramesOf(V) /\ FrameOK(g) /\ SameCall(c, g)
  BY <1>2, <1>5, <1>7, <1>9, CarrierTakes
<1>11. PICK t : t = Append(SubSeq(s, 1, k - 1), g) OBVIOUS
<1>12. Stack(V, t)
  <2>1. Cut(s, k, g, t) BY <1>3, <1>4, <1>10, <1>11 DEF Cut
  <2>2. Chain(U, s) BY <1>1 DEF Stack
  <2>3. Chain(V, t) BY <1>7, <1>10, <2>1, <2>2, ChainReplaced
  <2>4. QED BY <1>8, <2>3 DEF Stack
<1>13. t = frames' /\ UNCHANGED <<file, call, epc, built, error>>
  <2>1. Len(frames) - 1 = k /\ Len(frames) - 2 = k - 1 BY <1>1, <1>3
  <2>2. frames[Len(frames) - 1] = c BY <1>1, <1>4, <2>1
  <2>3. /\ frames' = Append(SubSeq(frames, 1, Len(frames) - 2),
              [frames[Len(frames) - 1] EXCEPT !.at = @ + 1, !.root = "mixed",
                 !.attached = Append(@, [index |-> frames[Len(frames) - 1].at + 1, eml |-> <<F>>])])
        /\ UNCHANGED <<file, call, epc, built, error>>
    BY DEF Leave
  <2>4. QED BY <1>1, <1>4, <1>9, <1>11, <2>1, <2>2, <2>3 DEF WithInner
<1>14. Stack(V, t)' BY <1>12, <1>13, StackStays
<1>15. \E W, r : r = frames' /\ Stack(W, r)' BY <1>13, <1>14
<1>16. QED BY <1>2, <1>13, <1>15 DEF EmlInv, InputInv

LEMMA EndKeeps ==
    ASSUME EmlInv, RefuseParts \/ Return
    PROVE  EmlInv'
<1>1. CASE RefuseParts
  <2>1. "TypeError" \in Results /\ "TypeError" # NoError BY DEF Results, NoError
  <2>2. QED BY <1>1, <2>1, RefuseKeeps DEF RefuseParts, Assembled, In
<1>2. CASE Return
  <2>1. PICK U, s, n :
          /\ n \in Nat /\ s = frames /\ n = Len(s) /\ n # 0 /\ Stack(U, s)
          /\ F = s[n] /\ F \in FramesOf(U) /\ FrameOK(F)
          /\ Front(frames) = SubSeq(s, 1, n - 1)
    BY TopFrame
  <2>2. /\ Len(frames) = 1 /\ Done(F) /\ InputInv /\ epc = "running"
        /\ epc' = "done" /\ built' = <<F>> /\ UNCHANGED <<file, call, frames, error>>
    BY <1>2, <2>1 DEF Return, Complete, Assembled, In, Done, EmlInv
  <2>3. Stack(U, s)' BY <2>1, <2>2, StackStays
  <2>4. \E V, r : r = frames' /\ Stack(V, r)' BY <2>1, <2>2, <2>3
  <2>5. PICK f : f = F OBVIOUS
  <2>6. f = frames[1] /\ Done(f)' BY <2>1, <2>2, <2>5, FrameStays
  <2>7. Len(frames') = 1 /\ built' = <<frames'[1]>> /\ Done(frames[1])'
    BY <2>2, <2>5, <2>6
  <2>8. QED BY <2>2, <2>4, <2>7 DEF EmlInv, InputInv
<1>3. QED BY <1>1, <1>2

(* Every action of to_eml, and a stutter, keeps it. *)
THEOREM EmlInvIsInductive == EmlInv /\ [Next]_emlvars => EmlInv'
<1>1. SUFFICES ASSUME EmlInv, [Next]_emlvars PROVE EmlInv' OBVIOUS
<1>2. CASE RefuseHeaders \/ WriteHeaders BY <1>1, <1>2, HeadersKeep
<1>3. CASE RefuseBodies \/ WriteBodies BY <1>1, <1>3, BodiesKeep
<1>4. CASE RefuseAttachment \/ Skip \/ AttachInline \/ AttachData BY <1>1, <1>4, AttachmentsKeep
<1>5. CASE RefuseParts \/ Return BY <1>1, <1>5, EndKeeps
<1>6. CASE Enter BY <1>1, <1>6, EnterKeeps
<1>7. CASE Leave BY <1>1, <1>7, LeaveKeeps
<1>8. CASE UNCHANGED emlvars
  <2>1. UNCHANGED <<file, call, frames, epc, built, error>> BY <1>8 DEF emlvars
  <2>2. PICK U, s : s = frames /\ Stack(U, s) BY <1>1 DEF EmlInv
  <2>3. Stack(U, s)' BY <2>1, <2>2, StackStays
  <2>4. \E V, r : r = frames' /\ Stack(V, r)' BY <2>1, <2>2, <2>3
  <2>5. ASSUME epc = "done" PROVE Done(frames[1])'
    <3>1. PICK f : f = frames[1] OBVIOUS
    <3>2. Done(f) BY <1>1, <2>5, <3>1 DEF EmlInv
    <3>3. Done(f)' BY <2>1, <3>2, FrameStays
    <3>4. QED BY <2>1, <3>1, <3>3
  <2>6. QED BY <1>1, <2>1, <2>4, <2>5 DEF EmlInv, InputInv
<1>9. QED BY <1>1, <1>2, <1>3, <1>4, <1>5, <1>6, <1>7, <1>8 DEF Next

(* The type of the frames is part of it. *)
THEOREM EmlTypeOKFollows == EmlInv => EmlTypeOK
<1>1. SUFFICES ASSUME EmlInv PROVE EmlTypeOK OBVIOUS
<1>2. PICK U, s : s = frames /\ Stack(U, s) BY <1>1 DEF EmlInv
<1>3. /\ s \in Seq(FramesOf(U)) /\ Len(s) > 0 /\ Root(s[1]) /\ InputInv
      /\ \A i \in 1..Len(s) : FrameOK(s[i])
      /\ \A i \in 2..Len(s) : Carries(s[i - 1], s[i])
  BY <1>1, <1>2 DEF Stack, Chain, EmlInv
<1>4. PICK n \in Nat : n = Len(s) /\ DOMAIN s = 1..n /\ \A i \in 1..n : s[i] \in FramesOf(U)
  BY <1>3, LenProperties, ElementOfSeq
<1>5. \A i \in DOMAIN s : s[i].stage \in {"headers", "bodies", "attachments"} /\ s[i].at \in 0..MaxAttachments
  <2>1. SUFFICES ASSUME NEW f \in FramesOf(U), FrameOK(f)
                 PROVE  f.stage \in {"headers", "bodies", "attachments"} /\ f.at \in 0..MaxAttachments
    BY <1>3, <1>4
  <2>2. f.stage \in Stages /\ f.at \in Nat /\ f.message \in Messages BY DEF FramesOf
  <2>3. MaxAttachments \in Nat BY EmlLimitsAssumption
  <2>4. CASE f.stage # "attachments" BY <2>1, <2>2, <2>3, <2>4 DEF FrameOK, Begun, Stages
  <2>5. CASE f.stage = "attachments"
    <3>1. BodiesRefusal(f.message) = NoError /\ f.at <= Len(Rows(f.message))
      BY <2>1, <2>5 DEF FrameOK, Bodied
    <3>2. Len(Rows(f.message)) <= MaxAttachments /\ Rows(f.message) \in Seq(Attachment)
      BY <1>3, <2>2, <3>1, RefusalTypes, MessageParts
    <3>3. Len(Rows(f.message)) \in Nat BY <3>2, LenProperties
    <3>4. f.at <= MaxAttachments BY <2>2, <2>3, <3>1, <3>2, <3>3
    <3>5. QED BY <2>2, <2>3, <2>5, <3>4
  <2>6. QED BY <2>4, <2>5
<1>6. \A i \in DOMAIN s \ {1} :
         LET carrier == s[i - 1]
         IN /\ s[i].depth = carrier.depth + 1
            /\ ~Exceeds(s[i].depth, call.maxDepth) /\ ~Exceeds(s[i].depth, StoreDepth)
            /\ carrier.stage = "attachments" /\ carrier.at < Len(Rows(carrier.message))
            /\ Rows(carrier.message)[carrier.at + 1].embeds.node = s[i].message
  <2>1. SUFFICES ASSUME NEW i \in 2..n, NEW c, NEW f, c = s[i - 1], f = s[i]
                 PROVE  /\ f.depth = c.depth + 1
                        /\ ~Exceeds(f.depth, call.maxDepth) /\ ~Exceeds(f.depth, StoreDepth)
                        /\ c.stage = "attachments" /\ c.at < Len(Rows(c.message))
                        /\ Rows(c.message)[c.at + 1].embeds.node = f.message
    <3>1. \A i \in DOMAIN s \ {1} : i \in 2..n BY <1>4
    <3>2. QED BY <3>1
  <2>2. i - 1 \in 1..n /\ i \in 2..Len(s) BY <1>4
  <2>3. c \in FramesOf(U) /\ FrameOK(c) /\ Carries(c, f) BY <1>3, <1>4, <2>1, <2>2
  <2>4. PICK a : a = Rows(c.message)[c.at + 1] OBVIOUS
  <2>5. /\ c.stage = "attachments" /\ c.at < Len(Rows(c.message))
        /\ a.method = "EMBEDDED_MESSAGE" /\ AttachmentRefusal(c, a) = NoError
        /\ Inner(c, f, a.embeds.node)
    BY <2>3, <2>4 DEF Carries
  <2>6. a \in Attachment BY <1>3, <2>3, <2>4, <2>5, AtRow
  <2>7. ~Exceeds(c.depth + 1, call.maxDepth) /\ ~Exceeds(c.depth + 1, StoreDepth)
    BY <2>5, <2>6, AttachmentOutcome
  <2>8. QED BY <2>4, <2>5, <2>7 DEF Inner
<1>7. QED BY <1>1, <1>2, <1>3, <1>5, <1>6 DEF EmlTypeOK, EmlInv, Root, Results

(* So it holds of every to_eml at every moment. *)
THEOREM EmlInvariant == Spec => []EmlInv
BY EmlInvInit, EmlInvIsInductive, PTL DEF Spec

(* The frames of _assemble are typed, each belongs to the one before it,   *)
(* and none is deeper than the call and the store allow.                   *)
THEOREM EmlTypeCorrect == Spec => []EmlTypeOK
BY EmlInvariant, EmlTypeOKFollows, PTL

-----------------------------------------------------------------------------
(* What an .eml carries, level by level.                                   *)
Levels(e) == CHOOSE level :
    level = [n \in 0..StoreDepth |->
                IF n = 0 THEN {e} ELSE UNION {Carried(x) : x \in level[n - 1]}]

LEMMA LevelsAre ==
    ASSUME NEW W, NEW e \in W, \A x \in W : Carried(x) \subseteq W
    PROVE  /\ Levels(e) = [n \in 0..StoreDepth |->
                  IF n = 0 THEN {e} ELSE UNION {Carried(x) : x \in Levels(e)[n - 1]}]
           /\ \A n \in 0..StoreDepth : Levels(e)[n] \subseteq W
<1> DEFINE down(L) == UNION {Carried(x) : x \in L}
           step == [n \in Nat |-> [L \in SUBSET W |-> down(L)]]
           IsLevels(level) == level = [n \in 0..StoreDepth |->
                                         IF n = 0 THEN {e} ELSE down(level[n - 1])]
<1>1. StoreDepth \in Nat BY EmlLimitsAssumption
<1>2. \A L \in SUBSET W : down(L) \in SUBSET W OBVIOUS
<1>3. step \in [Nat -> [SUBSET W -> SUBSET W]] BY <1>2
<1>4. {e} \in SUBSET W OBVIOUS
<1>5. PICK f \in [0..StoreDepth -> SUBSET W] : IsRecursion(f, {e}, step, StoreDepth)
  <2> HIDE DEF step
  <2>1. QED BY <1>1, <1>3, <1>4, RecursionExists
<1>6. \A n \in 0..StoreDepth : n # 0 => step[n][f[n - 1]] = down(f[n - 1])
  <2>1. SUFFICES ASSUME NEW n \in 0..StoreDepth, n # 0 PROVE step[n][f[n - 1]] = down(f[n - 1])
    OBVIOUS
  <2>2. n \in Nat /\ n - 1 \in 0..StoreDepth BY <1>1, <2>1
  <2>3. f[n - 1] \in SUBSET W BY <2>2
  <2>4. QED BY <2>2, <2>3
<1>7. IsLevels(f)
  <2> HIDE DEF step, down
  <2>1. \A n \in 0..StoreDepth : f[n] = IF n = 0 THEN {e} ELSE step[n][f[n - 1]]
    BY <1>5 DEF IsRecursion
  <2>2. \A n \in 0..StoreDepth : f[n] = IF n = 0 THEN {e} ELSE down(f[n - 1]) BY <1>6, <2>1
  <2>3. f = [n \in 0..StoreDepth |-> f[n]] OBVIOUS
  <2>4. QED BY <2>2, <2>3
<1>8. IsLevels(Levels(e)) BY <1>7 DEF Levels
<1> DEFINE bad == {n \in 0..StoreDepth : ~(Levels(e)[n] \subseteq W)}
<1>9. \A n \in 0..StoreDepth :
        Levels(e)[n] = IF n = 0 THEN {e} ELSE down(Levels(e)[n - 1])
  <2> HIDE DEF down
  <2>1. QED BY <1>8
<1>10. bad = {}
  <2>1. SUFFICES ASSUME bad # {} PROVE FALSE OBVIOUS
  <2>2. bad \in SUBSET Nat BY <1>1
  <2>3. PICK n \in bad : \A k \in bad : n <= k BY <2>1, <2>2, LeastElement
  <2>4. n # 0 BY <1>4, <1>9, <2>3
  <2>5. n - 1 \in 0..StoreDepth /\ ~(n <= n - 1) BY <1>1, <2>3, <2>4
  <2>6. Levels(e)[n - 1] \in SUBSET W BY <2>3, <2>5
  <2>7. Levels(e)[n] = down(Levels(e)[n - 1]) BY <1>9, <2>3, <2>4
  <2>8. QED BY <1>2, <2>3, <2>6, <2>7
<1>11. QED BY <1>8, <1>10

LEMMA EmlsAre ==
    ASSUME NEW W, NEW e \in W, \A x \in W : Carried(x) \subseteq W
    PROVE  /\ Emls(e) \subseteq W /\ e \in Emls(e)
           /\ \A x \in Emls(e) : x = e \/ \E c \in Emls(e) : x \in Carried(c)
<1>1. PICK l : l = Levels(e) OBVIOUS
<1>2. /\ l = [n \in 0..StoreDepth |-> IF n = 0 THEN {e} ELSE UNION {Carried(x) : x \in l[n - 1]}]
      /\ \A n \in 0..StoreDepth : l[n] \subseteq W
  BY <1>1, LevelsAre
<1>3. StoreDepth \in Nat BY EmlLimitsAssumption
<1>4. Emls(e) = UNION {l[n] : n \in 0..StoreDepth} BY <1>1 DEF Emls, Levels
<1>5. l[0] = {e} /\ 0 \in 0..StoreDepth BY <1>2, <1>3
<1>6. \A x \in Emls(e) : x = e \/ \E c \in Emls(e) : x \in Carried(c)
  <2>1. SUFFICES ASSUME NEW n \in 0..StoreDepth, NEW x \in l[n], x # e
                 PROVE  \E c \in Emls(e) : x \in Carried(c)
    BY <1>4
  <2>2. n # 0 BY <1>5, <2>1
  <2>3. l[n] = UNION {Carried(c) : c \in l[n - 1]} BY <1>2, <2>2
  <2>4. n - 1 \in 0..StoreDepth BY <1>3, <2>2
  <2>5. PICK c \in l[n - 1] : x \in Carried(c) BY <2>1, <2>3
  <2>6. c \in Emls(e) BY <1>4, <2>4
  <2>7. QED BY <2>5, <2>6
<1>7. Emls(e) \subseteq W BY <1>2, <1>4
<1>8. e \in Emls(e) BY <1>4, <1>5
<1>9. QED BY <1>6, <1>7, <1>8

LEMMA IndicesAreOf ==
    ASSUME NEW U, NEW s \in Seq(Parts(U))
    PROVE  Indices(s) \in Seq(Nat) /\ Len(Indices(s)) = Len(s)
<1>1. PICK n \in Nat : n = Len(s) /\ DOMAIN s = 1..n OBVIOUS
<1>2. \A q \in Parts(U) : q.index \in Nat BY DEF Parts
<1>3. \A i \in 1..n : s[i].index \in Nat BY <1>1, <1>2
<1>4. Indices(s) = [i \in 1..n |-> s[i].index] BY <1>1 DEF Indices
<1>5. QED BY <1>1, <1>3, <1>4

(* A finished message, by its rows.                                        *)
LEMMA DoneRows ==
    ASSUME InputInv, NEW U, NEW e \in FramesOf(U), Done(e)
    PROVE  /\ e.message \in Messages /\ Rows(e.message) \in Seq(Attachment)
           /\ Len(Rows(e.message)) \in Nat /\ DOMAIN Rows(e.message) = 1..e.at
           /\ e.at = Len(Rows(e.message)) /\ file[e.message].table.kind = "rows"
<1>1. e.message \in Messages /\ BodiesRefusal(e.message) = NoError /\ e.at = Len(Rows(e.message))
  BY DEF FramesOf, Done, FrameOK, Bodied
<1>2. file[e.message].table.kind = "rows" BY <1>1, RefusalTypes
<1>3. Rows(e.message) \in Seq(Attachment) BY <1>1, <1>2, MessageParts
<1>4. QED BY <1>1, <1>2, <1>3, LenProperties

(* What a finished message carries is finished, and carried by a row of it *)
LEMMA CarriedRight ==
    ASSUME InputInv, NEW U, NEW e \in FramesOf(U), Done(e), NEW x \in Carried(e)
    PROVE  /\ x \in U
           /\ \E k \in DOMAIN Rows(e.message) :
                /\ Rows(e.message)[k].method = "EMBEDDED_MESSAGE"
                /\ Inner(e, x, Rows(e.message)[k].embeds.node)
<1>1. e.attached \in Seq(Parts(U)) BY DEF FramesOf
<1>2. PICK i \in DOMAIN e.attached : e.attached[i].eml # <<>> /\ x = e.attached[i].eml[1]
  BY DEF Carried
<1>3. PICK p : p = e.attached[i] OBVIOUS
<1>4. i \in 1..Len(e.attached) /\ p \in Parts(U)
  BY <1>1, <1>2, <1>3, LenProperties, ElementOfSeq
<1>5. p.eml # <<>> /\ x = p.eml[1] BY <1>2, <1>3
<1>6. x \in U
  <2>1. p.eml \in {<<y>> : y \in U} BY <1>4, <1>5 DEF Parts
  <2>2. QED BY <1>5, <2>1
<1>7. PartRight(e, p) BY <1>3, <1>4 DEF Done, FrameOK, Sorted
<1>8. p.index \in DOMAIN Rows(e.message)
  <2>1. Indices(e.attached)[i] = p.index /\ Len(Indices(e.attached)) = Len(e.attached)
    BY <1>1, <1>2, <1>3, IndicesAreOf DEF Indices
  <2>2. Numbered(Indices(e.attached), e.at) BY DEF Done, FrameOK, Taken
  <2>3. p.index \in 1..e.at BY <1>4, <2>1, <2>2 DEF Numbered
  <2>4. QED BY <2>3, DoneRows
<1>9. QED BY <1>5, <1>6, <1>7, <1>8 DEF PartRight

(* Everything that an .eml carries is a finished frame. *)
LEMMA AllFinished ==
    ASSUME EmlInv, epc = "done"
    PROVE  \E U, top :
             /\ Finished(U) /\ top \in FramesOf(U) /\ Done(top) /\ Root(top)
             /\ built[1] = top /\ top \in Emls(top)
             /\ \A x \in Emls(top) : x \in FramesOf(U) /\ Done(x)
             /\ \A x \in Emls(top) : x = top \/ \E c \in Emls(top) : x \in Carried(c)
<1>1. PICK U, s : s = frames /\ Stack(U, s) BY DEF EmlInv
<1>2. PICK top : top = s[1] OBVIOUS
<1>3. Finished(U) /\ Root(top) /\ top \in FramesOf(U) /\ InputInv
  <2>1. s \in Seq(FramesOf(U)) /\ Len(s) > 0 BY <1>1 DEF Stack, Chain
  <2>2. 1 \in 1..Len(s) BY <2>1, LenProperties
  <2>3. s[1] \in FramesOf(U) BY <2>1, <2>2, ElementOfSeq
  <2>4. QED BY <1>1, <1>2, <2>3 DEF Stack, Chain, EmlInv
<1>4. built[1] = top /\ Done(top)
  <2>1. built = <<top>> /\ Done(top) BY <1>1, <1>2 DEF EmlInv
  <2>2. QED BY <2>1
<1>5. PICK W : W = U \cup {top} OBVIOUS
<1>6. \A x \in W : x \in FramesOf(U) /\ Done(x) BY <1>3, <1>4, <1>5 DEF Finished
<1>7. \A x \in W : Carried(x) \subseteq W
  <2>1. \A x \in W : \A y \in Carried(x) : y \in U BY <1>3, <1>6, CarriedRight
  <2>2. QED BY <1>5, <2>1
<1>8. /\ Emls(top) \subseteq W /\ top \in Emls(top)
      /\ \A x \in Emls(top) : x = top \/ \E c \in Emls(top) : x \in Carried(c)
  <2>1. top \in W BY <1>5
  <2>2. QED BY <1>7, <2>1, EmlsAre
<1>9. QED BY <1>3, <1>4, <1>6, <1>8

LEMMA OnceAt ==
    ASSUME InputInv, NEW U, NEW e \in FramesOf(U), Done(e)
    PROVE  EachOnce(e)
<1>1. PICK rows, a, b, c, p :
        /\ a \in Seq(Nat) /\ b \in Seq(Nat) /\ c \in Seq(Nat) /\ p \in Seq(Parts(U))
        /\ rows = Rows(e.message) /\ a = e.inline /\ p = e.attached /\ b = Indices(p)
        /\ c = e.skipped /\ Len(b) = Len(p)
  <2>1. e.inline \in Seq(Nat) /\ e.attached \in Seq(Parts(U)) /\ e.skipped \in Seq(Nat)
    BY DEF FramesOf
  <2>2. Indices(e.attached) \in Seq(Nat) /\ Len(Indices(e.attached)) = Len(e.attached)
    BY <2>1, IndicesAreOf
  <2>3. QED BY <2>1, <2>2
<1>2. /\ Numbered(a, e.at) /\ Numbered(b, e.at) /\ Numbered(c, e.at)
      /\ ToSet(a) \cup ToSet(b) \cup ToSet(c) = 1..e.at
      /\ Len(a) + Len(b) + Len(c) = e.at
  BY <1>1 DEF Done, FrameOK, Taken
<1>3. DOMAIN rows = 1..e.at /\ e.at = Len(rows) BY <1>1, DoneRows
<1>4. PICK taken : taken = a \o b \o c OBVIOUS
<1>5. ToSet(taken) = 1..e.at /\ Len(taken) = e.at
  <2>1. PICK d : d = a \o b OBVIOUS
  <2>2. d \in Seq(Nat) /\ ToSet(d) = ToSet(a) \cup ToSet(b) BY <1>1, <2>1, PushMembers
  <2>0. taken = d \o c BY <1>4, <2>1
  <2>3. ToSet(taken) = ToSet(d) \cup ToSet(c) BY <1>1, <2>0, <2>2, PushMembers
  <2>4. Len(d) = Len(a) + Len(b) BY <1>1, <2>1, ConcatProperties
  <2>5. Len(taken) = Len(d) + Len(c) BY <1>1, <2>0, <2>2, ConcatProperties
  <2>6. QED BY <1>2, <2>2, <2>3, <2>4, <2>5
<1>6. /\ \A i \in 1..(Len(a) - 1) : a[i] < a[i + 1]
      /\ \A i \in 1..(Len(b) - 1) : b[i] < b[i + 1]
      /\ \A i \in 1..(Len(c) - 1) : c[i] < c[i + 1]
  BY <1>2 DEF Numbered
<1>7. Sorted(e) BY DEF Done, FrameOK
<1>8. \A i \in ToSet(c) : rows[i].method \in {"BY_REFERENCE", "NONE"}
  <2>1. SUFFICES ASSUME NEW k \in DOMAIN c PROVE rows[c[k]].method \in {"BY_REFERENCE", "NONE"}
    BY DEF ToSet
  <2>2. k \in 1..Len(c) BY <1>1, LenProperties
  <2>3. QED BY <1>1, <1>7, <2>2 DEF Sorted, SkippedRight
<1>9. \A i \in ToSet(a) : rows[i].inline /\ "html" \in Bodies(e.message)
  <2>1. SUFFICES ASSUME NEW k \in DOMAIN a PROVE rows[a[k]].inline /\ "html" \in Bodies(e.message)
    BY DEF ToSet
  <2>2. k \in 1..Len(a) BY <1>1, LenProperties
  <2>3. QED BY <1>1, <1>7, <2>2 DEF Sorted, InlineRight
<1>10. \A q \in ToSet(p) :
         IF rows[q.index].method = "EMBEDDED_MESSAGE"
         THEN /\ q.eml # <<>> /\ q.eml[1].message = rows[q.index].embeds.node
              /\ q.eml[1].depth = e.depth + 1
         ELSE q.eml = <<>> /\ rows[q.index].method \in CarriesBytes
  <2>1. \A q \in ToSet(p) : PartRight(e, q)
    <3>1. SUFFICES ASSUME NEW k \in DOMAIN p PROVE PartRight(e, p[k]) BY DEF ToSet
    <3>2. k \in 1..Len(p) BY <1>1, LenProperties
    <3>3. QED BY <1>1, <1>7, <3>2 DEF Sorted
  <2>2. QED BY <1>1, <2>1 DEF PartRight, Inner
<1>11. b = [i \in DOMAIN e.attached |-> e.attached[i].index] BY <1>1 DEF Indices
<1>12. QED BY <1>1, <1>3, <1>4, <1>5, <1>6, <1>8, <1>9, <1>10, <1>11 DEF EachOnce

(* What is returned carries finished frames only.                          *)
THEOREM AttachmentsOnceFollows == EmlInv => AttachmentsOnce
<1>1. SUFFICES ASSUME EmlInv, epc = "done" PROVE \A e \in Emls(built[1]) : EachOnce(e)
  BY DEF AttachmentsOnce
<1>2. PICK U, top : built[1] = top /\ \A x \in Emls(top) : x \in FramesOf(U) /\ Done(x)
  BY <1>1, AllFinished
<1>3. InputInv BY <1>1 DEF EmlInv
<1>4. \A e \in Emls(top) : EachOnce(e) BY <1>2, <1>3, OnceAt
<1>5. QED BY <1>2, <1>4

-----------------------------------------------------------------------------
(* The ids of an .eml.                                                     *)
Invented(x) == x.id = [local |-> InventedLocal(x.message, x.prefix), domain |-> "synthetic"]
Bare == [base |-> "own", path |-> <<>>]

LEMMA IdKinds ==
    ASSUME InputInv, NEW U, NEW x \in FramesOf(U), Done(x)
    PROVE  /\ x.id # NoId => Given(x) \/ Invented(x)
           /\ x.synthesize => x.id # NoId
<1>1. /\ x.made = IF x.synthesize THEN MadeNames(x.message) ELSE {}
      /\ x.id = Id(x.message, x.made, x.prefix)
  BY DEF Done, FrameOK, Headed
<1>2. x.id # NoId => Given(x) \/ Invented(x) BY <1>1 DEF Id, Given, Invented
<1>3. ASSUME x.synthesize PROVE x.id # NoId
  <2>1. "Message-ID" \in PassedNames(x.message) \/ "Message-ID" \in x.made
    BY <1>1, <1>3 DEF MadeNames, Made, ToSet, MadeOrder
  <2>2. x.message \in Messages BY DEF FramesOf
  <2>3. /\ file[x.message].ids["delivered"].domain \in Domains
        /\ file[x.message].ids["stored"].domain \in Domains
        /\ [local |-> InventedLocal(x.message, x.prefix), domain |-> "synthetic"].domain \in Domains
    BY <2>2, MessageParts, EmlIdsAssumption
  <2>4. x.id.domain \in Domains BY <1>1, <2>1, <2>3 DEF Id
  <2>5. NoId.domain \notin Domains BY EmlIdsAssumption DEF NoId
  <2>6. QED BY <2>4, <2>5
<1>4. QED BY <1>2, <1>3

(* The local part of an id that is made.                                   *)
LEMMA InventedPart ==
    ASSUME InputInv, NEW U, NEW x \in FramesOf(U), Invented(x)
    PROVE  /\ LocalPart(x.id) = InventedLocal(x.message, x.prefix)
           /\ LocalPart(x.id).path # <<>>
<1>1. x.message \in Messages /\ x.prefix \in Locals /\ x.id \in Ids BY DEF FramesOf
<1>2. x.id.local = InventedLocal(x.message, x.prefix) BY DEF Invented
<1>3. LocalPart(x.id) = InventedLocal(x.message, x.prefix)
  BY <1>1, <1>2, InventedParts, LocalPartType
<1>4. Len(<<>>) = 0 OBVIOUS
<1>5. QED BY <1>1, <1>3, <1>4, InventedParts

(* Local parts that are equal came with one message, or were made at one   *)
(* place.                                                                  *)
LEMMA EqualIds ==
    ASSUME InputInv, NEW U, NEW x \in FramesOf(U), NEW y \in FramesOf(U),
           Given(x) \/ Invented(x), Given(y) \/ Invented(y),
           Given(x) => LocalPart(x.id).path = <<>>, Given(y) => LocalPart(y.id).path = <<>>,
           Given(x) /\ Given(y) => x.message = y.message,
           x.prefix # Bare, y.prefix # Bare,
           LocalPart(x.id) = LocalPart(y.id)
    PROVE  \/ x.message = y.message
           \/ /\ x.prefix = y.prefix
              /\ file[x.message].nid = file[y.message].nid
              /\ Len(LocalPart(x.id).path) = Len(x.prefix.path) + 1
<1>1. x.message \in Messages /\ y.message \in Messages /\ x.prefix \in Locals /\ y.prefix \in Locals
  BY DEF FramesOf
<1>2. CASE Given(x) /\ Given(y) BY <1>2
<1>3. CASE Given(x) /\ Invented(y) BY <1>3, InventedPart
<1>4. CASE Invented(x) /\ Given(y) BY <1>4, InventedPart
<1>5. CASE Invented(x) /\ Invented(y)
  <2>1. PICK k, n : k = file[x.message].nid /\ n = file[y.message].nid OBVIOUS
  <2>2. k \in Nids /\ n \in Nids BY <1>1, <2>1, MessageParts
  <2>3. PICK p \in Seq(Nids), q \in Seq(Nids) : p = x.prefix.path /\ q = y.prefix.path
    BY <1>1 DEF Locals
  <2>4. PICK pk, qn : pk = Append(p, k) /\ qn = Append(q, n) OBVIOUS
  <2>5. /\ Len(pk) = Len(p) + 1 /\ pk[Len(p) + 1] = k /\ Len(p) \in Nat
        /\ Len(qn) = Len(q) + 1 /\ qn[Len(q) + 1] = n /\ Len(q) \in Nat
    BY <2>2, <2>3, <2>4, AppendProperties, LenProperties
  <2>6. PICK l, r : l = InventedLocal(x.message, x.prefix) /\ r = InventedLocal(y.message, y.prefix)
    OBVIOUS
  <2>7. l = r /\ LocalPart(x.id) = l BY <1>5, <2>6, InventedPart
  <2>8. l.path = pk /\ r.path = qn BY <1>1, <2>1, <2>3, <2>4, <2>6, InventedParts
  <2>9. /\ l.base = IF x.prefix = NoLocal THEN "own" ELSE x.prefix.base
        /\ r.base = IF y.prefix = NoLocal THEN "own" ELSE y.prefix.base
    BY <1>1, <2>6, InventedParts
  <2>10. pk = qn BY <2>7, <2>8
  <2>11. Len(p) = Len(q) /\ k = n BY <2>5, <2>10
  <2>12. p = q
    <3>1. \A i \in 1..Len(p) : p[i] = pk[i] BY <2>2, <2>3, <2>4, AppendProperties
    <3>2. \A i \in 1..Len(q) : q[i] = qn[i] BY <2>2, <2>3, <2>4, AppendProperties
    <3>3. \A i \in 1..Len(p) : p[i] = q[i] BY <2>10, <2>11, <3>1, <3>2
    <3>4. QED BY <2>3, <2>11, <3>3, SeqEqual
  <2>13. x.prefix = y.prefix
    <3>1. /\ x.prefix = [base |-> x.prefix.base, path |-> p]
          /\ y.prefix = [base |-> y.prefix.base, path |-> q]
      BY <1>1, <2>3 DEF Locals
    <3>2. x.prefix = NoLocal => p = <<>> BY <2>3, NoLocalType
    <3>3. y.prefix = NoLocal => q = <<>> BY <2>3, NoLocalType
    <3>4. (x.prefix.base = "own" /\ p = <<>>) => x.prefix = Bare BY <3>1 DEF Bare
    <3>5. (y.prefix.base = "own" /\ q = <<>>) => y.prefix = Bare BY <3>1 DEF Bare
    <3>6. x.prefix = NoLocal <=> y.prefix = NoLocal
      BY <2>7, <2>9, <2>12, <3>2, <3>3, <3>4, <3>5
    <3>7. QED BY <2>7, <2>9, <2>12, <3>1, <3>6
  <2>14. QED BY <2>1, <2>3, <2>5, <2>7, <2>8, <2>11, <2>13
<1>6. QED BY <1>2, <1>3, <1>4, <1>5

(* The carriers of two messages whose invented ids are equal have equal    *)
(* local parts, or are both the message that was asked for; so by the      *)
(* shortest pair that would not tell apart there is none.                  *)
THEOREM IdsTellApartFollows == EmlInv => IdsTellApart
<1>1. SUFFICES ASSUME EmlInv, epc = "done", SiblingsDiffer, GivenTellApart
               PROVE  \A x, y \in Emls(built[1]) :
                        (x.id # NoId /\ x.id = y.id) => x.message = y.message
  BY DEF IdsTellApart
<1>2. PICK U, top :
        /\ Finished(U) /\ top \in FramesOf(U) /\ Done(top) /\ Root(top)
        /\ built[1] = top /\ top \in Emls(top)
        /\ \A x \in Emls(top) : x \in FramesOf(U) /\ Done(x)
        /\ \A x \in Emls(top) : x = top \/ \E c \in Emls(top) : x \in Carried(c)
  BY <1>1, AllFinished
<1>3. InputInv BY <1>1 DEF EmlInv
<1>4. PICK E : E = Emls(top) OBVIOUS
<1>5. \A x \in E : x \in FramesOf(U) /\ Done(x) /\ x.id \in Ids /\ Len(LocalPart(x.id).path) \in Nat
  <2>1. \A x \in E : x \in FramesOf(U) /\ Done(x) BY <1>2, <1>4
  <2>2. \A x \in E : x.id \in Ids BY <2>1 DEF FramesOf
  <2>3. \A x \in E : LocalPart(x.id).path \in Seq(Nids) BY <2>2, LocalPartType DEF Locals
  <2>4. QED BY <2>1, <2>2, <2>3, LenProperties
<1>6. \A x \in E : x # top => \E c \in E : /\ x \in Carried(c) /\ x.message \in CarriedNids(c.message)
                                           /\ x.prefix = ChildPrefix(c) /\ x.id # NoId
  <2>1. SUFFICES ASSUME NEW x \in E, NEW c \in E, x \in Carried(c)
                 PROVE  x.message \in CarriedNids(c.message) /\ x.prefix = ChildPrefix(c) /\ x.id # NoId
    BY <1>2, <1>4
  <2>2. PICK k \in DOMAIN Rows(c.message) :
          /\ Rows(c.message)[k].method = "EMBEDDED_MESSAGE"
          /\ Inner(c, x, Rows(c.message)[k].embeds.node)
    BY <1>3, <1>5, <2>1, CarriedRight
  <2>3. x.message \in CarriedNids(c.message) BY <2>2 DEF CarriedNids, Inner
  <2>4. x.synthesize /\ x.prefix = ChildPrefix(c) BY <2>2 DEF Inner
  <2>5. x.id # NoId BY <1>3, <1>5, <2>4, IdKinds
  <2>6. QED BY <2>3, <2>4, <2>5
<1>7. \A x, c \in E : x.prefix = ChildPrefix(c) =>
        IF c.id # NoId THEN x.prefix = LocalPart(c.id) /\ x.prefix # NoLocal
        ELSE c = top /\ x.prefix = NoLocal
  <2>1. top.prefix = NoLocal BY <1>2 DEF Root
  <2>2. QED BY <1>5, <1>6, <2>1, LocalPartType DEF ChildPrefix
<1>8. \A x, y \in E :
        Given(x) => /\ LocalPart(x.id).path = <<>> /\ LocalPart(x.id).base # "own"
                    /\ (Given(y) /\ LocalPart(x.id) = LocalPart(y.id)) => x.message = y.message
  BY <1>1, <1>2, <1>4 DEF GivenTellApart
<1>9. \A x \in E : x.prefix # Bare
  <2>1. NoLocal # Bare
    <3>1. Bare.base = "own" BY DEF Bare
    <3>2. QED BY <3>1, NoLocalType
  <2>2. ASSUME NEW c \in E, c.id # NoId PROVE LocalPart(c.id) # Bare
    <3>1. Bare.base = "own" /\ Bare.path = <<>> BY DEF Bare
    <3>2. CASE Given(c) BY <1>8, <3>1, <3>2
    <3>3. CASE Invented(c) BY <1>3, <1>5, <3>1, <3>3, InventedPart
    <3>4. QED BY <1>3, <1>5, <2>2, <3>2, <3>3, IdKinds
  <2>3. ASSUME NEW x \in E PROVE x.prefix # Bare
    <3>1. CASE x = top BY <1>2, <2>1, <3>1 DEF Root
    <3>2. CASE x # top
      <4>1. PICK c \in E : x.prefix = ChildPrefix(c) BY <1>6, <3>2
      <4>2. QED BY <1>7, <2>1, <2>2, <4>1
    <3>3. QED BY <3>1, <3>2
  <2>4. QED BY <2>3
<1>10. ASSUME NEW c \in E, NEW d \in E, c.message = d.message,
              NEW x \in E, NEW y \in E,
              x.message \in CarriedNids(c.message), y.message \in CarriedNids(d.message),
              file[x.message].nid = file[y.message].nid
       PROVE  x.message = y.message
  <2>1. x.message \in Messages /\ y.message \in Messages /\ c.message \in Messages
        /\ file[c.message].table.kind = "rows"
    BY <1>3, <1>5, DoneRows
  <2>2. QED BY <1>1, <1>10, <2>1 DEF SiblingsDiffer
<1> DEFINE Clash(x, y) == /\ x.id # NoId /\ y.id # NoId /\ LocalPart(x.id) = LocalPart(y.id)
                          /\ x.message # y.message
           bad == {n \in Nat : \E x, y \in E : Len(LocalPart(x.id).path) = n /\ Clash(x, y)}
<1>11. bad = {}
  <2>1. SUFFICES ASSUME bad # {} PROVE FALSE OBVIOUS
  <2>2. PICK n \in bad : \A k \in bad : n <= k
    <3> HIDE DEF Clash
    <3>1. QED BY <2>1, LeastElement
  <2>3. PICK x \in E, y \in E : Len(LocalPart(x.id).path) = n /\ Clash(x, y) BY <2>2
  <2>4. /\ x.prefix = y.prefix
        /\ file[x.message].nid = file[y.message].nid /\ n = Len(x.prefix.path) + 1
    <3>1. x.id # NoId /\ y.id # NoId /\ LocalPart(x.id) = LocalPart(y.id) /\ x.message # y.message
      BY <2>3
    <3>2. (Given(x) \/ Invented(x)) /\ (Given(y) \/ Invented(y)) BY <1>3, <1>5, <3>1, IdKinds
    <3>3. x \in FramesOf(U) /\ y \in FramesOf(U) /\ x.prefix # Bare /\ y.prefix # Bare
      BY <1>5, <1>9, <2>3
    <3>4. /\ Given(x) => LocalPart(x.id).path = <<>>
          /\ Given(y) => LocalPart(y.id).path = <<>>
          /\ Given(x) /\ Given(y) => x.message = y.message
      BY <1>8, <2>3, <3>1
    <3>5. QED BY <1>3, <2>3, <3>1, <3>2, <3>3, <3>4, EqualIds
  <2>5. x # y BY <2>3
  <2>6. top.prefix = NoLocal BY <1>2 DEF Root
  <2>7. top.id # NoId \/ (x # top /\ y # top) BY <2>3
  <2>8. ASSUME NEW z \in E, z \in {x, y}, z.prefix = NoLocal PROVE FALSE
    <3>1. CASE x = top \/ y = top
      <4>1. top.id # NoId BY <2>7, <3>1
      <4>2. PICK w \in E : w \in {x, y} /\ w # top BY <2>3, <2>5, <3>1
      <4>3. w.prefix = NoLocal BY <2>4, <2>8, <4>2
      <4>4. PICK c \in E : w.prefix = ChildPrefix(c) BY <1>6, <4>2
      <4>5. c.id = NoId BY <1>7, <4>2, <4>3, <4>4
      <4>6. QED BY <1>7, <4>1, <4>2, <4>4, <4>5
    <3>2. CASE x # top /\ y # top
      <4>1. x.prefix = NoLocal /\ y.prefix = NoLocal BY <2>4, <2>8
      <4>2. PICK c \in E : x.prefix = ChildPrefix(c) /\ x.message \in CarriedNids(c.message)
        BY <1>6, <2>3, <3>2
      <4>3. PICK d \in E : y.prefix = ChildPrefix(d) /\ y.message \in CarriedNids(d.message)
        BY <1>6, <2>3, <3>2
      <4>4. c = top /\ d = top BY <1>7, <2>3, <4>1, <4>2, <4>3
      <4>5. QED BY <1>10, <2>3, <2>4, <4>2, <4>3, <4>4
    <3>3. QED BY <3>1, <3>2
  <2>9. x.prefix # NoLocal /\ y.prefix # NoLocal BY <2>3, <2>8
  <2>10. x # top /\ y # top BY <2>6, <2>9
  <2>11. PICK c \in E : x.prefix = ChildPrefix(c) /\ x.message \in CarriedNids(c.message)
    BY <1>6, <2>3, <2>10
  <2>12. PICK d \in E : y.prefix = ChildPrefix(d) /\ y.message \in CarriedNids(d.message)
    BY <1>6, <2>3, <2>10
  <2>13. c.id # NoId /\ LocalPart(c.id) = x.prefix /\ d.id # NoId /\ LocalPart(d.id) = x.prefix
    BY <1>7, <2>3, <2>4, <2>9, <2>11, <2>12
  <2>14. c.message # d.message BY <1>10, <2>3, <2>4, <2>11, <2>12
  <2>15. Clash(c, d) BY <2>13, <2>14
  <2>16. Len(LocalPart(c.id).path) \in Nat /\ n = Len(LocalPart(c.id).path) + 1
    BY <1>5, <2>4, <2>11, <2>13
  <2>17. Len(LocalPart(c.id).path) \in bad BY <2>11, <2>12, <2>15, <2>16
  <2>18. QED BY <2>2, <2>16, <2>17
<1>12. ASSUME NEW x \in E, NEW y \in E, x.id # NoId, x.id = y.id PROVE x.message = y.message
  BY <1>5, <1>11, <1>12
<1>13. QED BY <1>2, <1>4, <1>12

(* Whatever the file, each attachment of each message of an .eml is in it  *)
(* once, as what it is and in its place: _add_attachments at every depth.  *)
THEOREM AttachmentsAreOnce == Spec => []AttachmentsOnce
BY EmlInvariant, AttachmentsOnceFollows, PTL

(* Where siblings have different NIDs, the ids of an .eml tell its messages *)
(* apart at every depth: the invented ones of _assemble too.               *)
THEOREM IdsAlwaysTellApart == Spec => []IdsTellApart
BY EmlInvariant, IdsTellApartFollows, PTL

-----------------------------------------------------------------------------
(* The reference's troubles, from the deepest messages upwards: those of a *)
(* message at depth d are at call.depth + StoreDepth + 1 - d.              *)
Quiet == [x \in Messages |-> NoError]
TroublesAt(below, d) == [m \in Messages |-> FirstTrouble(below, d, m)]
IsTroubles(t) ==
    t = [n \in 0..(StoreDepth + 1) |->
           TroublesAt(IF n = 0 THEN Quiet ELSE t[n - 1], call.depth + StoreDepth + 1 - n)]
Asked(t) == t[StoreDepth + 1][call.message]

LEMMA FirstTroubleType ==
    ASSUME InputInv, NEW below \in [Messages -> Results], NEW d
    PROVE  TroublesAt(below, d) \in [Messages -> Results]
<1>1. SUFFICES ASSUME NEW m \in Messages PROVE FirstTrouble(below, d, m) \in Results
  BY DEF TroublesAt
<1>2. /\ \A s : HeadersRefusal(m, s) \in Results /\ BodiesRefusal(m) \in Results
      /\ "TypeError" \in Results /\ NoError \in Results
  BY <1>1, RefusalTypes DEF Results, Outcome
<1>3. ASSUME BodiesRefusal(m) = NoError, NEW i \in DOMAIN Rows(m)
      PROVE  TroubleOf(below, d, m, i) \in Results
  <2>1. Rows(m) \in Seq(Attachment) BY <1>1, <1>3, RefusalTypes, MessageParts
  <2>2. PICK a : a = Rows(m)[i] OBVIOUS
  <2>3. a \in Attachment
    <3>1. i \in 1..Len(Rows(m)) BY <1>3, <2>1, LenProperties
    <3>2. QED BY <2>1, <2>2, <3>1, ElementOfSeq
  <2>4. PICK f : f = Met(d, m, i) OBVIOUS
  <2>5. AttachmentRefusal(f, a) \in Results BY <2>3, AttachmentOutcome
  <2>6. (AttachmentRefusal(f, a) = NoError /\ a.method = "EMBEDDED_MESSAGE") =>
          below[a.embeds.node] \in Results
    <3>1. (AttachmentRefusal(f, a) = NoError /\ a.method = "EMBEDDED_MESSAGE") =>
            a.embeds.node \in Messages
      BY <2>3, AttachmentOutcome
    <3>2. QED BY <3>1
  <2>7. QED BY <1>2, <2>2, <2>4, <2>5, <2>6 DEF TroubleOf
<1>4. PICK troubled : troubled = {i \in DOMAIN Rows(m) : TroubleOf(below, d, m, i) # NoError} OBVIOUS
<1>5. (BodiesRefusal(m) = NoError /\ troubled # {}) => Min(troubled) \in DOMAIN Rows(m)
  <2>1. SUFFICES ASSUME BodiesRefusal(m) = NoError, troubled # {}
                 PROVE  Min(troubled) \in DOMAIN Rows(m)
    OBVIOUS
  <2>2. Rows(m) \in Seq(Attachment) BY <1>1, <2>1, RefusalTypes, MessageParts
  <2>3. DOMAIN Rows(m) \subseteq Nat BY <2>2, LenProperties
  <2>4. troubled \in SUBSET Nat /\ troubled \subseteq DOMAIN Rows(m) BY <1>4, <2>3
  <2>5. Min(troubled) \in troubled BY <2>1, <2>4, MinProperties
  <2>6. QED BY <2>4, <2>5
<1>6. QED BY <1>2, <1>3, <1>4, <1>5 DEF FirstTrouble

LEMMA TroubleIs ==
    ASSUME InputInv
    PROVE  \E t : IsTroubles(t) /\ Trouble = Asked(t)
<1> DEFINE at(n) == call.depth + StoreDepth + 1 - n
           base == TroublesAt(Quiet, at(0))
           S == [Messages -> Results]
           step == [n \in Nat |-> [b \in S |-> TroublesAt(b, at(n))]]
<1>1. StoreDepth + 1 \in Nat BY EmlLimitsAssumption
<1>2. Quiet \in S BY DEF Quiet, Results, Outcome
<1>3. base \in S
  <2> HIDE DEF at
  <2>1. QED BY <1>2, FirstTroubleType
<1>4. step \in [Nat -> [S -> S]]
  <2>1. \A n \in Nat, b \in S : TroublesAt(b, at(n)) \in S
    <3> HIDE DEF at
    <3>1. QED BY FirstTroubleType
  <2> HIDE DEF S, at
  <2>2. QED BY <2>1
<1>5. PICK f \in [0..(StoreDepth + 1) -> S] : IsRecursion(f, base, step, StoreDepth + 1)
  <2> HIDE DEF S, step, base
  <2>1. QED BY <1>1, <1>3, <1>4, RecursionExists
<1>6. \A n \in 0..(StoreDepth + 1) : n # 0 => step[n][f[n - 1]] = TroublesAt(f[n - 1], at(n))
  <2>1. SUFFICES ASSUME NEW n \in 0..(StoreDepth + 1), n # 0
                 PROVE  step[n][f[n - 1]] = TroublesAt(f[n - 1], at(n))
    OBVIOUS
  <2>2. n \in Nat /\ n - 1 \in 0..(StoreDepth + 1) BY <1>1, <2>1
  <2> HIDE DEF S, at
  <2>3. f[n - 1] \in S BY <2>2
  <2>4. QED BY <2>2, <2>3
<1>7. IsTroubles(f)
  <2> HIDE DEF step, S
  <2>1. \A n \in 0..(StoreDepth + 1) : f[n] = IF n = 0 THEN base ELSE step[n][f[n - 1]]
    BY <1>5 DEF IsRecursion
  <2>2. \A n \in 0..(StoreDepth + 1) :
          f[n] = TroublesAt(IF n = 0 THEN Quiet ELSE f[n - 1], at(n))
    <3>1. SUFFICES ASSUME NEW n \in 0..(StoreDepth + 1)
                   PROVE  f[n] = TroublesAt(IF n = 0 THEN Quiet ELSE f[n - 1], at(n))
      OBVIOUS
    <3> HIDE DEF at
    <3>2. CASE n = 0 BY <2>1, <3>2
    <3>3. CASE n # 0 BY <1>6, <2>1, <3>3
    <3>4. QED BY <3>2, <3>3
  <2>3. f = [n \in 0..(StoreDepth + 1) |-> f[n]] OBVIOUS
  <2>4. QED BY <2>2, <2>3 DEF IsTroubles
<1> DEFINE picked == CHOOSE t : IsTroubles(t)
<1>8. IsTroubles(picked) BY <1>7
<1>9. Trouble = Asked(picked)
  BY DEF Trouble, Asked, IsTroubles, TroublesAt, Quiet
<1>10. QED BY <1>8, <1>9

LEMMA TroublesAre ==
    ASSUME NEW t, IsTroubles(t), NEW n \in 1..(StoreDepth + 1), NEW m \in Messages,
           NEW d, d = call.depth + StoreDepth + 1 - n
    PROVE  t[n][m] = FirstTrouble(t[n - 1], d, m)
<1>1. StoreDepth \in Nat BY EmlLimitsAssumption
<1>2. n \in 0..(StoreDepth + 1) /\ n # 0 BY <1>1
<1>3. t[n] = TroublesAt(t[n - 1], d) BY <1>2 DEF IsTroubles
<1>4. QED BY <1>3 DEF TroublesAt

LEMMA TroublesStay ==
    ASSUME UNCHANGED <<file, call>>, NEW t, IsTroubles(t)
    PROVE  IsTroubles(t)' /\ \A b, d, m, i : TroubleOf(b, d, m, i)' = TroubleOf(b, d, m, i)
<1>0. file' = file /\ call' = call OBVIOUS
<1>1. \A m, s : HeadersRefusal(m, s)' = HeadersRefusal(m, s) BY HeadersStay
<1>2. /\ \A m : BodiesRefusal(m)' = BodiesRefusal(m) /\ Rows(m)' = Rows(m)
                /\ PartsAreText(m)' = PartsAreText(m)
      /\ \A d, m, i : Met(d, m, i)' = Met(d, m, i)
  BY BodiesStay
<1>3. \A f, a : AttachmentRefusal(f, a)' = AttachmentRefusal(f, a) BY AttachmentsStay
<1>4. \A b, d, m, i : TroubleOf(b, d, m, i)' = TroubleOf(b, d, m, i)
  BY <1>2, <1>3 DEF TroubleOf
<1>5. \A b, d, m : FirstTrouble(b, d, m)' = FirstTrouble(b, d, m)
  BY <1>0, <1>1, <1>2, <1>4 DEF FirstTrouble
<1>6. \A b, d : TroublesAt(b, d)' = TroublesAt(b, d) BY <1>5 DEF TroublesAt
<1>7. IsTroubles(t)' BY <1>0, <1>6 DEF IsTroubles, Quiet
<1>8. QED BY <1>4, <1>7

(* A frame at its depth, with no trouble in the rows it has taken; and the *)
(* trouble of its message.                                                 *)
Below(t, d) == t[call.depth + StoreDepth - d]
Verdict(t, f) == t[call.depth + StoreDepth + 1 - f.depth][f.message]
Placed(f) == /\ call.depth <= f.depth /\ f.depth <= call.depth + StoreDepth
             /\ f.synthesize = (f.depth > call.depth \/ call.synthesize)
Calm(t, f) == \A i \in 1..f.at : TroubleOf(Below(t, f.depth), f.depth, f.message, i) = NoError

LEMMA VerdictIs ==
    ASSUME InputInv, NEW t, IsTroubles(t), NEW U, NEW f \in FramesOf(U), Placed(f)
    PROVE  /\ Verdict(t, f) = FirstTrouble(Below(t, f.depth), f.depth, f.message)
           /\ HeadersRefusal(f.message, f.depth > call.depth \/ call.synthesize)
                = HeadersRefusal(f.message, f.synthesize)
<1>1. f.message \in Messages /\ f.depth \in Nat /\ call.depth \in Nat /\ StoreDepth \in Nat
  BY EmlInput DEF FramesOf
<1>2. PICK n : n = call.depth + StoreDepth + 1 - f.depth OBVIOUS
<1>3. /\ n \in 1..(StoreDepth + 1) /\ f.depth = call.depth + StoreDepth + 1 - n
      /\ n - 1 = call.depth + StoreDepth - f.depth
  <2>1. PICK d \in Nat, c \in Nat, k \in Nat : d = f.depth /\ c = call.depth /\ k = StoreDepth
    BY <1>1
  <2>2. c <= d /\ d <= c + k BY <2>1 DEF Placed
  <2>3. n = c + k + 1 - d BY <1>2, <2>1
  <2>4. n \in 1..(k + 1) /\ d = c + k + 1 - n /\ n - 1 = c + k - d BY <2>2, <2>3
  <2>5. QED BY <2>1, <2>4
<1>4. t[n][f.message] = FirstTrouble(t[n - 1], f.depth, f.message) BY <1>1, <1>3, TroublesAre
<1>5. HeadersRefusal(f.message, f.depth > call.depth \/ call.synthesize)
        = HeadersRefusal(f.message, f.synthesize)
  <2>1. f.synthesize = (f.depth > call.depth \/ call.synthesize) BY DEF Placed
  <2>2. QED BY <2>1
<1>6. QED BY <1>2, <1>3, <1>4, <1>5 DEF Verdict, Below

(* Where a frame meets its first trouble.                                  *)
LEMMA VerdictOf ==
    ASSUME InputInv, NEW t, IsTroubles(t), NEW U, NEW f \in FramesOf(U), FrameOK(f),
           Placed(f), Calm(t, f)
    PROVE  /\ (f.stage = "headers" /\ HeadersRefusal(f.message, f.synthesize) # NoError) =>
                Verdict(t, f) = HeadersRefusal(f.message, f.synthesize)
           /\ (f.stage = "bodies" /\ BodiesRefusal(f.message) # NoError) =>
                Verdict(t, f) = BodiesRefusal(f.message)
           /\ \A class : (/\ f.stage = "attachments" /\ f.at < Len(Rows(f.message))
                          /\ class = TroubleOf(Below(t, f.depth), f.depth, f.message, f.at + 1)
                          /\ class # NoError) => Verdict(t, f) = class
           /\ Done(f) => Verdict(t, f) = IF PartsAreText(f.message) THEN "TypeError" ELSE NoError
<1>1. /\ Verdict(t, f) = FirstTrouble(Below(t, f.depth), f.depth, f.message)
      /\ HeadersRefusal(f.message, f.depth > call.depth \/ call.synthesize)
           = HeadersRefusal(f.message, f.synthesize)
  BY VerdictIs
<1>2. PICK m, b, d : m = f.message /\ b = Below(t, f.depth) /\ d = f.depth OBVIOUS
<1>3. m \in Messages /\ f.at \in Nat /\ f.stage \in Stages BY <1>2 DEF FramesOf
<1>4. PICK troubled : troubled = {i \in DOMAIN Rows(m) : TroubleOf(b, d, m, i) # NoError} OBVIOUS
<1>5. Verdict(t, f) =
        IF HeadersRefusal(m, f.synthesize) # NoError THEN HeadersRefusal(m, f.synthesize)
        ELSE IF BodiesRefusal(m) # NoError THEN BodiesRefusal(m)
        ELSE IF troubled # {} THEN TroubleOf(b, d, m, Min(troubled))
        ELSE IF PartsAreText(m) THEN "TypeError" ELSE NoError
  BY <1>1, <1>2, <1>4 DEF FirstTrouble
<1>6. f.stage # "headers" => HeadersRefusal(m, f.synthesize) = NoError
  BY <1>2 DEF FrameOK, Headed
<1>7. f.stage = "attachments" => /\ BodiesRefusal(m) = NoError /\ f.at <= Len(Rows(m))
                                 /\ DOMAIN Rows(m) = 1..Len(Rows(m)) /\ Len(Rows(m)) \in Nat
  <2>1. SUFFICES ASSUME f.stage = "attachments"
                 PROVE  /\ BodiesRefusal(m) = NoError /\ f.at <= Len(Rows(m))
                        /\ DOMAIN Rows(m) = 1..Len(Rows(m)) /\ Len(Rows(m)) \in Nat
    OBVIOUS
  <2>2. BodiesRefusal(m) = NoError /\ f.at <= Len(Rows(m)) BY <1>2, <2>1 DEF FrameOK, Bodied
  <2>3. Rows(m) \in Seq(Attachment) BY <1>3, <2>2, RefusalTypes, MessageParts
  <2>4. QED BY <2>2, <2>3, LenProperties
<1>8. \A i \in 1..f.at : TroubleOf(b, d, m, i) = NoError BY <1>2 DEF Calm
<1>9. ASSUME NEW class, f.stage = "attachments", f.at < Len(Rows(m)),
             class = TroubleOf(b, d, m, f.at + 1), class # NoError
      PROVE  Verdict(t, f) = class
  <2>1. f.at + 1 \in troubled BY <1>3, <1>4, <1>7, <1>9
  <2>2. troubled \in SUBSET Nat BY <1>4, <1>7, <1>9
  <2>3. Min(troubled) \in troubled /\ Min(troubled) <= f.at + 1 BY <2>1, <2>2, MinProperties
  <2>4. PICK k \in Nat : k = Min(troubled) BY <2>2, <2>3
  <2>5. k \notin 1..f.at /\ k \in 1..Len(Rows(m)) BY <1>4, <1>7, <1>8, <1>9, <2>3, <2>4
  <2>6. k <= f.at + 1 BY <2>3, <2>4
  <2>7. k = f.at + 1 BY <1>3, <2>5, <2>6
  <2>8. QED BY <1>5, <1>6, <1>7, <1>9, <2>1, <2>4, <2>7
<1>10. ASSUME Done(f) PROVE Verdict(t, f) = IF PartsAreText(m) THEN "TypeError" ELSE NoError
  <2>1. f.stage = "attachments" /\ f.at = Len(Rows(m)) BY <1>2, <1>10 DEF Done
  <2>2. troubled = {} BY <1>4, <1>7, <1>8, <2>1
  <2>3. QED BY <1>5, <1>6, <1>7, <2>1, <2>2
<1>11. QED BY <1>2, <1>5, <1>6, <1>9, <1>10

(* The trouble of a carried message is the trouble of its row.             *)
LEMMA VerdictOfCarried ==
    ASSUME InputInv, NEW t, NEW U, NEW c \in FramesOf(U), FrameOK(c), NEW f, Carries(c, f)
    PROVE  TroubleOf(Below(t, c.depth), c.depth, c.message, c.at + 1) = Verdict(t, f)
<1>1. PICK a : a = Rows(c.message)[c.at + 1] OBVIOUS
<1>2. /\ c.stage = "attachments" /\ c.at < Len(Rows(c.message))
      /\ a.method = "EMBEDDED_MESSAGE" /\ AttachmentRefusal(c, a) = NoError
      /\ Inner(c, f, a.embeds.node)
  BY <1>1 DEF Carries
<1>3. AttachmentRefusal(Met(c.depth, c.message, c.at + 1), a) = NoError BY <1>1, <1>2, AtRow
<1>4. TroubleOf(Below(t, c.depth), c.depth, c.message, c.at + 1) = Below(t, c.depth)[f.message]
  BY <1>1, <1>2, <1>3 DEF TroubleOf, Inner
<1>5. f.depth = c.depth + 1 /\ c.depth \in Nat /\ call.depth \in Nat /\ StoreDepth \in Nat
  BY <1>2, EmlInput DEF FramesOf, Inner
<1>6. call.depth + StoreDepth - c.depth = call.depth + StoreDepth + 1 - f.depth BY <1>5
<1>7. QED BY <1>4, <1>6 DEF Below, Verdict

(* A refusal in the newest frame is the trouble of every frame before it.  *)
Seen(t, s) == \A i \in 1..Len(s) : Placed(s[i]) /\ Calm(t, s[i])

LEMMA RefusalRises ==
    ASSUME InputInv, NEW t, IsTroubles(t), NEW U, NEW s, Chain(U, s), Seen(t, s),
           NEW class, class # NoError, Verdict(t, s[Len(s)]) = class
    PROVE  Asked(t) = class
<1>1. PICK n \in Nat : n = Len(s) /\ n > 0 /\ \A i \in 1..n : s[i] \in FramesOf(U)
  BY LenProperties, ElementOfSeq DEF Chain
<1> DEFINE bad == {k \in 1..n : Verdict(t, s[n + 1 - k]) # class}
<1>2. bad = {}
  <2>1. SUFFICES ASSUME bad # {} PROVE FALSE OBVIOUS
  <2>2. bad \in SUBSET Nat BY <1>1
  <2>3. PICK k \in bad : \A j \in bad : k <= j BY <2>1, <2>2, LeastElement
  <2>4. k # 1 BY <1>1, <2>3
  <2>5. /\ k - 1 \in 1..n /\ ~(k <= k - 1) /\ n + 1 - (k - 1) \in 2..n
        /\ n + 1 - k \in 1..n /\ n + 1 - k = (n + 1 - (k - 1)) - 1
    BY <1>1, <2>3, <2>4
  <2>6. PICK i \in 2..n : i = n + 1 - (k - 1) BY <2>5
  <2>7. Verdict(t, s[i]) = class BY <2>3, <2>5, <2>6
  <2>8. PICK c : c = s[i - 1] OBVIOUS
  <2>9. c = s[n + 1 - k] /\ i - 1 \in 1..n BY <2>5, <2>6, <2>8
  <2>10. c \in FramesOf(U) /\ FrameOK(c) /\ Carries(c, s[i]) /\ Placed(c) /\ Calm(t, c)
    BY <1>1, <2>8, <2>9 DEF Chain, Seen
  <2>11. TroubleOf(Below(t, c.depth), c.depth, c.message, c.at + 1) = class
    BY <2>7, <2>10, VerdictOfCarried
  <2>12. Verdict(t, c) = class BY <2>10, <2>11, VerdictOf DEF Carries
  <2>13. QED BY <2>3, <2>9, <2>12
<1>3. n \in 1..n /\ n + 1 - n = 1 BY <1>1
<1>4. Verdict(t, s[1]) = class BY <1>2, <1>3
<1>5. Verdict(t, s[1]) = Asked(t)
  <2>1. s[1].depth = call.depth /\ s[1].message = call.message BY DEF Chain, Root
  <2>2. call.depth \in Nat /\ StoreDepth \in Nat BY EmlInput
  <2>3. call.depth + StoreDepth + 1 - call.depth = StoreDepth + 1 BY <2>2
  <2>4. QED BY <2>1, <2>3 DEF Verdict, Asked
<1>6. QED BY <1>4, <1>5

-----------------------------------------------------------------------------
(* The invariant of the verdict.                                           *)
Judged(t, s) == IsTroubles(t) /\ Seen(t, s)
VerdictInv ==
    \E t, s :
        /\ s = frames /\ Judged(t, s)
        /\ epc = "done" => Asked(t) = NoError
        /\ epc = "refused" => error = Asked(t)

LEMMA JudgedStays ==
    ASSUME UNCHANGED <<file, call>>, NEW t, NEW s, Judged(t, s)
    PROVE  Judged(t, s)' /\ Asked(t)' = Asked(t)
<1>0. file' = file /\ call' = call OBVIOUS
<1>1. IsTroubles(t)' /\ \A b, d, m, i : TroubleOf(b, d, m, i)' = TroubleOf(b, d, m, i)
  BY TroublesStay DEF Judged
<1>2. \A f : Placed(f)' = Placed(f) BY <1>0 DEF Placed
<1>3. \A d : Below(t, d)' = Below(t, d) BY <1>0 DEF Below
<1>4. \A f : Calm(t, f)' = Calm(t, f) BY <1>1, <1>3 DEF Calm
<1>5. Seen(t, s)' BY <1>2, <1>4 DEF Judged, Seen
<1>6. Asked(t)' = Asked(t) BY <1>0 DEF Asked
<1>7. QED BY <1>1, <1>5, <1>6 DEF Judged

LEMMA SeenReplaced ==
    ASSUME NEW U, NEW s, Chain(U, s), NEW t, Seen(t, s), NEW n, NEW g, NEW r, Cut(s, n, g, r),
           Calm(t, g)
    PROVE  Seen(t, r)
<1>1. /\ n \in 1..Len(s) /\ SameCall(s[n], g) /\ r = Append(SubSeq(s, 1, n - 1), g)
  BY DEF Cut
<1>2. s \in Seq(FramesOf(U)) /\ Len(s) \in Nat /\ n \in Nat BY <1>1, LenProperties DEF Chain
<1>3. PICK T : T = FramesOf(U) \cup {g} OBVIOUS
<1>4. Len(r) = n /\ r[n] = g /\ \A i \in 1..(n - 1) : r[i] = s[i]
  <2>1. FramesOf(U) \subseteq T /\ g \in T BY <1>3
  <2>2. QED BY <1>1, <1>2, <2>1, CutThenAppend
<1>5. Placed(g)
  <2>1. Placed(s[n]) BY <1>1 DEF Seen
  <2>2. QED BY <1>1, <2>1 DEF Placed, SameCall
<1>6. \A i \in 1..n : Placed(r[i]) /\ Calm(t, r[i])
  <2>1. SUFFICES ASSUME NEW i \in 1..n PROVE Placed(r[i]) /\ Calm(t, r[i]) OBVIOUS
  <2>2. CASE i = n BY <1>4, <1>5, <2>2
  <2>3. CASE i # n
    <3>1. i \in 1..(n - 1) /\ i \in 1..Len(s) BY <1>1, <1>2, <2>3
    <3>2. QED BY <1>4, <3>1 DEF Seen
  <2>4. QED BY <2>2, <2>3
<1>7. QED BY <1>4, <1>6 DEF Seen

(* Nothing changes for a frame that takes no row, and for one that takes a *)
(* row without trouble.                                                    *)
LEMMA CalmStays ==
    ASSUME NEW t, NEW f, NEW g, SameCall(f, g), Calm(t, f), f.at \in Nat,
           \/ g.at = f.at
           \/ /\ g.at = f.at + 1
              /\ TroubleOf(Below(t, f.depth), f.depth, f.message, f.at + 1) = NoError
    PROVE  Calm(t, g)
<1>1. g.depth = f.depth /\ g.message = f.message BY DEF SameCall
<1>2. \A i \in 1..g.at : i \in 1..f.at \/ (i = f.at + 1 /\ g.at = f.at + 1)
  <2>1. PICK k, j : k \in Nat /\ k = f.at /\ j = g.at /\ (j = k \/ j = k + 1) OBVIOUS
  <2>2. \A i \in 1..j : i \in 1..k \/ (i = k + 1 /\ j = k + 1) BY <2>1
  <2>3. QED BY <2>1, <2>2
<1>3. QED BY <1>1, <1>2 DEF Calm

LEMMA BecomeJudged ==
    ASSUME EmlInv, VerdictInv, epc = "running", NEW g, Become(g),
           FrameOK(g), SameCall(F, g),
           \/ g.at = F.at
           \/ /\ g.at = F.at + 1
              /\ \A t : TroubleOf(Below(t, F.depth), F.depth, F.message, F.at + 1) = NoError
    PROVE  VerdictInv'
<1>1. PICK U, s, n :
        /\ n \in Nat /\ s = frames /\ n = Len(s) /\ n # 0 /\ Stack(U, s)
        /\ F = s[n] /\ F \in FramesOf(U) /\ FrameOK(F)
        /\ Front(frames) = SubSeq(s, 1, n - 1)
  BY TopFrame
<1>2. PICK t : Judged(t, s) BY <1>1 DEF VerdictInv
<1>3. PICK f : f = F OBVIOUS
<1>4. n \in 1..Len(s) BY <1>1
<1>5. f.at \in Nat /\ Calm(t, f) BY <1>1, <1>2, <1>3, <1>4 DEF FramesOf, Judged, Seen
<1>6. Calm(t, g) BY <1>3, <1>5, CalmStays
<1>7. PICK r : r = Append(SubSeq(s, 1, n - 1), g) OBVIOUS
<1>8. Judged(t, r)
  <2>1. Cut(s, n, g, r) BY <1>1, <1>4, <1>7 DEF Cut
  <2>2. Chain(U, s) /\ Seen(t, s) BY <1>1, <1>2 DEF Stack, Judged
  <2>3. Seen(t, r) BY <1>6, <2>1, <2>2, SeenReplaced
  <2>4. QED BY <1>2, <2>3 DEF Judged
<1>9. r = frames' /\ UNCHANGED <<file, call, epc, error>> BY <1>1, <1>7 DEF Become
<1>10. Judged(t, r)' BY <1>8, <1>9, JudgedStays
<1>11. epc' = "running" BY <1>9
<1>12. QED BY <1>9, <1>10, <1>11 DEF VerdictInv

LEMMA RefuseJudged ==
    ASSUME EmlInv, VerdictInv, epc = "running", NEW class, class # NoError, Refuse(class),
           \A t : (IsTroubles(t) /\ Placed(F) /\ Calm(t, F)) => Verdict(t, F) = class
    PROVE  VerdictInv'
<1>1. PICK U, s, n :
        /\ n \in Nat /\ s = frames /\ n = Len(s) /\ n # 0 /\ Stack(U, s)
        /\ F = s[n] /\ F \in FramesOf(U) /\ FrameOK(F)
        /\ Front(frames) = SubSeq(s, 1, n - 1)
  BY TopFrame
<1>2. PICK t : Judged(t, s) BY <1>1 DEF VerdictInv
<1>3. n \in 1..Len(s) BY <1>1
<1>4. Placed(F) /\ Calm(t, F) /\ IsTroubles(t) BY <1>1, <1>2, <1>3 DEF Judged, Seen
<1>5. Verdict(t, s[Len(s)]) = class BY <1>1, <1>4
<1>6. Asked(t) = class
  <2>1. InputInv /\ Chain(U, s) /\ Seen(t, s) BY <1>1, <1>2 DEF EmlInv, Stack, Judged
  <2>2. QED BY <1>4, <1>5, <2>1, RefusalRises
<1>7. UNCHANGED <<file, call, frames>> /\ epc' = "refused" /\ error' = class BY DEF Refuse
<1>8. Judged(t, s)' /\ Asked(t)' = class BY <1>2, <1>6, <1>7, JudgedStays
<1>9. s = frames' BY <1>1, <1>7
<1>10. QED BY <1>7, <1>8, <1>9 DEF VerdictInv

LEMMA HeadersJudged ==
    ASSUME EmlInv, VerdictInv, RefuseHeaders \/ WriteHeaders \/ RefuseBodies \/ WriteBodies
    PROVE  VerdictInv'
<1>1. PICK U, s, n :
        /\ n \in Nat /\ s = frames /\ n = Len(s) /\ n # 0 /\ Stack(U, s)
        /\ F = s[n] /\ F \in FramesOf(U) /\ FrameOK(F)
        /\ Front(frames) = SubSeq(s, 1, n - 1)
  BY TopFrame
<1>2. PICK f : f = F OBVIOUS
<1>3. f \in FramesOf(U) /\ FrameOK(f) /\ InputInv BY <1>1, <1>2 DEF EmlInv
<1>4. CASE RefuseHeaders
  <2>1. PICK class : class = HeadersRefusal(f.message, f.synthesize) OBVIOUS
  <2>2. epc = "running" /\ f.stage = "headers" /\ class # NoError /\ Refuse(class)
    BY <1>2, <1>4, <2>1 DEF RefuseHeaders, In
  <2>3. \A t : (IsTroubles(t) /\ Placed(f) /\ Calm(t, f)) => Verdict(t, f) = class
    BY <1>3, <2>1, <2>2, VerdictOf
  <2>4. QED BY <1>2, <2>2, <2>3, RefuseJudged
<1>5. CASE RefuseBodies
  <2>1. PICK class : class = BodiesRefusal(f.message) OBVIOUS
  <2>2. epc = "running" /\ f.stage = "bodies" /\ class # NoError /\ Refuse(class)
    BY <1>2, <1>5, <2>1 DEF RefuseBodies, In
  <2>3. \A t : (IsTroubles(t) /\ Placed(f) /\ Calm(t, f)) => Verdict(t, f) = class
    BY <1>3, <2>1, <2>2, VerdictOf
  <2>4. QED BY <1>2, <2>2, <2>3, RefuseJudged
<1>6. CASE WriteHeaders
  <2>1. PICK made : made = IF f.synthesize THEN MadeNames(f.message) ELSE {} OBVIOUS
  <2>2. PICK g : g = [f EXCEPT !.stage = "bodies", !.passed = PassedNames(f.message),
                               !.made = made, !.id = Id(f.message, made, f.prefix)]
    OBVIOUS
  <2>3. /\ epc = "running" /\ f.stage = "headers"
        /\ HeadersRefusal(f.message, f.synthesize) = NoError /\ Become(g)
    BY <1>2, <1>6, <2>1, <2>2 DEF WriteHeaders, In
  <2>4. FrameOK(g) /\ SameCall(f, g) BY <1>3, <2>1, <2>2, <2>3, HeadersWritten
  <2>5. g.at = f.at BY <1>3, <2>2 DEF FramesOf
  <2>6. QED BY <1>2, <2>3, <2>4, <2>5, BecomeJudged
<1>7. CASE WriteBodies
  <2>1. PICK b : b = Bodies(f.message) OBVIOUS
  <2>2. PICK g : g = [f EXCEPT !.stage = "attachments",
                               !.root = IF Cardinality(b) > 1 THEN "alternative" ELSE "single",
                               !.hasHtml = "html" \in b, !.htmlRoot = b = {"html"}]
    OBVIOUS
  <2>3. /\ epc = "running" /\ f.stage = "bodies"
        /\ BodiesRefusal(f.message) = NoError /\ Become(g)
    BY <1>2, <1>7, <2>1, <2>2 DEF WriteBodies, In
  <2>4. FrameOK(g) /\ SameCall(f, g) BY <1>3, <2>1, <2>2, <2>3, BodiesWritten
  <2>5. g.at = f.at BY <1>3, <2>2 DEF FramesOf
  <2>6. QED BY <1>2, <2>3, <2>4, <2>5, BecomeJudged
<1>8. QED BY <1>4, <1>5, <1>6, <1>7

LEMMA AttachmentsJudged ==
    ASSUME EmlInv, VerdictInv, RefuseAttachment \/ Skip \/ AttachInline \/ AttachData
    PROVE  VerdictInv'
<1>1. PICK U, s, n :
        /\ n \in Nat /\ s = frames /\ n = Len(s) /\ n # 0 /\ Stack(U, s)
        /\ F = s[n] /\ F \in FramesOf(U) /\ FrameOK(F)
        /\ Front(frames) = SubSeq(s, 1, n - 1)
  BY TopFrame
<1>2. PICK f, a : f = F /\ a = Rows(f.message)[f.at + 1] OBVIOUS
<1>3. /\ InputInv /\ epc = "running" /\ f.stage = "attachments" /\ f.at < Len(Rows(f.message))
      /\ a = Current /\ f \in FramesOf(U) /\ FrameOK(f)
  BY <1>1, <1>2 DEF EmlInv, RefuseAttachment, Skip, AttachInline, AttachData, Accepted, AtAttachment,
              In, Current
<1>4. /\ a \in Attachment
      /\ AttachmentRefusal(f, a) = AttachmentRefusal(Met(f.depth, f.message, f.at + 1), a)
  BY <1>2, <1>3, AtRow
<1>5. CASE RefuseAttachment
  <2>1. PICK class : class = AttachmentRefusal(f, a) OBVIOUS
  <2>2. class # NoError /\ Refuse(class) BY <1>2, <1>3, <1>5, <2>1 DEF RefuseAttachment
  <2>3. \A t : TroubleOf(Below(t, f.depth), f.depth, f.message, f.at + 1) = class
    BY <1>2, <1>4, <2>1, <2>2 DEF TroubleOf
  <2>4. \A t : (IsTroubles(t) /\ Placed(f) /\ Calm(t, f)) => Verdict(t, f) = class
    BY <1>3, <2>2, <2>3, VerdictOf
  <2>5. QED BY <1>2, <1>3, <2>2, <2>4, RefuseJudged
<1>6. (AttachmentRefusal(f, a) = NoError /\ a.method # "EMBEDDED_MESSAGE") =>
        \A t : TroubleOf(Below(t, f.depth), f.depth, f.message, f.at + 1) = NoError
  BY <1>2, <1>4 DEF TroubleOf
<1>7. CASE Skip
  <2>1. PICK g : g = [f EXCEPT !.at = @ + 1, !.skipped = Append(@, f.at + 1)] OBVIOUS
  <2>2. /\ a.method \in Method \ (CarriesBytes \cup {"EMBEDDED_MESSAGE"}) /\ Become(g)
        /\ AttachmentRefusal(f, a) = NoError
    BY <1>2, <1>3, <1>7, <2>1 DEF Skip, Accepted
  <2>3. FrameOK(g) /\ SameCall(f, g) /\ g.at = f.at + 1 BY <1>2, <1>3, <2>1, <2>2, RowSkipped
  <2>4. a.method # "EMBEDDED_MESSAGE" BY <2>2
  <2>5. QED BY <1>2, <1>3, <1>6, <2>2, <2>3, <2>4, BecomeJudged
<1>8. CASE AttachInline
  <2>1. PICK g : g = [f EXCEPT !.at = @ + 1, !.inline = Append(@, f.at + 1),
                               !.root = IF f.htmlRoot THEN "related" ELSE @]
    OBVIOUS
  <2>2. /\ a.method \in CarriesBytes /\ AttachmentRefusal(f, a) = NoError /\ GoesInline(f, a)
        /\ Become(g)
    BY <1>2, <1>3, <1>8, <2>1 DEF AttachInline, Accepted
  <2>3. FrameOK(g) /\ SameCall(f, g) /\ g.at = f.at + 1 BY <1>2, <1>3, <2>1, <2>2, RowInline
  <2>4. a.method # "EMBEDDED_MESSAGE" BY <2>2 DEF CarriesBytes
  <2>5. QED BY <1>2, <1>3, <1>6, <2>2, <2>3, <2>4, BecomeJudged
<1>9. CASE AttachData
  <2>1. PICK p : p = [index |-> f.at + 1, eml |-> <<>>] OBVIOUS
  <2>2. PICK g : g = [f EXCEPT !.at = @ + 1, !.root = "mixed", !.attached = Append(@, p)] OBVIOUS
  <2>3. /\ a.method \in CarriesBytes /\ AttachmentRefusal(f, a) = NoError /\ ~GoesInline(f, a)
    BY <1>2, <1>3, <1>9 DEF AttachData, Accepted
  <2>4. Become(g)
    <3>1. g = [F EXCEPT !.at = @ + 1, !.root = "mixed",
                        !.attached = Append(@, [index |-> F.at + 1, eml |-> <<>>])]
      BY <1>2, <1>3, <2>1, <2>2 DEF FramesOf
    <3>2. QED BY <1>9, <3>1 DEF AttachData
  <2>5. p.index = f.at + 1 /\ p \in Parts(U)
    <3>1. f.at \in Nat BY <1>3 DEF FramesOf
    <3>2. QED BY <2>1, <3>1 DEF Parts
  <2>6. PartRight(f, p) BY <1>2, <2>1, <2>3, <2>5 DEF PartRight, CarriesBytes
  <2>7. IsPart(f.message, Rows(f.message)[f.at + 1]) BY <1>2, <1>3, <2>3, AtRow
  <2>8. FrameOK(g) /\ SameCall(f, g) /\ g.at = f.at + 1
    BY <1>3, <2>2, <2>5, <2>6, <2>7, RowAttached
  <2>9. a.method # "EMBEDDED_MESSAGE" BY <2>3 DEF CarriesBytes
  <2>10. QED BY <1>2, <1>3, <1>6, <2>3, <2>4, <2>8, <2>9, BecomeJudged
<1>10. QED BY <1>5, <1>7, <1>8, <1>9

LEMMA EnterJudged ==
    ASSUME EmlInv, VerdictInv, Enter
    PROVE  VerdictInv'
<1>1. PICK U, s, n :
        /\ n \in Nat /\ s = frames /\ n = Len(s) /\ n # 0 /\ Stack(U, s)
        /\ F = s[n] /\ F \in FramesOf(U) /\ FrameOK(F)
        /\ Front(frames) = SubSeq(s, 1, n - 1)
  BY TopFrame
<1>2. PICK t : Judged(t, s) BY <1>1 DEF VerdictInv
<1>3. PICK f, a : f = F /\ a = Rows(f.message)[f.at + 1] OBVIOUS
<1>4. /\ InputInv /\ epc = "running" /\ f.stage = "attachments" /\ f.at < Len(Rows(f.message))
      /\ a = Current /\ a.method = "EMBEDDED_MESSAGE" /\ AttachmentRefusal(f, a) = NoError
      /\ f \in FramesOf(U) /\ FrameOK(f)
  BY <1>1, <1>3 DEF EmlInv, Enter, Accepted, AtAttachment, In, Current
<1>5. a \in Attachment BY <1>3, <1>4, AtRow
<1>6. PICK g : g = Frame(a.embeds.node, f.depth + 1, TRUE, ChildPrefix(f)) OBVIOUS
<1>7. g.depth = f.depth + 1 /\ g.synthesize = TRUE /\ g.at = 0 BY <1>6 DEF Frame
<1>8. Placed(g) /\ Calm(t, g)
  <2>1. ~Exceeds(f.depth + 1, StoreDepth) BY <1>4, <1>5, AttachmentOutcome
  <2>2. n \in 1..Len(s) BY <1>1
  <2>3. Placed(f) BY <1>1, <1>2, <1>3, <2>2 DEF Judged, Seen
  <2>4. PICK d \in Nat, c \in Nat, k \in Nat : d = f.depth /\ c = call.depth /\ k = StoreDepth
    BY <1>4, EmlInput DEF FramesOf
  <2>5. ~(d + 1 > k) /\ c <= d BY <2>1, <2>3, <2>4 DEF Exceeds, Placed
  <2>6. c <= d + 1 /\ d + 1 <= c + k /\ d + 1 > c BY <2>5
  <2>7. Placed(g) BY <1>7, <2>4, <2>6 DEF Placed
  <2>8. 1..0 = {} OBVIOUS
  <2>9. QED BY <1>7, <2>7, <2>8 DEF Calm
<1>9. PICK r : r = Append(s, g) OBVIOUS
<1>10. Judged(t, r)
  <2>1. s \in Seq(FramesOf(U)) BY <1>1 DEF Stack, Chain
  <2>2. PICK T : T = FramesOf(U) \cup {g} OBVIOUS
  <2>3. s \in Seq(T) /\ g \in T BY <2>1, <2>2
  <2>4. Len(r) = n + 1 /\ r[n + 1] = g /\ \A i \in 1..n : r[i] = s[i]
    BY <1>1, <1>9, <2>3, AppendProperties
  <2>5. \A i \in 1..(n + 1) : i = n + 1 \/ i \in 1..n BY <1>1
  <2>6. \A i \in 1..n : Placed(s[i]) /\ Calm(t, s[i]) BY <1>1, <1>2 DEF Judged, Seen
  <2>7. \A i \in 1..(n + 1) : Placed(r[i]) /\ Calm(t, r[i]) BY <1>8, <2>4, <2>5, <2>6
  <2>8. QED BY <1>2, <2>4, <2>7 DEF Judged, Seen
<1>11. r = frames' /\ UNCHANGED <<file, call, epc, error>> BY <1>1, <1>3, <1>4, <1>6, <1>9 DEF Enter
<1>12. Judged(t, r)' BY <1>10, <1>11, JudgedStays
<1>13. epc' = "running" BY <1>4, <1>11
<1>14. QED BY <1>11, <1>12, <1>13 DEF VerdictInv

(* An inner message that is assembled had no trouble.                      *)
LEMMA LeaveJudged ==
    ASSUME EmlInv, VerdictInv, Leave
    PROVE  VerdictInv'
<1>1. PICK U, s, n :
        /\ n \in Nat /\ s = frames /\ n = Len(s) /\ n # 0 /\ Stack(U, s)
        /\ F = s[n] /\ F \in FramesOf(U) /\ FrameOK(F)
        /\ Front(frames) = SubSeq(s, 1, n - 1)
  BY TopFrame
<1>2. PICK t : Judged(t, s) BY <1>1 DEF VerdictInv
<1>3. PICK f : f = F OBVIOUS
<1>4. n > 1 /\ Done(f) /\ ~PartsAreText(f.message) /\ InputInv /\ epc = "running"
  BY <1>1, <1>3 DEF Leave, Complete, Assembled, In, Done, EmlInv
<1>5. PICK k \in Nat : k = n - 1 /\ k \in 1..Len(s) /\ n \in 2..Len(s) /\ n \in 1..Len(s)
  <2>1. n - 1 \in Nat /\ n - 1 \in 1..n /\ n \in 2..n /\ n \in 1..n BY <1>1, <1>4
  <2>2. QED BY <1>1, <2>1
<1>6. PICK c : c = s[k] OBVIOUS
<1>7. /\ c \in FramesOf(U) /\ FrameOK(c) /\ Carries(c, f) /\ Calm(t, c)
      /\ f \in FramesOf(U) /\ FrameOK(f) /\ Placed(f) /\ Calm(t, f) /\ IsTroubles(t)
  <2>1. s \in Seq(FramesOf(U)) /\ FrameOK(s[k]) BY <1>1, <1>5 DEF Stack, Chain
  <2>2. Carries(s[n - 1], s[n]) BY <1>1, <1>5 DEF Stack, Chain
  <2>3. s[k] \in FramesOf(U) BY <1>5, <2>1, ElementOfSeq
  <2>4. Calm(t, s[k]) /\ Placed(s[n]) /\ Calm(t, s[n]) /\ IsTroubles(t) BY <1>2, <1>5 DEF Judged, Seen
  <2>5. QED BY <1>1, <1>3, <1>5, <1>6, <2>1, <2>2, <2>3, <2>4
<1>8. TroubleOf(Below(t, c.depth), c.depth, c.message, c.at + 1) = NoError
  <2>1. Verdict(t, f) = NoError BY <1>4, <1>7, VerdictOf
  <2>2. QED BY <1>4, <1>7, <2>1, VerdictOfCarried
<1>9. PICK g : g = WithInner(c, f) OBVIOUS
<1>10. FrameOK(g) /\ SameCall(c, g) /\ g.at = c.at + 1 /\ c.at \in Nat
  <2>1. PICK V : V = U \cup {f} OBVIOUS
  <2>2. U \subseteq V /\ f \in V BY <2>1
  <2>3. FrameOK(g) /\ SameCall(c, g) BY <1>4, <1>7, <1>9, <2>2, CarrierTakes
  <2>4. QED BY <1>7, <1>9, <2>3 DEF WithInner, FramesOf
<1>11. Calm(t, g) BY <1>7, <1>8, <1>10, CalmStays
<1>12. PICK r : r = Append(SubSeq(s, 1, k - 1), g) OBVIOUS
<1>13. Judged(t, r)
  <2>1. Cut(s, k, g, r) BY <1>5, <1>6, <1>10, <1>12 DEF Cut
  <2>2. Chain(U, s) /\ Seen(t, s) BY <1>1, <1>2 DEF Stack, Judged
  <2>3. Seen(t, r) BY <1>11, <2>1, <2>2, SeenReplaced
  <2>4. QED BY <1>7, <2>3 DEF Judged
<1>14. r = frames' /\ UNCHANGED <<file, call, epc, built, error>>
  <2>1. Len(frames) - 1 = k /\ Len(frames) - 2 = k - 1 BY <1>1, <1>5
  <2>2. frames[Len(frames) - 1] = c BY <1>1, <1>6, <2>1
  <2>3. /\ frames' = Append(SubSeq(frames, 1, Len(frames) - 2),
              [frames[Len(frames) - 1] EXCEPT !.at = @ + 1, !.root = "mixed",
                 !.attached = Append(@, [index |-> frames[Len(frames) - 1].at + 1, eml |-> <<F>>])])
        /\ UNCHANGED <<file, call, epc, built, error>>
    BY DEF Leave
  <2>4. QED BY <1>1, <1>3, <1>9, <1>12, <2>1, <2>2, <2>3 DEF WithInner
<1>15. Judged(t, r)' BY <1>13, <1>14, JudgedStays
<1>16. epc' = "running" BY <1>4, <1>14
<1>17. QED BY <1>14, <1>15, <1>16 DEF VerdictInv

LEMMA EndJudged ==
    ASSUME EmlInv, VerdictInv, RefuseParts \/ Return
    PROVE  VerdictInv'
<1>1. PICK U, s, n :
        /\ n \in Nat /\ s = frames /\ n = Len(s) /\ n # 0 /\ Stack(U, s)
        /\ F = s[n] /\ F \in FramesOf(U) /\ FrameOK(F)
        /\ Front(frames) = SubSeq(s, 1, n - 1)
  BY TopFrame
<1>2. PICK f : f = F OBVIOUS
<1>3. f \in FramesOf(U) /\ FrameOK(f) /\ Done(f) /\ InputInv /\ epc = "running"
  BY <1>1, <1>2 DEF RefuseParts, Return, Complete, Assembled, In, Done, EmlInv
<1>4. CASE RefuseParts
  <2>1. PICK class : class = "TypeError" OBVIOUS
  <2>2. class # NoError /\ Refuse(class) /\ PartsAreText(f.message)
    BY <1>2, <1>4, <2>1 DEF RefuseParts, NoError
  <2>3. \A t : (IsTroubles(t) /\ Placed(f) /\ Calm(t, f)) => Verdict(t, f) = class
    BY <1>3, <2>1, <2>2, VerdictOf
  <2>4. QED BY <1>2, <1>3, <2>2, <2>3, RefuseJudged
<1>5. CASE Return
  <2>1. /\ n = 1 /\ ~PartsAreText(f.message)
        /\ UNCHANGED <<file, call, frames, error>> /\ epc' = "done"
    BY <1>1, <1>2, <1>5 DEF Return, Complete
  <2>2. PICK t : Judged(t, s) BY <1>1 DEF VerdictInv
  <2>3. Placed(f) /\ Calm(t, f) /\ IsTroubles(t) BY <1>1, <1>2, <2>1, <2>2 DEF Judged, Seen
  <2>4. Verdict(t, f) = NoError BY <1>3, <2>1, <2>3, VerdictOf
  <2>5. Verdict(t, f) = Asked(t)
    <3>1. f.depth = call.depth /\ f.message = call.message
      BY <1>1, <1>2, <2>1 DEF Stack, Chain, Root
    <3>2. call.depth \in Nat /\ StoreDepth \in Nat BY <1>3, EmlInput
    <3>3. call.depth + StoreDepth + 1 - call.depth = StoreDepth + 1 BY <3>2
    <3>4. QED BY <3>1, <3>3 DEF Verdict, Asked
  <2>6. Judged(t, s)' /\ Asked(t)' = NoError BY <2>1, <2>2, <2>4, <2>5, JudgedStays
  <2>7. s = frames' BY <1>1, <2>1
  <2>8. QED BY <2>1, <2>6, <2>7 DEF VerdictInv
<1>6. QED BY <1>4, <1>5

(* It holds when to_eml is called. *)
THEOREM VerdictInvInit == Init => VerdictInv
<1>1. SUFFICES ASSUME Init PROVE VerdictInv OBVIOUS
<1>2. InputInv BY <1>1 DEF Init, InputInv
<1>3. PICK t : IsTroubles(t) BY <1>2, TroubleIs
<1>4. PICK f : f = Frame(call.message, call.depth, call.synthesize, NoLocal) OBVIOUS
<1>5. f.depth = call.depth /\ f.synthesize = call.synthesize /\ f.at = 0 BY <1>4 DEF Frame
<1>6. Placed(f)
  <2>1. PICK c \in Nat, k \in Nat : c = call.depth /\ k = StoreDepth BY <1>2, EmlInput
  <2>2. c <= c /\ c <= c + k /\ ~(c > c) OBVIOUS
  <2>3. call.synthesize \in BOOLEAN BY <1>2, EmlInput
  <2>4. f.synthesize = (f.depth > call.depth \/ call.synthesize) BY <1>5, <2>1, <2>2, <2>3
  <2>5. QED BY <1>5, <2>1, <2>2, <2>4 DEF Placed
<1>7. Calm(t, f)
  <2>1. 1..0 = {} OBVIOUS
  <2>2. QED BY <1>5, <2>1 DEF Calm
<1>8. PICK s : s = <<f>> OBVIOUS
<1>9. Seen(t, s)
  <2>1. Len(s) = 1 /\ s[1] = f /\ 1..1 = {1} BY <1>8
  <2>2. QED BY <1>6, <1>7, <2>1 DEF Seen
<1>10. s = frames /\ epc = "running" BY <1>1, <1>4, <1>8 DEF Init, EmlStarts
<1>11. QED BY <1>3, <1>9, <1>10 DEF VerdictInv, Judged

(* Every action of to_eml, and a stutter, keeps it. *)
THEOREM VerdictInvIsInductive == EmlInv /\ VerdictInv /\ [Next]_emlvars => VerdictInv'
<1>1. SUFFICES ASSUME EmlInv, VerdictInv, [Next]_emlvars PROVE VerdictInv' OBVIOUS
<1>2. CASE RefuseHeaders \/ WriteHeaders \/ RefuseBodies \/ WriteBodies
  BY <1>1, <1>2, HeadersJudged
<1>3. CASE RefuseAttachment \/ Skip \/ AttachInline \/ AttachData BY <1>1, <1>3, AttachmentsJudged
<1>4. CASE RefuseParts \/ Return BY <1>1, <1>4, EndJudged
<1>5. CASE Enter BY <1>1, <1>5, EnterJudged
<1>6. CASE Leave BY <1>1, <1>6, LeaveJudged
<1>7. CASE UNCHANGED emlvars
  <2>1. UNCHANGED <<file, call, frames, epc, built, error>> BY <1>7 DEF emlvars
  <2>2. PICK t, s : /\ s = frames /\ Judged(t, s)
                    /\ epc = "done" => Asked(t) = NoError
                    /\ epc = "refused" => error = Asked(t)
    BY <1>1 DEF VerdictInv
  <2>3. Judged(t, s)' /\ Asked(t)' = Asked(t) BY <2>1, <2>2, JudgedStays
  <2>4. QED BY <2>1, <2>2, <2>3 DEF VerdictInv
<1>8. QED BY <1>1, <1>2, <1>3, <1>4, <1>5, <1>6, <1>7 DEF Next

LEMMA TroublesAreOne ==
    ASSUME NEW t, IsTroubles(t), NEW u, IsTroubles(u)
    PROVE  Asked(t) = Asked(u)
<1>1. StoreDepth \in Nat BY EmlLimitsAssumption
<1> DEFINE at(n) == call.depth + StoreDepth + 1 - n
           bad == {n \in 0..(StoreDepth + 1) : t[n] # u[n]}
<1>2. \A n \in 0..(StoreDepth + 1) :
        /\ t[n] = TroublesAt(IF n = 0 THEN Quiet ELSE t[n - 1], at(n))
        /\ u[n] = TroublesAt(IF n = 0 THEN Quiet ELSE u[n - 1], at(n))
  BY DEF IsTroubles
<1>3. bad = {}
  <2>1. SUFFICES ASSUME bad # {} PROVE FALSE OBVIOUS
  <2>2. bad \in SUBSET Nat BY <1>1
  <2>3. PICK n \in bad : \A k \in bad : n <= k BY <2>1, <2>2, LeastElement
  <2> HIDE DEF at
  <2>4. CASE n = 0 BY <1>2, <2>3, <2>4
  <2>5. CASE n # 0
    <3>1. n - 1 \in 0..(StoreDepth + 1) /\ ~(n <= n - 1) BY <1>1, <2>3, <2>5
    <3>2. t[n - 1] = u[n - 1] BY <2>3, <3>1
    <3>3. QED BY <1>2, <2>3, <2>5, <3>2
  <2>6. QED BY <2>4, <2>5
<1>4. StoreDepth + 1 \in 0..(StoreDepth + 1) BY <1>1
<1>5. QED BY <1>3, <1>4 DEF Asked

(* The troubles of the invariant are those of the reference.               *)
THEOREM VerdictFollows == EmlInv /\ VerdictInv => VerdictMatchesMessage
<1>1. SUFFICES ASSUME EmlInv, VerdictInv PROVE VerdictMatchesMessage OBVIOUS
<1>2. PICK u : IsTroubles(u) /\ Trouble = Asked(u) BY <1>1, TroubleIs DEF EmlInv
<1>3. PICK t, s : /\ Judged(t, s)
                  /\ epc = "done" => Asked(t) = NoError
                  /\ epc = "refused" => error = Asked(t)
  BY <1>1 DEF VerdictInv
<1>4. Asked(t) = Asked(u) BY <1>2, <1>3, TroublesAreOne DEF Judged
<1>5. QED BY <1>2, <1>3, <1>4 DEF VerdictMatchesMessage

(* For every file and every call: to_eml converts a message if and only if *)
(* neither it nor anything it carries refuses, and otherwise it refuses    *)
(* for the first reason there is.                                          *)
THEOREM VerdictIsRight == Spec => []VerdictMatchesMessage
<1>1. Init => EmlInv /\ VerdictInv BY EmlInvInit, VerdictInvInit
<1>2. EmlInv /\ VerdictInv /\ [Next]_emlvars => EmlInv' /\ VerdictInv'
  BY EmlInvIsInductive, VerdictInvIsInductive
<1>3. QED BY <1>1, <1>2, VerdictFollows, PTL DEF Spec

-----------------------------------------------------------------------------
(* Decompressing the body that a message stores, while its bodies are read *)
(* (body_rtf_decompressed in _bodies), is an assembly as Eml has it, and a *)
(* decompression as Rtf has it: what is proved of either holds of both     *)
(* together.                                                               *)
THEOREM ContentImplements == ContentSpec => Spec /\ RtfSpec
<1>1. ContentInit => Init /\ RtfInit
  <2>1. ASSUME NEW v \in Values, NEW r \in Followed, RtfStarts(v), file = r.file, call = r.call,
               EmlStarts
        PROVE  Init /\ RtfInit
    BY <2>1, FollowedAssumption DEF Init, RtfInit
  <2>2. ASSUME RtfStarts(CHOOSE v \in Values : TRUE), Init
        PROVE  Init /\ RtfInit
    <3>1. PICK w : w = CHOOSE v \in Values : TRUE OBVIOUS
    <3>2. w \in Values /\ RtfStarts(w) BY <2>2, <3>1, FollowedAssumption
    <3>3. QED BY <2>2, <3>2 DEF RtfInit
  <2>3. QED BY <2>1, <2>2 DEF ContentInit
<1>2. [ContentNext]_contentvars => [Next]_emlvars /\ [RtfNext]_rtfvars
  <2>1. ASSUME Decompress PROVE UNCHANGED emlvars /\ RtfNext BY <2>1 DEF Decompress, emlvars
  <2>2. ASSUME Assemble PROVE Next /\ UNCHANGED rtfvars
    BY <2>2 DEF Assemble, rtfvars, decoder
  <2>3. UNCHANGED contentvars => UNCHANGED emlvars /\ UNCHANGED rtfvars
    BY DEF contentvars, emlvars, rtfvars, decoder
  <2>4. QED BY <2>1, <2>2, <2>3 DEF ContentNext
<1>3. QED BY <1>1, <1>2, PTL DEF ContentSpec, Spec, RtfSpec

=============================================================================
