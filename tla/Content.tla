-------------------------------- MODULE Content --------------------------------
(***************************************************************************)
(* eml.py over rtf.py: to_eml of a message that stores a compressed RTF    *)
(* body.  While the bodies of the message are read the value is            *)
(* decompressed and cut at its first NUL (body_rtf_decompressed); what is  *)
(* left is an RTF body, or no body if nothing is left.                     *)
(*                                                                         *)
(* The decoder is followed for the message that to_eml is called with,     *)
(* where it is met first, in some of the requests.  Otherwise, and for     *)
(* other messages, the file of Eml says what their decoders gave.          *)
(***************************************************************************)
EXTENDS Eml, Rtf

CONSTANT Followed           \* requests whose message stores a value that is followed

(* Mutant: nothing is cut off. *)
DocumentUncut(text) == text

(* What body_rtf_decompressed returns of the decoder's output.             *)
Document(text) ==
    LET nuls == {i \in DOMAIN text : text[i] = Zero}
    IN IF nuls = {} THEN text ELSE SubSeq(text, 1, Min(nuls) - 1)

(* Reference: the body that a value is, found without the decoder, and     *)
(* there is one if the text does not begin with a NUL.                     *)
AsBody(text) == IF text = <<>> \/ Head(text) = Zero THEN "absent" ELSE "some"

Written(stream) == SubSeq(Decoded(stream).text, Len(InitialDictionary) + 1, Len(Decoded(stream).text))

BodyOfValue(v) ==
    CASE v.header.kind = "refused" -> "PstFormatError"
      [] v.header.kind # "refused" /\ v.header.rawSize > MaxOutput -> "PstLimitError"
      [] v.header.kind = "MELA" /\ v.header.rawSize <= MaxOutput ->
            IF v.header.rawSize > Len(v.bytes) THEN "PstFormatError"
            ELSE AsBody(SubSeq(v.bytes, 1, v.header.rawSize))
      [] v.header.kind = "LZFu" /\ v.header.rawSize <= MaxOutput ->
            IF ~v.header.crcMatches \/ Decoded(v.tokens).verdict = "open" THEN "PstFormatError"
            ELSE IF Decoded(v.tokens).verdict = "ended" THEN AsBody(Written(v.tokens))
            ELSE Decoded(v.tokens).verdict

ASSUME FollowedAssumption ==
    /\ Values # {}
    /\ \A r \in Followed : r.file \in Files /\ r.call \in Calls

VARIABLE followed

contentvars == <<emlvars, rtfvars, followed>>

(* A decoder that is not followed may hold any value. *)
ContentInit ==
    \/ /\ \E v \in Values : \E r \in Followed :
             /\ r.file[r.call.message].body["rtf"] = BodyOfValue(v)
             /\ RtfStarts(v) /\ file = r.file /\ call = r.call
       /\ EmlStarts /\ followed = TRUE
    \/ /\ RtfStarts(CHOOSE v \in Values : TRUE)
       /\ Init /\ followed = FALSE

-----------------------------------------------------------------------------
(* _bodies reads the plain text first, which may refuse.                   *)
Decoding == /\ In("bodies") /\ Len(frames) = 1 /\ followed
            /\ file[F.message].body["plain"] \notin Refusals
            /\ pc \notin {"returned", "refused"}

Decompress == Decoding /\ RtfNext /\ UNCHANGED <<emlvars, followed>>

Assemble == ~Decoding /\ Next /\ UNCHANGED <<rtfvars, followed>>

ContentNext == Decompress \/ Assemble

ContentSpec == ContentInit /\ [][ContentNext]_contentvars

-----------------------------------------------------------------------------
(* A message converts only once its RTF value has been decompressed to the *)
(* end, and has an RTF body exactly if a document is left before the first *)
(* NUL; a value that the decoder refuses refuses the message, as it did.   *)
RtfIsDecoded ==
    followed =>
        /\ epc = "done" => /\ pc = "returned"
                           /\ ("rtf" \in Bodies(call.message)) = (Document(output) # <<>>)
        /\ pc = "refused" => epc # "done" /\ (epc = "refused" => error = refusal)

=============================================================================
