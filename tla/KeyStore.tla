------------------------------ MODULE KeyStore ------------------------------
(***************************************************************************)
(* The key of a user, from the service that encodes it to the one that     *)
(* decodes it: an ordered record of fields, of which a decoder takes as    *)
(* many as it binds, kept by the application in a file between two marks.  *)
(* A field, a mark and the terminator of the text are one symbol each.     *)
(***************************************************************************)
EXTENDS Integers, Sequences, FiniteSets, SequencesExt

CONSTANTS
  Users,    (* users that have a key                                       *)
  MaxWrites (* bound: how often the file is written                        *)

VARIABLES
  file,     (* the key file: what is in it, <<>> if there is none          *)
  rest,     (* what WriteCryptKeyToFile has still to write                 *)
  written,  (* history: the key of the last call                           *)
  writes    (* history: the calls                                          *)

keyVars == <<file, rest, written, writes>>

BeginMark == "begin"
EndMark   == "end"
Nul       == "nul"
Refused   == <<"refused">>

(* CClientCryptKeyWrapper and CChannelKeyWrapper bind their fields in this *)
(* order, the ones that a decoder may take alone first.                    *)
ClientKeyFields   == <<"channelID", "genUserKey", "pubCryptoKey", "priCryptoKey", "envelopeKey">>
GenerateKeyFields == SubSeq(ClientKeyFields, 1, 2)

Fields(user, names) == [i \in DOMAIN names |-> <<user, names[i]>>]

(* EncodeGenerateUserKey and EncodeClientCryptKey: the text of the fields  *)
(* with its terminator, which the length counts.                           *)
Encode(fields) == Append(fields, <<Nul>>)

(* DecodeGenerateUserKey and the three DecodeClientCryptKey: the text goes *)
(* on to the first symbol that is none of its own, the length of the       *)
(* buffer is not asked; the first n of its fields, if it has as many.      *)
Decode(buffer, n) ==
  LET text == SubSeq(buffer, 1, SelectInSeq(buffer, LAMBDA x : x \in {<<Nul>>, <<EndMark>>}) - 1)
  IN IF Len(text) >= n THEN SubSeq(text, 1, n) ELSE Refused

-----------------------------------------------------------------------------
KeyInit == file = <<>> /\ rest = <<>> /\ written = <<>> /\ writes = 0

(* Mutant: the file is opened to append to it.                             *)
OpenToWrite_Appends(fields) ==
  /\ rest = <<>> /\ writes < MaxWrites
  /\ file' = file
  /\ rest' = <<<<BeginMark>>>> \o Encode(fields) \o <<<<EndMark>>>>
  /\ written' = fields /\ writes' = writes + 1

(* WriteCryptKeyToFile truncates the file.                                 *)
OpenToWrite(fields) ==
  /\ rest = <<>> /\ writes < MaxWrites
  /\ file' = <<>>
  /\ rest' = <<<<BeginMark>>>> \o Encode(fields) \o <<<<EndMark>>>>
  /\ written' = fields /\ writes' = writes + 1

Write ==
  /\ rest # <<>>
  /\ file' = Append(file, Head(rest))
  /\ rest' = Tail(rest)
  /\ UNCHANGED <<written, writes>>

(* A write fails, and the function returns, or the process dies; what was  *)
(* written stays.                                                          *)
WriteFails ==
  /\ rest # <<>>
  /\ rest' = <<>>
  /\ UNCHANGED <<file, written, writes>>

KeyNext ==
  \/ Write \/ WriteFails
  \/ \E u \in Users, names \in {ClientKeyFields, GenerateKeyFields} : OpenToWrite(Fields(u, names))

KeySpec == KeyInit /\ [][KeyNext]_keyVars

-----------------------------------------------------------------------------
(* ReadyCryptKeyToFile: what is between the marks is moved to the front of *)
(* the buffer, so that the end of what was there follows it.               *)
ReadyCryptKeyToFile ==
  IF Len(file) <= 2 \/ Head(file) # <<BeginMark>> \/ Last(file) # <<EndMark>>
  THEN Refused
  ELSE SubSeq(file, 2, Len(file) - 1) \o SubSeq(file, Len(file) - 1, Len(file))

(* A key file that is not refused holds the key that was last written,     *)
(* whole: no decoder takes from it a field of another key, or one that is  *)
(* cut, wherever the writing of this key or of one before it stopped; and  *)
(* a decoder that binds more fields than the key has refuses it            *)
(* (sdk_comm_if.cpp:129-245, crypt_key_codec.cpp:64-216).                  *)
KeyComesBackWhole ==
  LET buffer == ReadyCryptKeyToFile IN
  buffer # Refused =>
    \A n \in {1, 2, 5} :
      Decode(buffer, n) = IF n <= Len(written) THEN SubSeq(written, 1, n) ELSE Refused
=============================================================================
