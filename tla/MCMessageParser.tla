-------------------------- MODULE MCMessageParser --------------------------
(***************************************************************************)
(* MessageParser on messages made from what they mean: encoded in every    *)
(* way the lengths allow, cut short, longer by a byte, and with one byte   *)
(* replaced.                                                               *)
(***************************************************************************)
EXTENDS MessageEncoding, SequencesExt

CONSTANT OtherBytes

DataEncodings(data) == {text \o data : text \in LengthEncodings(Len(data))}

\* What a message is made of, each part with its encodings.
Parts(m) ==
  <<IF m.versioned THEN {<<128>>, <<213>>} ELSE {<<>>},
    {<<m.required>> \o m.readonly},
    {text \o FlattenSeq(m.keys) : text \in LengthEncodings(Len(m.keys))},
    {m.blockhash},
    LengthEncodings(Len(m.instructions))>> \o
  FlattenSeq([i \in DOMAIN m.instructions |->
    <<{<<m.instructions[i].program>>},
      DataEncodings(m.instructions[i].accounts),
      DataEncodings(m.instructions[i].data)>>]) \o
  <<IF m.versioned THEN LengthEncodings(0) ELSE {<<>>}>>

\* The shortest encoding, and those with one part encoded in another way.
Shortest(part) == CHOOSE text \in part : \A other \in part : Len(text) <= Len(other)
Encoding(m) == [i \in DOMAIN Parts(m) |-> Shortest(Parts(m)[i])]
Encodings(m) ==
  {FlattenSeq(Encoding(m))} \cup
  UNION {{FlattenSeq([Encoding(m) EXCEPT ![i] = text]) : text \in Parts(m)[i]} :
           i \in DOMAIN Parts(m)}

Edited(bytes) ==
  {SubSeq(bytes, 1, n) : n \in 0..Len(bytes)} \cup
  {Append(bytes, byte) : byte \in OtherBytes} \cup
  {[bytes EXCEPT ![i] = byte] : i \in 1..Min({Len(bytes), 40}), byte \in OtherBytes}

MCMessages == UNION {Encodings(m) \cup Edited(FlattenSeq(Encoding(m))) : m \in Meanings}

-----------------------------------------------------------------------------

MCSigner == <<7, 7>>
Key1 == <<1, 1>>
Key2 == <<2, 0>>
Hash == <<9, 9>>

Ix(program, accounts, data) == [program |-> program, accounts |-> accounts, data |-> data]
Meaning(versioned, required, keys, blockhash, infos) ==
  [versioned |-> versioned, required |-> required, readonly |-> <<0, 1>>,
   keys |-> keys, blockhash |-> blockhash, instructions |-> infos]

Empty == Ix(0, <<>>, <<>>)
Two == <<Ix(2, <<0, 1>>, <<5>>), Ix(1, <<2>>, <<7, 7, 7>>)>>
MCMeanings ==
  {Meaning(versioned, 1, <<MCSigner>>, Hash, <<Empty>>) : versioned \in BOOLEAN} \cup
  {Meaning(versioned, 2, <<Key1, MCSigner, Key2>>, Hash, Two) : versioned \in BOOLEAN} \cup
  {Meaning(FALSE, 1, <<MCSigner, Key1>>, Hash, [i \in 1..n |-> Empty]) : n \in {0, 4, 5}} \cup
  \* the signer is not required, or there are fewer keys than signatures
  {Meaning(FALSE, 1, <<Key1, MCSigner>>, Hash, <<Empty>>),
   Meaning(FALSE, 2, <<Key1>>, MCSigner, <<Empty>>),
   Meaning(FALSE, 0, <<>>, Hash, <<Empty>>),
   Meaning(TRUE, 200, <<Key1>>, Hash, <<Empty>>),
   Meaning(FALSE, 1, <<MCSigner>>, Hash,
           <<Ix(0, [i \in 1..130 |-> 0], [i \in 1..129 |-> 8])>>)}
=============================================================================
