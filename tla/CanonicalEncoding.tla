------------------------- MODULE CanonicalEncoding -------------------------
(***************************************************************************)
(* The byte strings Jury signs, hashes and authenticates.                  *)
(*                                                                         *)
(* No signature covers a JSON text: every record is flattened by hand into *)
(* a preimage, a domain followed by the record's fields, and the preimage  *)
(* is what is signed, hashed or given to a MAC.  A field that is left out, *)
(* a list whose items are not counted, an option without its tag or two    *)
(* records under one domain would let one signature stand for two records. *)
(*                                                                         *)
(* A statement is the model of one such function: its domain, the fields   *)
(* of the record it stands for, and its layout, the order in which it      *)
(* appends them and the framing of each.  Byte strings are sequences of    *)
(* small numbers; a fixed width field is one of them, so that lengths,     *)
(* counts, tags and contents cannot be told apart by their values.  Read   *)
(* is the reference reader of a layout (WitnessRequestV1 has one in the    *)
(* code, from_signature_preimage): a preimage that reads back as exactly   *)
(* the record it was made from has one meaning.                            *)
(***************************************************************************)
EXTENDS Naturals, Sequences, FiniteSets, SequencesExt

CONSTANTS
    Statements,   \* the statements whose preimages are compared
    MaxVaried     \* how many fields of a record differ from its plain form

VARIABLES
    form,         \* the statement being made
    document,     \* the record, a function from its field names to values
    varied,       \* the fields that were given another value
    wire,         \* the preimage, once it was made
    tampered      \* whether the preimage was changed afterwards

encodingVars == <<form, document, varied, wire, tampered>>

-----------------------------------------------------------------------------
(* Layouts: a sequence of framings, each with the field it frames.         *)

Fixed(names) == [i \in DOMAIN names |-> <<"fixed", names[i]>>]
Bytes(name) == << <<"bytes", name>> >>
ListBytes(name) == << <<"list_bytes", name>> >>
ListFixed(name) == << <<"list_fixed", name>> >>
Optional(name) == << <<"optional", name>> >>
OptionalBytes(name) == << <<"optional_bytes", name>> >>
Literal(value) == << <<"literal", value>> >>
Tagged(table) == << <<"tag", "variant", table>> >>

Named(layout) == {entry[2] : entry \in {e \in ToSet(layout) : e[1] # "literal"}}

Statement(domain, tag, framed, fields, layout) ==
    [domain |-> domain, tag |-> tag, framed |-> framed,
     fields |-> fields, layout |-> layout]

(* A preimage that stands for all the fields of a record, one that stands  *)
(* for the fields it names, and one alternative of a tagged record.        *)
Of(domain, fields, layout) == {Statement(domain, 0, FALSE, fields, layout)}
Plain(domain, layout) == Of(domain, Named(layout), layout)
Both(domain, other, fields, layout) ==
    Of(domain, fields, layout) \cup Of(other, fields, layout)
Variant(domain, tag, layout) ==
    {Statement(domain, tag, FALSE, Named(layout), layout)}

(* The byte that stands for each variant of an enumeration.  Where one is  *)
(* part of a record, it is one of the record's fixed width fields.         *)
Enumeration(domain, table) == Plain(domain, Tagged(table))

(* hash_bytes: the body goes into the hash behind its own length.          *)
Hashed(domain, fields, layout) == {Statement(domain, 0, TRUE, fields, layout)}

(* hash_signed: a record's digest covers its preimage and its signature.   *)
HashSigned(domain) == Plain(domain, Bytes("signed") \o Fixed(<<"signature">>))
Signed(domain, digest, fields, layout) ==
    Of(domain, fields, layout) \cup HashSigned(digest)

-----------------------------------------------------------------------------
(* Writing.                                                                *)

BytesField(value) == <<Len(value)>> \o value
MutListBytesField(values) == BytesField(FlattenSeq(values))
ListBytesField(values) ==
    <<Len(values)>> \o FlattenSeq([i \in DOMAIN values |-> BytesField(values[i])])
ListFixedField(values) == <<Len(values)>> \o values
OptionalField(value) == IF value = <<>> THEN <<0>> ELSE <<1>> \o value
OptionalBytesField(value) ==
    IF value = <<>> THEN <<0>> ELSE <<1>> \o BytesField(value[1])

WriteField(entry, value) ==
    LET framing == entry[1] IN
    CASE framing = "fixed" -> <<value>>
      [] framing = "tag" -> <<entry[3][value]>>
      [] framing = "bytes" -> BytesField(value)
      [] framing = "list_bytes" -> ListBytesField(value)
      [] framing = "list_fixed" -> ListFixedField(value)
      [] framing = "optional" -> OptionalField(value)
      [] framing = "optional_bytes" -> OptionalBytesField(value)

Body(statement, record) ==
    FlattenSeq([i \in DOMAIN statement.layout |->
        LET entry == statement.layout[i] IN
        IF entry[1] = "literal" THEN <<entry[2]>>
        ELSE WriteField(entry, record[entry[2]])])

Preimage(statement, record) ==
    [domain |-> statement.domain,
     body |-> (IF statement.tag = 0 THEN <<>> ELSE <<statement.tag>>) \o
              (IF statement.framed THEN BytesField(Body(statement, record))
               ELSE Body(statement, record))]

-----------------------------------------------------------------------------
(* Reading.  A reader returns what it read and what is left, or nothing.   *)

Rest(bytes, count) == SubSeq(bytes, count + 1, Len(bytes))

Take(bytes, count) ==
    IF count > Len(bytes) THEN {}
    ELSE {[value |-> SubSeq(bytes, 1, count), rest |-> Rest(bytes, count)]}

TakeOne(bytes) == {[value |-> r.value[1], rest |-> r.rest] : r \in Take(bytes, 1)}

TakeBytes(bytes) == UNION {Take(length.rest, length.value) : length \in TakeOne(bytes)}

TakeList(bytes) ==
    UNION {FoldLeft(
            LAMBDA sofar, i :
                UNION {{[value |-> Append(s.value, r.value), rest |-> r.rest] :
                            r \in TakeBytes(s.rest)} : s \in sofar},
            {[value |-> <<>>, rest |-> count.rest]},
            [i \in 1..count.value |-> i]) : count \in TakeOne(bytes)}

TakeTag(bytes, table) ==
    UNION {{[value |-> v, rest |-> tag.rest] : v \in {v \in DOMAIN table : table[v] = tag.value}} :
               tag \in TakeOne(bytes)}

TakeOptional(bytes, some) ==
    UNION {IF tag.value = 0 THEN {[value |-> <<>>, rest |-> tag.rest]}
           ELSE IF tag.value = 1 THEN some
           ELSE {} : tag \in TakeOne(bytes)}

ReadField(entry, bytes) ==
    LET framing == entry[1] IN
    CASE framing = "fixed" -> TakeOne(bytes)
      [] framing = "tag" -> TakeTag(bytes, entry[3])
      [] framing = "bytes" -> TakeBytes(bytes)
      [] framing = "list_bytes" -> TakeList(bytes)
      [] framing = "list_fixed" -> TakeBytes(bytes)
      [] framing = "optional" -> TakeOptional(bytes, Take(Rest(bytes, 1), 1))
      [] framing = "optional_bytes" ->
            TakeOptional(bytes, {[value |-> <<r.value>>, rest |-> r.rest] :
                                    r \in TakeBytes(Rest(bytes, 1))})

ReadEntry(sofar, entry) ==
    UNION {IF entry[1] = "literal"
           THEN {[record |-> s.record, rest |-> r.rest] :
                    r \in {r \in TakeOne(s.rest) : r.value = entry[2]}}
           ELSE {[record |-> s.record @@ (entry[2] :> r.value), rest |-> r.rest] :
                    r \in ReadField(entry, s.rest)} : s \in sofar}

Unframed(statement, bytes) ==
    LET untagged == IF statement.tag = 0 THEN {bytes}
                    ELSE {r.rest : r \in {r \in TakeOne(bytes) : r.value = statement.tag}}
    IN  IF statement.framed
        THEN UNION {{r.value : r \in {r \in TakeBytes(b) : r.rest = <<>>}} : b \in untagged}
        ELSE untagged

(* The records a preimage may stand for, as this statement.                *)
Read(statement, preimage) ==
    IF preimage.domain # statement.domain THEN {}
    ELSE UNION {{s.record : s \in {s \in FoldLeft(ReadEntry,
                    {[record |-> <<>>, rest |-> bytes]}, statement.layout) : s.rest = <<>>}} :
                bytes \in Unframed(statement, preimage.body)}

-----------------------------------------------------------------------------
(* Records: every field has a plain value, and a few are varied at once.   *)

Strings == {<<>>, <<1>>, <<2>>, <<1, 1>>}

Values(entry) ==
    LET framing == entry[1] IN
    CASE framing = "fixed" -> {1, 2}
      [] framing = "tag" -> DOMAIN entry[3]
      [] framing = "bytes" -> Strings
      [] framing = "list_bytes" -> {<<>>, <<<<>>>>, <<<<1>>>>, <<<<>>, <<1>>>>, <<<<1>>, <<>>>>}
      [] framing = "list_fixed" -> Strings
      [] framing = "optional" -> {<<>>, <<1>>, <<2>>}
      [] framing = "optional_bytes" -> {<<>>} \cup {<<s>> : s \in Strings}

Framing(statement, field) ==
    LET entries == {e \in ToSet(statement.layout) : e[1] # "literal" /\ e[2] = field}
    IN  IF entries = {} THEN <<"fixed", field>> ELSE CHOOSE entry \in entries : TRUE

PlainValue(entry) ==
    CASE entry[1] = "fixed" -> 1
      [] entry[1] = "tag" -> CHOOSE variant \in DOMAIN entry[3] : TRUE
      [] OTHER -> <<>>

NoWire == [domain |-> "", body |-> <<>>]

EncodingInit ==
    /\ form \in Statements
    /\ document = [f \in form.fields |-> PlainValue(Framing(form, f))]
    /\ varied = {}
    /\ wire = NoWire
    /\ tampered = FALSE

(* The program comes to another record of the same kind.                   *)
Vary ==
    /\ wire = NoWire
    /\ Cardinality(varied) < MaxVaried
    /\ \E f \in form.fields \ varied :
        \E value \in Values(Framing(form, f)) :
            /\ value # document[f]
            /\ document' = [document EXCEPT ![f] = value]
            /\ varied' = varied \cup {f}
    /\ UNCHANGED <<form, wire, tampered>>

(* The preimage is made, to be signed or hashed.                           *)
MakePreimage ==
    /\ wire = NoWire
    /\ wire' = Preimage(form, document)
    /\ UNCHANGED <<form, document, varied, tampered>>

(* A stored or received preimage is cut short, extended or changed.        *)
Tamper ==
    /\ wire # NoWire
    /\ ~tampered
    /\ Cardinality(varied) <= 1
    /\ \E body \in
            {SubSeq(wire.body, 1, n) : n \in {Len(wire.body) - 1} \cap Nat} \cup
            {Append(wire.body, n) : n \in 0..2} \cup
            {[wire.body EXCEPT ![i] = n] : i \in DOMAIN wire.body, n \in 0..2} :
        /\ body # wire.body
        /\ wire' = [wire EXCEPT !.body = body]
    /\ tampered' = TRUE
    /\ UNCHANGED <<form, document, varied>>

EncodingNext == Vary \/ MakePreimage \/ Tamper

(* A preimage has one meaning: it reads back as the whole record it was    *)
(* made from, it reads as no other kind of statement, and no other bytes   *)
(* read as that record.  So a signature, digest or MAC over it binds every *)
(* field of the record (the domains, framings and field orders of the      *)
(* preimage functions of jury-protocol and jury-core).                     *)
OneMeaning ==
    wire # NoWire =>
        IF tampered THEN document \notin Read(form, wire)
        ELSE \A other \in Statements :
                Read(other, wire) = IF other = form THEN {document} ELSE {}
=============================================================================
