------------------------------- MODULE DataFile -------------------------------
(***************************************************************************)
(* The container of tones and LED patterns: dataFileReader and             *)
(* dataFileMemoryWriter of app/src/Utils/dataFile.cpp, and the tool that   *)
(* writes the files, TestPrograms/DataFile/src/dfile.cpp.                  *)
(*                                                                         *)
(* A file is a sequence of 32-bit words behind its header.  A field is a   *)
(* word [sig, size], a word of flags and its data, padded to whole words.  *)
(* A checksum is right exactly for the headers the writer made, which a    *)
(* field's data may contain (a data file in a data file).                  *)
(***************************************************************************)
EXTENDS Integers, SequencesExt, FiniteSetsExt

CONSTANTS
    Signatures,   \* signatures of fields
    FieldContents,     \* [size, words]: what is appended
    SpaceRange,   \* 65536: getFieldSpace is a uint16_t
    MaxAppends    \* bound

\* a content fills its words; what is no header has no signature of a field; a
\* header with the padding of its data is less than the range
ASSUME FieldsAssumption ==
    /\ "junk" \notin Signatures
    /\ \A c \in FieldContents : /\ c = [size |-> c.size, words |-> c.words] /\ c.size \in Nat
                              /\ c.words \in Seq(ToSet(c.words))
                              /\ Len(c.words) = (c.size + 3) \div 4
    /\ SpaceRange \in Nat /\ SpaceRange > 11

VARIABLES
    words,     \* the words behind the header
    fileSize,  \* the size in the header, in bytes
    appended,  \* the fields appended (history)
    broken     \* a field too large, or junk behind the file taken for one (history)

fvars == <<words, fileSize, appended, broken>>

HeaderSize == 12
FieldHeader(sig, size) == [sig |-> sig, size |-> size]
Flags == [sig |-> "flags", size |-> 0]
Junk  == [sig |-> "junk", size |-> 0]
isValidFieldHeader(word) == word.sig \in Signatures

\* slip: the padding is not a part of the field
FieldSpaceUnpadded(size) == ((8 + size) % SpaceRange) \div 4

\* getFieldSpace, in words
FieldSpace(size) == ((8 + 4 * ((size + 3) \div 4)) % SpaceRange) \div 4

(***************************************************************************)
(* Walking the fields, a word at a time: word is the number of the next    *)
(* word, next that of the one the walk looks at next.  The last word is    *)
(* too short for a header.  A field without space is never left.           *)
(***************************************************************************)
WalkBegins == [word |-> 1, next |-> 1, fields |-> <<>>]
PassBy(walk) == [walk EXCEPT !.word = @ + 1]
EnterField(walk, w) == [word |-> walk.word + 1, next |-> walk.word + FieldSpace(w.size),
                        fields |-> Append(walk.fields, walk.word)]

\* the reader steps over what is no header
VisitWord(walk, w) ==
    IF walk.word # walk.next THEN PassBy(walk)
    ELSE IF isValidFieldHeader(w) THEN EnterField(walk, w)
    ELSE [PassBy(walk) EXCEPT !.next = @ + 1]
FieldsFrom(ws) == FoldLeft(VisitWord, WalkBegins, Front(ws)).fields

\* setAppendMode stops there: where the valid fields end
PassWord(walk, w) ==
    IF walk.word = walk.next /\ isValidFieldHeader(w) THEN EnterField(walk, w) ELSE PassBy(walk)
AppendPosition(ws) == FoldLeft(PassWord, WalkBegins, Front(ws)).next

\* isExpectedFile takes the header's size for that of the whole file
ReadWords == SubSeq(words, 1, Min({Len(words), (fileSize - HeaderSize) \div 4}))
FieldIndex == FieldsFrom(ReadWords)
DataAt(ws, at) == [size |-> ws[at].size,
                   words |-> SubSeq(ws, at + 2, Min({Len(ws), at + 1 + (ws[at].size + 3) \div 4}))]
Found(sig) == {k \in DOMAIN FieldIndex : ReadWords[FieldIndex[k]].sig = sig}

\* getFieldData: the first field of the signature; with createFieldIndex, the last
getFieldData(sig)         == DataAt(ReadWords, FieldIndex[Min(Found(sig))])
findFieldDataInIndex(sig) == DataAt(ReadWords, FieldIndex[Max(Found(sig))])

-----------------------------------------------------------------------------
\* dfile create
FInit ==
    /\ words = <<>> /\ fileSize = HeaderSize
    /\ appended = <<>> /\ broken = FALSE

\* addField behind position at; the header's size follows the field's space
AddField(at, sig, c) ==
    /\ words' = SubSeq(SubSeq(words, 1, at - 1) \o <<FieldHeader(sig, c.size), Flags>> \o c.words,
                       1, at - 1 + FieldSpace(c.size))
    /\ fileSize' = HeaderSize + 4 * (at - 1 + FieldSpace(c.size))
    /\ appended' = Append(appended, [sig |-> sig, data |-> c])

\* dfile append: the buffer behind the file is not initialised
AppendField(sig, c) ==
    /\ Len(appended) < MaxAppends /\ ~broken
    /\ \/ /\ AddField(AppendPosition(words), sig, c)
          /\ broken' = (FieldSpace(c.size) * 4 < c.size)
       \/ /\ words' = words \o <<FieldHeader("junk", 4), Flags, Junk>>
                        \o <<FieldHeader(sig, c.size), Flags>> \o c.words
          /\ fileSize' = HeaderSize + 4 * Len(words')
          /\ appended' = Append(appended, [sig |-> sig, data |-> c])
          /\ broken' = TRUE

\* dfile convert: a new file with the one field of tones
Convert(sig, c) ==
    /\ ~broken
    /\ words' = SubSeq(<<FieldHeader(sig, c.size), Flags>> \o c.words, 1, FieldSpace(c.size))
    /\ fileSize' = HeaderSize + 4 * FieldSpace(c.size)
    /\ appended' = <<[sig |-> sig, data |-> c]>>
    /\ broken' = (FieldSpace(c.size) * 4 < c.size)

\* An upload may leave bytes behind the file (FileSync): no field sees them
Trailing ==
    /\ Len(words) < 20 /\ Len(words) = (fileSize - HeaderSize) \div 4
    /\ words' = Append(words, Junk)
    /\ UNCHANGED <<fileSize, appended, broken>>

FNext ==
    \/ \E sig \in Signatures, c \in FieldContents : AppendField(sig, c) \/ Convert(sig, c)
    \/ Trailing

FSpec == FInit /\ [][FNext]_fvars

-----------------------------------------------------------------------------
Of(sig) == {k \in DOMAIN appended : appended[k].sig = sig}

\* Every field that was appended is found again, with its size and its data,
\* whatever its padding, whatever was appended around it, also when its data
\* holds what looks like a field, and with bytes behind the file's end.  Of
\* two fields with one signature getFieldData finds the first, and the last
\* once createFieldIndex was called.  A field of nearly 64 KB whose space
\* wraps, and junk in dfile's buffer that happens to pass the checksum, break
\* the file.
FieldsReadBack ==
    ~broken =>
        /\ Len(FieldIndex) = Len(appended)
        /\ \A sig \in Signatures :
              Of(sig) # {} => /\ getFieldData(sig) = appended[Min(Of(sig))].data
                              /\ findFieldDataInIndex(sig) = appended[Max(Of(sig))].data
===============================================================================
