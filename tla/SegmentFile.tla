----------------------------- MODULE SegmentFile ------------------------------
(***************************************************************************)
(* The bytes of a segment file (src/storage/segment.rs), how they reach the *)
(* disk, and what is read back from them.  Bytes count to Base, and the     *)
(* code's u16, u32 and u64 are numbers of Short, Word and Long bytes.       *)
(* SearchEngine says of a segment only whether it is whole.                 *)
(* A definition named x_y, before the definition x, is x with a seeded bug. *)
(***************************************************************************)
EXTENDS SequencesExt

CONSTANTS Base, Short, Word, Long,
          Documents,      \* what can be indexed: records of id, title and body
          Analyzed,       \* function: a document's length, and the positions of its terms
          MaxDocuments    \* bound of the explored instance

VARIABLES index,       \* memory: the buffered documents and their postings
          unwritten,   \* memory: the bytes that have not reached the file
          file,        \* disk: those that have
          pc           \* the stage of the flush

vars == <<index, unwritten, file, pc>>

----------------------------------------------------------------------------
(* Numbers and texts as bytes. *)

\* What is left of a number when k bytes are taken from it.
Rest(n, width) ==
  LET rest[k \in 0..width] == IF k = 0 THEN n ELSE rest[k - 1] \div Base IN rest
Fits(n, width) == n \in Nat /\ Rest(n, width)[width] = 0

\* A number as little-endian bytes; what does not fit is cut off.
Bytes(n, width) == [k \in 1..width |-> Rest(n, width)[k - 1] % Base]
Value(bytes) ==
  LET value[k \in 0..Len(bytes)] ==
        IF k = 0 THEN 0 ELSE value[k - 1] * Base + bytes[Len(bytes) - k + 1]
  IN value[Len(bytes)]

\* Of the bytes of a text, the upper half begins no character.
IsText(s) == \A i \in DOMAIN s : 2 * s[i] < Base
Texts == {s \in Seq(0..Base - 1) : IsText(s)}

MAGIC == 7
FORMAT_VERSION == 1

ASSUME WidthAssumption ==
  /\ Base \in Nat \ {0, 1} /\ Short \in Nat /\ Word \in Nat /\ Long \in Nat
  /\ Fits(MAGIC, Word) /\ Fits(FORMAT_VERSION, Word)
ASSUME DocumentsAssumption ==
  \A d \in Documents :
    /\ d.id \in Texts /\ d.title \in Texts /\ d.body \in Texts
    /\ Analyzed[d].length \in Nat
    /\ IsFiniteSet(DOMAIN Analyzed[d].positions)
    /\ \A t \in DOMAIN Analyzed[d].positions :
         t \in Texts /\ Analyzed[d].positions[t] \in Seq(Nat)

----------------------------------------------------------------------------
(* What is written: for each term the documents it is in, how often and      *)
(* where, and the documents with their lengths.                             *)

Posting(d, t) ==
  <<d.id, Len(Analyzed[d].positions[t]), Analyzed[d].positions[t]>>
Stored(d) == <<d.id, Analyzed[d].length, d.title, d.body>>
Postings == Texts \X Nat \X Seq(Nat)
StoredDocs == Texts \X Nat \X Texts \X Texts

Get(postings, t) == IF t \in DOMAIN postings THEN postings[t] ELSE <<>>
WithPostings(postings, d) ==
  [t \in DOMAIN postings \cup DOMAIN Analyzed[d].positions |->
     IF t \in DOMAIN Analyzed[d].positions
       THEN Append(Get(postings, t), Posting(d, t)) ELSE postings[t]]

Empty == [terms |-> <<>>, postings |-> <<>>, docs |-> <<>>, total |-> 0]
WithDocument(d) ==
  [terms |->   \* sorted in the code, which no reader relies on
     index.terms \o SetToSeq(DOMAIN Analyzed[d].positions \ DOMAIN index.postings),
   postings |-> WithPostings(index.postings, d),
   docs |-> Append(index.docs, Stored(d)),   \* the HashMap's order is any order
   total |-> index.total + Analyzed[d].length]

----------------------------------------------------------------------------
(* The writer. *)

\* The first k parts one after the other, for each k.
Joined(parts) ==
  LET joined[k \in 0..Len(parts)] ==
        IF k = 0 THEN <<>> ELSE joined[k - 1] \o parts[k]
  IN joined
Concat(parts) == Joined(parts)[Len(parts)]

ShortText(s) == Bytes(Len(s), Short) \o s
LongText(s) == Bytes(Len(s), Word) \o s
Words(ns) == Concat([i \in DOMAIN ns |-> Bytes(ns[i], Word)])

PostingBytes(p) ==
  ShortText(p[1]) \o Bytes(p[2], Word) \o Bytes(Len(p[3]), Word) \o Words(p[3])
PostingsBytes(list) ==
  Bytes(Len(list), Word) \o Concat([i \in DOMAIN list |-> PostingBytes(list[i])])
DocBytes(d) ==
  ShortText(d[1]) \o Bytes(d[2], Word) \o ShortText(d[3]) \o LongText(d[4])

PostingsSection == [i \in DOMAIN index.terms |-> PostingsBytes(index.postings[index.terms[i]])]
DocsSection == [i \in DOMAIN index.docs |-> DocBytes(index.docs[i])]

HeaderSize == 4 * Word + 3 * Long
EntrySize(t) == Short + Len(t) + Long + Word
\* Where the dictionary's first k entries end.
EntriesEnd ==
  LET end[k \in 0..Len(index.terms)] ==
        IF k = 0 THEN HeaderSize ELSE end[k - 1] + EntrySize(index.terms[k])
  IN end
PostingsStart == EntriesEnd[Len(index.terms)]
Offset_relative(i) == Len(Joined(PostingsSection)[i - 1])
Offset(i) == PostingsStart + Len(Joined(PostingsSection)[i - 1])
DocsStart == PostingsStart + Len(Concat(PostingsSection))

Header == Bytes(MAGIC, Word) \o Bytes(FORMAT_VERSION, Word)
          \o Bytes(Len(index.terms), Word) \o Bytes(Len(index.docs), Word)
          \o Bytes(index.total, Long) \o Bytes(PostingsStart, Long) \o Bytes(DocsStart, Long)
EntryBytes(i) == ShortText(index.terms[i]) \o Bytes(Offset(i), Long)
                 \o Bytes(Len(PostingsSection[i]), Word)
Dictionary == [i \in DOMAIN index.terms |-> EntryBytes(i)]
Image == Header \o Concat(Dictionary) \o Concat(PostingsSection) \o Concat(DocsSection)

----------------------------------------------------------------------------
(* The reader.  It fails at the first field that goes past the end (behind  *)
(* it Slice gives zeros, which no reader sees), and at a text that is none.  *)

At(offset) == [ok |-> TRUE, at |-> offset, got |-> <<>>]
Failed == [ok |-> FALSE, at |-> 0, got |-> <<>>]
Slice(from, n) == [i \in 1..n |-> IF from + i <= Len(file) THEN file[from + i] ELSE 0]
InFile_unchecked(from, n) == from <= Len(file)
InFile(from, n) == from + n <= Len(file)

ReadNumber(r, width) ==
  IF r.ok /\ InFile(r.at, width)
    THEN [ok |-> TRUE, at |-> r.at + width, got |-> Append(r.got, Value(Slice(r.at, width)))]
    ELSE Failed
\* A text, and a list of numbers: the field before says how many follow.
ReadText(r) ==
  LET n == Last(r.got)
  IN IF r.ok /\ InFile(r.at, n) /\ IsText(Slice(r.at, n))
       THEN [ok |-> TRUE, at |-> r.at + n, got |-> Append(Front(r.got), Slice(r.at, n))]
       ELSE Failed
ReadWords(r) ==
  LET n == Last(r.got)
      word(i) == Value(Slice(r.at + (i - 1) * Word, Word))
  IN IF r.ok /\ InFile(r.at, n * Word)
       THEN [ok |-> TRUE, at |-> r.at + n * Word,
             got |-> Append(Front(r.got), [i \in 1..n |-> word(i)])]
       ELSE Failed

ReadHeader ==
  LET sizes == ReadNumber(ReadNumber(ReadNumber(ReadNumber(At(0), Word), Word), Word), Word)
  IN ReadNumber(ReadNumber(ReadNumber(sizes, Long), Long), Long)
ReadEntry(offset) ==
  LET term == ReadText(ReadNumber(At(offset), Short))
  IN ReadNumber(ReadNumber(term, Long), Word)
ReadPosting(offset) ==
  LET id == ReadText(ReadNumber(At(offset), Short))
  IN ReadWords(ReadNumber(ReadNumber(id, Word), Word))
ReadDocument(offset) ==
  LET id == ReadText(ReadNumber(At(offset), Short))
      title == ReadText(ReadNumber(ReadNumber(id, Word), Short))
  IN ReadText(ReadNumber(title, Word))

ReadRecord(kind, offset) ==
  CASE kind = "entry" -> ReadEntry(offset)
    [] kind = "posting" -> ReadPosting(offset)
    [] kind = "document" -> ReadDocument(offset)
Then(before, record) ==
  IF before.ok /\ record.ok
    THEN [ok |-> TRUE, at |-> record.at, got |-> Append(before.got, record.got)] ELSE Failed
ReadRecords(kind, offset, n) ==
  LET read[k \in 0..n] ==
        IF k = 0 THEN At(offset) ELSE Then(read[k - 1], ReadRecord(kind, read[k - 1].at))
  IN read[n]

ReadPostings(offset) ==
  LET count == ReadNumber(At(offset), Word)
  IN IF count.ok THEN ReadRecords("posting", count.at, count.got[1]) ELSE Failed

\* An index from its parts, as both the writer and the reader have it.
Index(postings, documents, total_length) ==
  [postings |-> postings, documents |-> ToSet(documents),
   total_docs |-> Len(documents), total_doc_length |-> total_length]

Unreadable == [postings |-> <<>>]
ParseFromBytes ==
  LET header == ReadHeader
      entries == ReadRecords("entry", header.at, header.got[3])
      lists == [i \in DOMAIN entries.got |-> ReadPostings(entries.got[i][2])]
      stored == ReadRecords("document", header.got[7], header.got[4])
      list(t) == CHOOSE i \in DOMAIN entries.got : entries.got[i][1] = t
  IN IF /\ header.ok /\ header.got[1] = MAGIC /\ header.got[2] = FORMAT_VERSION
        /\ entries.ok /\ (\A i \in DOMAIN lists : lists[i].ok) /\ stored.ok
       THEN Index([t \in {e[1] : e \in ToSet(entries.got)} |-> lists[list(t)].got],
                  stored.got, header.got[5])
       ELSE Unreadable

----------------------------------------------------------------------------
Init == index = Empty /\ unwritten = <<>> /\ file = <<>> /\ pc = "buffering"

AddDocument(d) ==
  /\ pc = "buffering" /\ Len(index.docs) < MaxDocuments
  /\ \A i \in DOMAIN index.docs : index.docs[i][1] # d.id
  /\ index' = WithDocument(d)
  /\ UNCHANGED <<unwritten, file, pc>>

\* What a flush writes is computed first, and then reaches the file in order.
Create ==
  /\ pc = "buffering" /\ index.docs # <<>>
  /\ unwritten' = Image /\ file' = <<>>
  /\ pc' = "writing"
  /\ UNCHANGED index

WriteMore ==
  /\ pc = "writing" /\ unwritten # <<>>
  /\ file' = Append(file, Head(unwritten)) /\ unwritten' = Tail(unwritten)
  /\ UNCHANGED <<index, pc>>

\* The next flush has its own buffer and file.
Finish_early ==
  /\ pc = "writing"
  /\ pc' = "buffering" /\ index' = Empty /\ file' = <<>>
  /\ UNCHANGED unwritten
Finish ==
  /\ pc = "writing" /\ unwritten = <<>>
  /\ pc' = "buffering" /\ index' = Empty /\ file' = <<>>
  /\ UNCHANGED unwritten

Next == (\E d \in Documents : AddDocument(d)) \/ Create \/ WriteMore \/ Finish

Spec == Init /\ [][Next]_vars

----------------------------------------------------------------------------
(* What the buffered documents are made of, and that the file and the rest  *)
(* of the buffer are what was computed when the file was created: nothing   *)
(* is indexed, and no byte lost or moved, while a segment is being written  *)
(* (segment.rs:81-107, engine.rs:231-245).                                  *)
IndexOK ==
  /\ index.terms \in Seq(Texts) /\ IsInjective(index.terms)
  /\ index.postings \in [ToSet(index.terms) -> Seq(Postings)]
  /\ index.docs \in Seq(StoredDocs) /\ index.total \in Nat
SegmentInv ==
  /\ IndexOK /\ file \in Seq(0..Base - 1) /\ unwritten \in Seq(0..Base - 1)
  /\ \/ pc = "buffering" /\ file = <<>> /\ unwritten = <<>>
     \/ pc = "writing" /\ index.docs # <<>> /\ file \o unwritten = Image

\* Every number that is written fits its field.
PostingFits(p) ==
  /\ Fits(Len(p[1]), Short) /\ Fits(p[2], Word) /\ Fits(Len(p[3]), Word)
  /\ \A i \in DOMAIN p[3] : Fits(p[3][i], Word)
ListFits(list) == Fits(Len(list), Word) /\ \A i \in DOMAIN list : PostingFits(list[i])
DocumentFits(d) ==
  /\ Fits(Len(d[1]), Short) /\ Fits(d[2], Word)
  /\ Fits(Len(d[3]), Short) /\ Fits(Len(d[4]), Word)
AllFit ==
  /\ \A t \in DOMAIN index.postings : Fits(Len(t), Short) /\ ListFits(index.postings[t])
  /\ \A i \in DOMAIN index.docs : DocumentFits(index.docs[i])
  /\ Fits(Len(index.terms), Word) /\ Fits(Len(index.docs), Word)
  /\ Fits(index.total, Long) /\ Fits(DocsStart, Long)

(* A segment that was not written to its end is refused, wherever the       *)
(* writing stopped: no reader, after a crash or beside the writer, takes it *)
(* for a smaller index (segment.rs:81-108, 129-290).  So a file is whole or *)
(* unreadable, as SearchEngine has it.                                      *)
TornIsRefused ==
  pc = "writing" /\ unwritten # <<>> /\ AllFit => ParseFromBytes = Unreadable

(* A whole segment is read back as the index that was written, if every     *)
(* length fits its field (segment.rs:37, 57-60, 74-97): offsets, counts and *)
(* lengths agree wherever terms and documents begin.                        *)
WholeIsReadBack ==
  pc = "writing" /\ unwritten = <<>> /\ AllFit =>
    ParseFromBytes = Index(index.postings, index.docs, index.total)
=============================================================================
