----------------------------- MODULE TextChunks -----------------------------
(* How a normalized document is cut into the chunks the LLM reads, and how    *)
(* what the LLM quotes from a chunk is found again in the document: chunk_text *)
(* and the identifiers of individuals and properties.                         *)
(*                                                                            *)
(* Simplifications: a character is a number; the                            *)
(* sentence splitter is external, so a text is given as its sentences and     *)
(* what stands between them; the LLM quotes sentences; what it says of the    *)
(* entities that are known already is left out.                               *)
(* A definition marked "broken" is a defect that no specification uses.       *)
EXTENDS Integers, SequencesExt

CONSTANTS MaxChars, OverlapChars,   \* max_chunk_chars, chunk_overlap_chars
          Texts                     \* bound: the documents

ASSUME ChunksAssumption == MaxChars \in Nat \ {0} /\ OverlapChars \in Nat

ASSUME TextsAssumption ==
  \A t \in Texts : /\ t.sentences \in Seq(Seq(Nat)) /\ t.gaps \in Seq(Seq(Nat))
                   /\ t.sentences # <<>> => Len(t.sentences) = Len(t.gaps) + 1

VARIABLES text,         \* [sentences, gaps]; gaps[i] is what follows sentence i
          first, taken, \* current_sentences: the sentences first..taken
          chunk_start, chunks,
          calls,        \* the kinds of entities the LLM has yet to be asked for
          mentions      \* [kind, quote, start]

chunk_vars == <<text, first, taken, chunk_start, chunks, calls, mentions>>

EntityKinds == {"individual", "property"}

-----------------------------------------------------------------------------
Space == 0

Count    == Len(text.sentences)
Size(i)  == Len(text.sentences[i])

Full == FlattenSeq([k \in 1..(2 * Count - 1) |->
          IF k % 2 = 1 THEN text.sentences[(k + 1) \div 2] ELSE text.gaps[k \div 2]])

\* The sentences i..j with a space after each but the last
Joined(i, j) == FlattenSeq([k \in 1..(2 * (j - i + 1) - 1) |->
                  IF k % 2 = 1 THEN text.sentences[i + (k \div 2)] ELSE <<Space>>])

LengthOf(i, j) == IF i > j THEN 0 ELSE Len(Joined(i, j))

\* str.find: the first place at or after `from', -1 when there is none
FindIn(s, quote, from) ==
  LET places == {p \in from..(Len(s) - Len(quote)) : SubSeq(s, p + 1, p + Len(quote)) = quote}
  IN IF places = {} THEN -1 ELSE CHOOSE p \in places : \A q \in places : p <= q

\* where each sentence starts in the text, searched from the end of the last
SentenceIndex ==
  LET at[i \in 0..Count] ==
        IF i = 0 THEN [start |-> 0, end |-> 0]
        ELSE LET p == FindIn(Full, text.sentences[i], at[i - 1].end)
                 s == IF p = -1 THEN at[i - 1].end ELSE p
             IN [start |-> s, end |-> s + Size(i)]
  IN [i \in 1..Count |-> at[i].start]

-----------------------------------------------------------------------------
ChunkInit ==
  /\ text \in Texts
  /\ first = 1 /\ taken = 0 /\ chunk_start = 0 /\ chunks = <<>>
  /\ calls = {} /\ mentions = {}

Chunk(i, j, s) == [first |-> i, last |-> j, start |-> s, text |-> Joined(i, j)]
EndOf(c) == c.start + Len(c.text)

IsShort == Len(Full) <= MaxChars

WholeText ==
  /\ IsShort /\ chunks = <<>> /\ Count > 0
  /\ chunks' = <<[first |-> 1, last |-> Count, start |-> 0, text |-> Full]>>
  /\ taken' = Count /\ first' = Count + 1 /\ calls' = EntityKinds
  /\ UNCHANGED <<text, chunk_start, mentions>>

Fits == first > taken \/ LengthOf(first, taken) + Size(taken + 1) <= MaxChars

TakeSentence ==
  /\ ~IsShort /\ taken < Count /\ Fits
  /\ taken' = taken + 1
  /\ UNCHANGED <<text, first, chunk_start, chunks, calls, mentions>>

KeptFromNext == taken + 2                    \* broken: the new sentence is lost

\* The last sentences that fit in the overlap are the first of the next chunk.
KeptFrom ==
  CHOOSE f \in first..(taken + 1) :
    /\ LengthOf(f, taken) <= OverlapChars
    /\ \A g \in first..(f - 1) : LengthOf(g, taken) > OverlapChars

\* The text of a chunk has a space after each sentence but the last, and the
\* overlap is counted with one after each.
CutChunk ==
  /\ ~IsShort /\ taken < Count /\ ~Fits
  /\ LET chunk == Chunk(first, taken, chunk_start)
         kept  == KeptFrom
     IN /\ chunks' = Append(chunks, chunk)
        /\ first' = kept
        /\ chunk_start' = EndOf(chunk) - (IF kept <= taken THEN LengthOf(kept, taken) + 1 ELSE 0)
  /\ taken' = taken + 1
  /\ UNCHANGED <<text, calls, mentions>>

LastChunk ==
  /\ ~IsShort /\ taken = Count /\ first <= taken
  /\ chunks' = Append(chunks, Chunk(first, taken, chunk_start))
  /\ first' = taken + 1 /\ calls' = EntityKinds
  /\ UNCHANGED <<text, taken, chunk_start, mentions>>

-----------------------------------------------------------------------------
(* identify_batch: all chunks at once, the results joined in their order.      *)
Quotes(k) == {text.sentences[i] : i \in chunks[k].first..chunks[k].last}

\* A new one is placed by the first occurrence in the chunk's text.
Located(kind, k, quote) ==
  LET pos == FindIn(chunks[k].text, quote, 0)
  IN IF pos = -1 THEN {}
     ELSE {[kind |-> kind, quote |-> quote, start |-> chunks[k].start + pos]}

\* A call that fails names nothing; more than one new entity of a kind would
\* only be more of the same.
NamesNothing(kind) ==
  /\ kind \in calls /\ calls' = calls \ {kind}
  /\ UNCHANGED <<text, first, taken, chunk_start, chunks, mentions>>

Names(kind) ==
  /\ kind \in calls /\ calls' = calls \ {kind}
  /\ \E k \in 1..Len(chunks) : \E quote \in Quotes(k) :
       mentions' = mentions \cup Located(kind, k, quote)
  /\ UNCHANGED <<text, first, taken, chunk_start, chunks>>

NameIndividuals == Names("individual") \/ NamesNothing("individual")
NameProperties  == Names("property") \/ NamesNothing("property")

ChunkStep == WholeText \/ TakeSentence \/ CutChunk \/ LastChunk

ChunkNext == ChunkStep \/ NameIndividuals \/ NameProperties

ChunkSpec == ChunkInit /\ [][ChunkNext]_chunk_vars

-----------------------------------------------------------------------------
AllCut == Count > 0 /\ taken = Count /\ first > taken

\* No part of the document is left out: the chunks are runs of sentences in the
\* order of the document, the first starts with the first one, each goes on
\* further than the one before and leaves no sentence between them out, what two
\* of them share fits in the overlap, and the last ends with the last one.
ChunksCover ==
  /\ \A k \in 1..(Len(chunks) - 1) :
       /\ chunks[k].first <= chunks[k + 1].first /\ chunks[k + 1].first <= chunks[k].last + 1
       /\ chunks[k].last < chunks[k + 1].last
       /\ LengthOf(chunks[k + 1].first, chunks[k].last) <= OverlapChars
  /\ AllCut => chunks[1].first = 1 /\ Last(chunks).last = Count

\* A chunk is not longer than a prompt may be: the limit, or its longest
\* sentence, and an overlap before it.
ChunksBounded ==
  \A k \in 1..Len(chunks) :
    LET sizes == {Size(i) : i \in chunks[k].first..chunks[k].last} \cup {MaxChars}
    IN Len(chunks[k].text) <= OverlapChars + 1 + (CHOOSE n \in sizes : \A m \in sizes : m <= n)

\* Every sentence of the index is where the index says, and they do not overlap,
\* whatever is said twice and whatever separates them.
SentenceIndexExact ==
  \A i \in 1..Count :
    /\ SubSeq(Full, SentenceIndex[i] + 1, SentenceIndex[i] + Size(i)) = text.sentences[i]
    /\ i > 1 => SentenceIndex[i - 1] + Size(i - 1) <= SentenceIndex[i]

\* A document is cut without loss, within the limits and with places that hold.
\* (chunk_text, build_sentence_index)
ChunksSound == ChunksCover /\ ChunksBounded /\ SentenceIndexExact

\* A chunk's offsets are places of the document, and what they cut out of it is
\* the chunk's text.
ChunksIndexTheText ==
  \A k \in 1..Len(chunks) :
    /\ 0 <= chunks[k].start /\ EndOf(chunks[k]) <= Len(Full)
    /\ SubSeq(Full, chunks[k].start + 1, EndOf(chunks[k])) = chunks[k].text
=============================================================================
