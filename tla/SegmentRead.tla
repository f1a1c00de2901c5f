---------------------------- MODULE SegmentRead ----------------------------
(***************************************************************************)
(* read_plaintext of tibx/segment.py: a segment starts on a page with a    *)
(* header and goes on over as many pages as its stored length takes, which *)
(* are read along with the first as far as the segment map says.           *)
(*                                                                         *)
(* Bytes are small numbers, a page holds a few of them.  What codecs and   *)
(* ciphers do is abstracted to what the code relies on: see "libraries".   *)
(***************************************************************************)
EXTENDS Integers, SequencesExt

CONSTANTS
  FirstPayload,        (* SEGMENT_FIRST_PAGE_PAYLOAD                       *)
  PageBody,            (* PAGE_BODY_SIZE                                   *)
  MAX_PREFETCH_PAGES,
  CipherBlock          (* 16, and the longest padding                      *)

VARIABLES
  archive,  (* pages, of a type, a segment header or none, and a body;     *)
            (* segment_map, segment :> its first page and its pages; gcm   *)
  data_key  (* whether there is one                                        *)

NoHeader == [length |-> 0, zlength |-> 0, codec |-> "none", encrypted |-> FALSE]

Smaller(a, b) == IF a < b THEN a ELSE b
Larger(a, b) == IF a < b THEN b ELSE a

\* s[:n]
Take(s, n) == SubSeq(s, 1, Smaller(n, Len(s)))

Plain(s) == [error |-> "", plain |-> s]
Failed(error) == [error |-> error, plain |-> <<>>]

-----------------------------------------------------------------------------
\* Libraries, for which what they pack stands with its length before it.

Packed(s) == <<Len(s)>> \o s
Complete(s) == s # <<>> /\ Len(s) >= 1 + s[1]
Unpacked(s) == SubSeq(s, 2, 1 + s[1])

\* zstd and zlib leave alone what follows what was compressed, LZ4 fails on it.
Decoded(s, codec) ==
  IF ~Complete(s) \/ (codec = "lz4" /\ Len(s) > 1 + s[1])
  THEN Failed("corrupt")
  ELSE Plain(Unpacked(s))

\* No two sequences of a few bytes have the same tag.
Tag(s) == FoldLeft(LAMBDA tag, byte : 10 * tag + byte, 1, s)

\* A tag authenticates exactly what was encrypted, but not which segment it is; without one
\* whole blocks are decrypted, whatever they are.
Decrypted(s) ==
  IF archive.gcm
  THEN IF s # <<>> /\ s[1] = Tag(Tail(s)) THEN Plain(Tail(s)) ELSE Failed("corrupt")
  ELSE IF Len(s) < CipherBlock THEN Failed("corrupt")
       ELSE Plain(Take(s, Len(s) - (Len(s) % CipherBlock)))

-----------------------------------------------------------------------------
\* segment.py

page_count == Len(archive.pages)

Page(i) == archive.pages[i + 1]

InBounds(start, count) == start >= 0 /\ start + count <= page_count

\* The pages read_run returns, which start at page start.
Run(start, count) == [i \in 1 .. count |-> Page(start + i - 1)]

HasHeader(p) == p.type = "data" /\ p.header # NoHeader

Unpad(s) ==
  LET pad == s[Len(s)]
  IN  IF /\ s # <<>> /\ Len(s) % CipherBlock = 0
         /\ pad \in 1 .. CipherBlock
         /\ \A i \in Len(s) - pad + 1 .. Len(s) : s[i] = pad
      THEN Take(s, Len(s) - pad)
      ELSE s

ContinuationPages(zlength) ==
  (Larger(0, zlength - FirstPayload) + PageBody - 1) \div PageBody

\* The stored bytes of the segment on page i, with the pages that came with it.
ReadCompressed(i, prefetched) ==
  LET zlength == Page(i).header.zlength
      count == ContinuationPages(zlength)
      pages == IF Len(prefetched) < count THEN Run(i + 1, count) ELSE Take(prefetched, count)
  IN  IF count > 0 /\ ~InBounds(i + 1, count) THEN Failed("corrupt")
      ELSE IF \E p \in ToSet(pages) : p.type # "data" THEN Failed("corrupt")
      ELSE Plain(Take(Take(Page(i).body, FirstPayload)
                        \o FlattenSeq([n \in 1 .. count |-> pages[n].body]), zlength))

OfLength(out, length) == IF Len(out.plain) = length THEN out ELSE Failed("corrupt")

Decompress(s, header) ==
  OfLength(IF header.codec = "none" THEN Plain(s) ELSE Decoded(s, header.codec), header.length)

DecryptedPayload(s) == IF archive.gcm THEN s ELSE Unpad(s)

DecompressEncrypted(s, header) ==
  CASE header.codec = "zstd" -> OfLength(Decoded(s, "zstd"), header.length)
    [] header.codec = "none" -> OfLength(Plain(Take(DecryptedPayload(s), header.length)),
                                 header.length)
    [] OTHER -> Decompress(DecryptedPayload(s), header)

\* Mutation of Prefetch: the map's page count is believed.
PrefetchAll(i, pages) == Larger(1, pages)

\* How many pages are read with the first: the map's count is not trusted.
Prefetch(i, pages) ==
  Larger(1, Smaller(pages, Smaller(MAX_PREFETCH_PAGES, page_count - i)))

Decode(s, header) ==
  IF ~header.encrypted THEN Decompress(s, header)
  ELSE IF Decrypted(s).error # "" THEN Decrypted(s)
  ELSE DecompressEncrypted(Decrypted(s).plain, header)

ReadPlaintext(i, pages) ==
  IF ~InBounds(i, Prefetch(i, pages)) \/ ~HasHeader(Page(i)) THEN Failed("corrupt")
  ELSE IF Page(i).header.encrypted /\ ~data_key THEN Failed("no key")
  ELSE LET stored == ReadCompressed(i, Run(i + 1, Prefetch(i, pages) - 1))
       IN  IF stored.error # "" THEN stored ELSE Decode(stored.plain, Page(i).header)

-----------------------------------------------------------------------------
\* The writer.

Padding(n) == LET pad == CipherBlock - (n % CipherBlock) IN [i \in 1 .. pad |-> pad]

\* The stored bytes of a segment.
Stored(segment, gcm) ==
  LET s == IF segment.codec = "none" THEN segment.plain ELSE Packed(segment.plain)
  IN  IF ~segment.encrypted THEN s
      ELSE IF gcm THEN <<Tag(s)>> \o s
      ELSE s \o Padding(Len(s))

\* A page is filled up with zeros.
Filled(s, n) == s \o [i \in 1 .. n - Len(s) |-> 0]

\* The pages of a segment.
PagesOf(segment, gcm) ==
  LET stored == Stored(segment, gcm)
      header == [length |-> Len(segment.plain), zlength |-> Len(stored),
                 codec |-> segment.codec, encrypted |-> segment.encrypted]
      rest == SubSeq(stored, FirstPayload + 1, Len(stored))
  IN  <<[type |-> "data", header |-> header,
         body |-> Filled(Take(stored, FirstPayload), FirstPayload)]>>
      \o [n \in 1 .. (Len(rest) + PageBody - 1) \div PageBody |->
            [type |-> "data", header |-> NoHeader,
             body |-> Filled(Take(SubSeq(rest, (n - 1) * PageBody + 1, Len(rest)), PageBody),
                             PageBody)]]
=============================================================================
