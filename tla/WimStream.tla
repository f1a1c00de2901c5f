----------------------------- MODULE WimStream -----------------------------
(***************************************************************************)
(* CompressedStream._read of wim.py: a resource is stored in chunks that   *)
(* are compressed one by one, with a table of where they start.            *)
(*                                                                         *)
(* A byte of the resource is known by its position.  How bytes are stored  *)
(* is abstracted to how many stored bytes each chunk takes.                *)
(***************************************************************************)
EXTENDS Integers, SequencesExt

CONSTANTS
  Resources,  (* the resources looked at: records of the original size and *)
              (* of stored, the stored sizes of the chunks                 *)
  ChunkSize,
  Align       (* that of AlignedStream                                     *)

VARIABLES
  resource,
  request,       (* the offset and length _read is called with             *)
  chunk,
  offset_in_chunk,
  length,        (* what is left to be read                                *)
  result,
  pc             (* "reading", "cut" once the loop is left early, "done"   *)

vars == <<resource, request, chunk, offset_in_chunk, length, result, pc>>

Smaller(a, b) == IF a < b THEN a ELSE b

\* s[at : at + n]
Slice(s, at, n) == SubSeq(s, at + 1, Smaller(at + n, Len(s)))

num_chunks == (resource.size + ChunkSize - 1) \div ChunkSize

\* The table, counted from 0: a chunk starts where those before it end.
Start(k) == SumFunctionOnSet(resource.stored, 1 .. k)

\* The resource ends with the table or after it: what is read with the last chunk, beyond
\* the chunk, the decompressor leaves alone.
compressed_size == Start(num_chunks) + num_chunks - 1

\* What decompressing size bytes from a stored offset gives: the chunk that starts there.
ReadChunk(offset, size) ==
  LET k == CHOOSE k \in 0 .. num_chunks - 1 : Start(k) = offset
  IN  IF size < resource.stored[k + 1] THEN <<>>
      ELSE [i \in 1 .. Smaller(ChunkSize, resource.size - k * ChunkSize) |->
              k * ChunkSize + i - 1]

\* Whole units of Align, the first of which starts within the stream.
Requests(size) ==
  {q \in [offset : 0 .. size - 1, length : 1 .. size + Align - 1] :
     /\ q.offset % Align = 0 /\ q.length % Align = 0
     /\ q.offset + q.length < size + Align}

Init ==
  /\ resource \in Resources
  /\ request \in Requests(resource.size)
  /\ chunk = request.offset \div ChunkSize
  /\ offset_in_chunk = request.offset % ChunkSize
  /\ length = request.length
  /\ result = <<>>
  /\ pc = "reading"

Reading == pc = "reading" /\ length > 0

\* "We somehow requested more data than we have runs for".
OutOfChunks ==
  /\ Reading
  /\ chunk >= num_chunks
  /\ pc' = "cut"
  /\ UNCHANGED <<resource, request, chunk, offset_in_chunk, length, result>>

Remaining ==
  IF chunk < num_chunks - 1
  THEN ChunkSize - offset_in_chunk
  ELSE resource.size - chunk * ChunkSize - offset_in_chunk

\* Mutation of NextStart: nothing stands for the end of the last chunk.
NextStartByTable == IF chunk < num_chunks - 1 THEN Start(chunk + 1) ELSE Start(chunk)

NextStart == IF chunk < num_chunks - 1 THEN Start(chunk + 1) ELSE compressed_size

\* The offset in the chunk stays what it was for the first one.
NextChunk ==
  /\ Reading
  /\ chunk < num_chunks
  /\ LET read_length == Smaller(Remaining, length)
         buf == ReadChunk(Start(chunk), NextStart - Start(chunk))
     IN  /\ result' = result \o Slice(buf, offset_in_chunk, read_length)
         /\ length' = length - read_length
  /\ chunk' = chunk + 1
  /\ UNCHANGED <<resource, request, offset_in_chunk, pc>>

Return ==
  /\ pc = "reading"
  /\ length = 0
  /\ pc' = "done"
  /\ UNCHANGED <<resource, request, chunk, offset_in_chunk, length, result>>

Ended == pc # "reading" /\ UNCHANGED vars

Next == OutOfChunks \/ NextChunk \/ Return \/ Ended

\* A read runs until it returns.
Spec == Init /\ [][Next]_vars /\ WF_vars(Next)

-----------------------------------------------------------------------------

end == request.offset + request.length

\* Every variable has its type, and the offset in a chunk lies in one.  (If the last chunk is
\* shorter than that, what is left to be read grows.)
TypeOK ==
  /\ request \in Requests(resource.size)
  /\ chunk \in 0 .. num_chunks
  /\ offset_in_chunk \in 0 .. ChunkSize - 1
  /\ length \in Nat
  /\ pc \in {"reading", "cut", "done"}

\* A read that starts where a chunk does, or ends in the chunk it starts in, gives the
\* bytes it asks for, to the end of the resource and in their order.
ReadsSlice ==
  \/ request.offset % ChunkSize = 0
  \/ request.offset \div ChunkSize = (end - 1) \div ChunkSize
  => /\ \A i \in 1 .. Len(result) : result[i] = request.offset + i - 1
     /\ pc # "reading" => Len(result) = Smaller(request.length, resource.size - request.offset)

\* The loop is left early only if more was requested than the resource has, as its comment
\* says.
CutsOnlyBeyondEnd == pc = "cut" => end > resource.size
=============================================================================
