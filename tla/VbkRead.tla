------------------------------ MODULE VbkRead ------------------------------
(***************************************************************************)
(* FibStream._read of vbk.py with the tables it looks blocks up in: the    *)
(* blocks of a file are described in tables that a vector lists, and are   *)
(* stored where another vector, the block store, says.  Blocks are counted *)
(* whole.                                                                  *)
(***************************************************************************)
EXTENDS VbkVector

CONSTANTS
  Vbks,                  (* the VBK files looked at: records of whether it is of version 2, *)
                         (* whether it is old, the file that is read, a sequence of blocks, *)
                         (* and the block store                                             *)
  DescriptorSize,        (* the sizes of descriptors of blocks, old ones and newer ones,    *)
  OldDescriptorSize,     (* of those of stored blocks, and of those of tables               *)
  StoreSize,
  OldStoreSize,
  TableSize,
  MAX_ENTRIES_PER_TABLE

VARIABLES
  vbk,      (* as it was written: what the constant says, and the vectors  *)
  request,  (* the first block that is read and how many                   *)
  block,    (* the block that is read next                                 *)
  descriptor, (* what its table says of it, or NoDescriptor                *)
  result,
  pc        (* "reading", "done" or the error                              *)

vars == <<vbk, request, block, descriptor, result, pc>>

Zero == 0
Plain == "plain"
LZ4 == "lz4"

Normal(id) == [type |-> "normal", id |-> id]
Sparse == [type |-> "sparse", id |-> 0]
Archived == [type |-> "archived", id |-> 0]

-----------------------------------------------------------------------------
\* The writer.

FibEntrySize(old) == IF old THEN OldDescriptorSize ELSE DescriptorSize

NoVector == Vector(FALSE, 1, <<>>)

\* Each table is a vector of its own, and one of which every block is sparse is left out.
TableEntries(v) ==
  LET tables == Parts(v.blocks, MAX_ENTRIES_PER_TABLE)
  IN  [t \in DOMAIN tables |->
         IF \A b \in ToSet(tables[t]) : b = Sparse
         THEN [listed |-> FALSE, vector |-> NoVector]
         ELSE [listed |-> TRUE,
               vector |-> Vector(v.version2, FibEntrySize(v.old), tables[t])]]

Written(v) ==
  [old |-> v.old, blocks |-> v.blocks, store |-> v.store,
   tables |-> Vector(v.version2, TableSize, TableEntries(v)),
   block_store |-> Vector(v.version2, IF v.old THEN OldStoreSize ELSE StoreSize, v.store)]

-----------------------------------------------------------------------------
\* FibMetaSparseTable

BlockDescriptor(idx) ==
  IF idx >= Len(vbk.blocks) THEN OutOfRange
  ELSE LET t == Get(vbk.tables, TableSize, idx \div MAX_ENTRIES_PER_TABLE).entry
       IN  IF t.listed
           THEN Get(t.vector, FibEntrySize(vbk.old), idx % MAX_ENTRIES_PER_TABLE)
           ELSE Entry(Sparse)

-----------------------------------------------------------------------------
\* FibStream

NoDescriptor == [error |-> "not looked up", entry |-> Garbage]

Init ==
  /\ vbk \in {Written(v) : v \in Vbks}
  /\ request \in [first : 0 .. Len(vbk.blocks) - 1, count : 1 .. Len(vbk.blocks)]
  /\ request.first + request.count <= Len(vbk.blocks)
  /\ block = request.first
  /\ descriptor = NoDescriptor
  /\ result = <<>>
  /\ pc = "reading"

Reading == pc = "reading" /\ block < request.first + request.count

Fail(error) ==
  /\ pc' = error
  /\ UNCHANGED <<vbk, request, block, descriptor, result>>

LookUp ==
  /\ Reading
  /\ descriptor = NoDescriptor
  /\ descriptor' = BlockDescriptor(block)
  /\ UNCHANGED <<vbk, request, block, result, pc>>

NotThere ==
  /\ Reading
  /\ descriptor.error # ""
  /\ descriptor # NoDescriptor
  /\ Fail(descriptor.error)

\* A block of a type is read next.
At(type) == Reading /\ descriptor.error = "" /\ descriptor.entry.type = type

Give(x) ==
  /\ result' = Append(result, x)
  /\ block' = block + 1
  /\ descriptor' = NoDescriptor
  /\ UNCHANGED <<vbk, request, pc>>

\* The block store is taken to be that of a newer file, whatever it is.
StoreEntry == Get(vbk.block_store, StoreSize, descriptor.entry.id)

ReadStored ==
  /\ At("normal")
  /\ StoreEntry.error = ""
  /\ StoreEntry.entry.compression \in {Plain, LZ4}
  /\ Give(StoreEntry.entry.data)

NotStored ==
  /\ At("normal")
  /\ StoreEntry.error # ""
  /\ Fail(StoreEntry.error)

UnsupportedCompression ==
  /\ At("normal")
  /\ StoreEntry.error = ""
  /\ StoreEntry.entry.compression \notin {Plain, LZ4}
  /\ Fail("unsupported compression")

ReadSparse == At("sparse") /\ Give(Zero)

UnsupportedBlock ==
  /\ Reading
  /\ descriptor.error = ""
  /\ descriptor.entry.type \notin {"normal", "sparse"}
  /\ Fail("unsupported block")

Return ==
  /\ pc = "reading"
  /\ block = request.first + request.count
  /\ pc' = "done"
  /\ UNCHANGED <<vbk, request, block, descriptor, result>>

Ended == pc # "reading" /\ UNCHANGED vars

Next ==
  \/ LookUp
  \/ NotThere
  \/ ReadStored
  \/ NotStored
  \/ UnsupportedCompression
  \/ ReadSparse
  \/ UnsupportedBlock
  \/ Return
  \/ Ended

\* A read runs until it returns or fails.
Spec == Init /\ [][Next]_vars /\ WF_vars(Next)

-----------------------------------------------------------------------------

\* Every variable has its type, and a result as long as what was read.
TypeOK ==
  /\ block \in request.first .. request.first + request.count
  /\ Len(result) = block - request.first
  /\ pc \in {"reading", "done", "unsupported compression", "unsupported block",
             "index out of range", "end of page"}

Content(b) ==
  IF vbk.blocks[b + 1] = Sparse THEN Zero ELSE vbk.store[vbk.blocks[b + 1].id + 1].data

\* A block cannot be read: of a type or compression that is not supported, or one that the
\* store does not have.
Unreadable(b) ==
  LET x == vbk.blocks[b + 1]
  IN  \/ x = Archived
      \/ x # Sparse /\ (x.id >= Len(vbk.store)
                          \/ vbk.store[x.id + 1].compression \notin {Plain, LZ4})

\* A read gives every block of the file as it was stored, and fails only at a block that
\* cannot be read.
ReadsFile ==
  /\ \A i \in 1 .. Len(result) : result[i] = Content(request.first + i - 1)
  /\ pc \notin {"reading", "done"} => Unreadable(block)

\* With its header a page of version 1 holds as many entries of a size as without.
Fits(size) == (PAGE_SIZE - 1) \div size = PAGE_SIZE \div size

\* The descriptor of a block lies where it is looked for, and so does that of the stored block.
InPlace(b) ==
  LET size == FibEntrySize(vbk.old)
  IN  \/ vbk.block_store.version2
      \/ /\ Fits(size) \/ b % MAX_ENTRIES_PER_TABLE < (PAGE_SIZE - 1) \div size
         /\ vbk.old => vbk.blocks[b + 1].id = 0

\* So it does for every block whose entries are in place, wherever in its tables and in the
\* block store it is listed.
ReadsInPlace ==
  /\ \A i \in 1 .. Len(result) :
       InPlace(request.first + i - 1) => result[i] = Content(request.first + i - 1)
  /\ pc \notin {"reading", "done"} => Unreadable(block) \/ ~InPlace(block)
=============================================================================
