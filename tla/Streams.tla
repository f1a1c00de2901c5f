------------------------------ MODULE Streams ------------------------------
(***************************************************************************)
(* The formats other than TIBX, which have no part in common but           *)
(* AlignedStream: an archive is of one of them, and one stream of it is    *)
(* read, a path in it looked up, a directory listed, the properties of an  *)
(* item read, or the tool extracts it.                                     *)
(***************************************************************************)
EXTENDS Integers, Sequences

CONSTANTS Files, ClusterBlocks, Devices, VmaRequests, Resources, ChunkSize, Align, Disks,
          Vbks, PAGE_SIZE, DescriptorSize, OldDescriptorSize, StoreSize, OldStoreSize,
          TableSize, MAX_ENTRIES_PER_TABLE, VbkTrees, VbkPaths, ItemSize, Dictionaries,
          BlobPageSize, Trees, WimPaths, Table, MaxDepth

\* A WIM resource has bytes, and a size for each of its chunks, none of which is stored in none.
ASSUME WimAssumption ==
  /\ ChunkSize \in Nat \ {0} /\ Align \in Nat \ {0}
  /\ \A r \in Resources : /\ r.size \in Nat \ {0}
                          /\ r.stored \in Seq(Nat \ {0})
                          /\ Len(r.stored) = (r.size + ChunkSize - 1) \div ChunkSize

\* A VMA file lists each cluster of a device once, and stores nothing of an entry without one.
ASSUME VmaAssumption ==
  /\ ClusterBlocks \in Nat \ {0}
  /\ \A d \in Devices : d \in Nat \ {0}
  /\ \A q \in VmaRequests : q.dev \in Nat \ {0} /\ q.cluster \in Nat /\ q.blocks \in Nat \ {0}
  /\ \A f \in Files :
       /\ f \in Seq(Seq([dev : Nat, cluster : Nat, mask : SUBSET (0 .. ClusterBlocks - 1)]))
       /\ \A e \in 1 .. Len(f) : \A n \in 1 .. Len(f[e]) :
            IF f[e][n].dev = 0 THEN f[e][n].mask = {}
            ELSE \A d \in 1 .. Len(f) : \A m \in 1 .. Len(f[d]) :
                   f[d][m].dev = f[e][n].dev /\ f[d][m].cluster = f[e][n].cluster => d = e /\ m = n

\* A VBK file ends a dictionary with a type of its own, has values of the size of their type, and
\* room on a page for more than its header.
ASSUME VbkPropertiesAssumption ==
  /\ BlobPageSize \in Nat /\ BlobPageSize > 3
  /\ Dictionaries \subseteq Seq([type : Int \ {-1}, name : Seq(Int), value : Seq(Int)])
  /\ \A d \in Dictionaries : \A i \in 1 .. Len(d) :
       /\ d[i].type = 1 => Len(d[i].value) = 1
       /\ d[i].type = 2 => Len(d[i].value) = 2
       /\ d[i].type = 6 => d[i].value \in {<<0>>, <<1>>}

\* Pages of a VBK file have room for more than four words and for more than an entry of any
\* size; those of the block store, of tables and of directories leave the room of a word on a page.
\* A file of version 2 is not old.
ASSUME VbkAssumption ==
  /\ PAGE_SIZE \in Nat /\ PAGE_SIZE > 4 /\ MAX_ENTRIES_PER_TABLE \in Nat \ {0}
  /\ {DescriptorSize, OldDescriptorSize, OldStoreSize} \subseteq 1 .. PAGE_SIZE - 1
  /\ \A size \in {StoreSize, TableSize, ItemSize} :
       size \in 1 .. PAGE_SIZE - 1 /\ (PAGE_SIZE - 1) \div size = PAGE_SIZE \div size
  /\ \A v \in Vbks :
       /\ v.version2 \in BOOLEAN /\ v.old \in BOOLEAN /\ (v.version2 => ~v.old)
       /\ v.blocks \in Seq([type : {"normal"}, id : Nat] \cup [type : {"sparse", "archived"}, id : {0}])
       /\ v.store \in Seq([data : Int, compression : STRING])

\* Directories of a VBK file have the numbers that the items which are folders say, and the root
\* has number 1.
ASSUME VbkTreesAssumption ==
  /\ VbkPaths \subseteq Seq(STRING)
  /\ \A t \in VbkTrees :
       /\ t.version2 \in BOOLEAN /\ 1 \in DOMAIN t.directories
       /\ \A d \in DOMAIN t.directories :
            /\ t.directories[d] \in Seq([name : STRING, kind : STRING, folder : Nat])
            /\ \A i \in 1 .. Len(t.directories[d]) :
                 t.directories[d][i].kind = "folder" => t.directories[d][i].folder \in DOMAIN t.directories

VARIABLES
  format,                                       (* what is opened          *)
  request, result, pc, place,                   (* of several formats      *)
  file, cluster, temp, block_count,             (* VmaRead                 *)
  at,                                           (* VmaExtract, WimImage    *)
  written,                                      (* VmaExtract              *)
  resource, chunk, offset_in_chunk, length,     (* WimStream               *)
  stack, iterators, fh,                         (* WimImage                *)
  tree, path,                                   (* WimImage, VbkDirectory  *)
  disk, verify, member_index, block_member,     (* XvaStream               *)
  checksum_member, index, offset, lookup, members,
  vbk, block, descriptor,                       (* VbkRead                 *)
  item, part, entry,                            (* VbkDirectory            *)
  dictionary, page, data, pos, properties       (* VbkProperties           *)

vma_read == <<cluster, temp, block_count>>
wim_read == <<resource, chunk, offset_in_chunk, length>>
wim_image == <<stack, iterators, fh>>
named == <<tree, path>>
xva == <<disk, verify, member_index, block_member, checksum_member, index, offset, lookup,
         members>>
vbk_read == <<vbk, block, descriptor>>
vbk_directory == <<item, part, entry>>
vbk_properties == <<dictionary, page, data, pos, properties>>

vars == <<format, request, result, pc, place, file, vma_read, at, written, wim_read,
          wim_image, named, xva, vbk_read, vbk_directory, vbk_properties>>

VmaReader == INSTANCE VmaRead WITH Requests <- VmaRequests
VmaExtractor == INSTANCE VmaExtract
WimReader == INSTANCE WimStream
XvaReader == INSTANCE XvaStream
VbkReader == INSTANCE VbkRead
VbkItems == INSTANCE VbkDirectory
VbkItemProperties == INSTANCE VbkProperties
WimTree == INSTANCE WimImage WITH outcome <- pc

-----------------------------------------------------------------------------

\* A variable of another format.
Unused == "unused"

NoRequest == request = Unused /\ result = Unused
NoVmaRead == cluster = Unused /\ temp = Unused /\ block_count = Unused
NoWimRead ==
  /\ resource = Unused /\ chunk = Unused /\ offset_in_chunk = Unused /\ length = Unused
NoWimImage == stack = Unused /\ iterators = Unused /\ fh = Unused
NoName == tree = Unused /\ path = Unused
NoXva ==
  /\ disk = Unused /\ verify = Unused /\ member_index = Unused /\ block_member = Unused
  /\ checksum_member = Unused /\ index = Unused /\ offset = Unused /\ lookup = Unused
  /\ members = Unused
NoVbkRead == vbk = Unused /\ block = Unused /\ descriptor = Unused
NoVbkItem == item = Unused /\ part = Unused /\ entry = Unused
NoVbkProperties ==
  /\ dictionary = Unused /\ page = Unused /\ data = Unused /\ pos = Unused
  /\ properties = Unused

Init ==
  \/ /\ format = "vma"
     /\ VmaReader!Init
     /\ at = Unused /\ written = Unused /\ NoWimRead /\ NoWimImage /\ NoName /\ NoXva
     /\ NoVbkRead /\ NoVbkItem /\ NoVbkProperties
  \/ /\ format = "vma tool"
     /\ VmaExtractor!Init
     /\ NoRequest /\ NoVmaRead /\ NoWimRead /\ NoWimImage /\ NoName /\ NoXva
     /\ NoVbkRead /\ NoVbkItem /\ NoVbkProperties
  \/ /\ format = "wim"
     /\ WimReader!Init
     /\ place = Unused /\ file = Unused /\ NoVmaRead /\ at = Unused /\ written = Unused
     /\ NoWimImage /\ NoName /\ NoXva /\ NoVbkRead /\ NoVbkItem /\ NoVbkProperties
  \/ /\ format = "wim image"
     /\ WimTree!Init
     /\ NoRequest /\ place = Unused /\ file = Unused /\ NoVmaRead /\ written = Unused
     /\ NoWimRead /\ NoXva /\ NoVbkRead /\ NoVbkItem /\ NoVbkProperties
  \/ /\ format = "xva"
     /\ XvaReader!Init
     /\ file = Unused /\ NoVmaRead /\ at = Unused /\ written = Unused /\ NoWimRead
     /\ NoWimImage /\ NoName /\ NoVbkRead /\ NoVbkItem /\ NoVbkProperties
  \/ /\ format = "vbk"
     /\ VbkReader!Init
     /\ place = Unused /\ file = Unused /\ NoVmaRead /\ at = Unused /\ written = Unused
     /\ NoWimRead /\ NoWimImage /\ NoName /\ NoXva /\ NoVbkItem /\ NoVbkProperties
  \/ /\ format = "vbk directory"
     /\ VbkItems!Init
     /\ NoRequest /\ place = Unused /\ file = Unused /\ NoVmaRead /\ at = Unused
     /\ written = Unused /\ NoWimRead /\ NoWimImage /\ NoXva /\ NoVbkRead /\ NoVbkProperties
  \/ /\ format = "vbk properties"
     /\ VbkItemProperties!Init
     /\ NoRequest /\ place = Unused /\ file = Unused /\ NoVmaRead /\ at = Unused
     /\ written = Unused /\ NoWimRead /\ NoWimImage /\ NoName /\ NoXva /\ NoVbkRead
     /\ NoVbkItem

Next ==
  \/ /\ format = "vma"
     /\ VmaReader!Next
     /\ UNCHANGED <<format, at, written, wim_read, wim_image, named, xva, vbk_read,
                    vbk_directory, vbk_properties>>
  \/ /\ format = "vma tool"
     /\ VmaExtractor!Next
     /\ UNCHANGED <<format, request, result, vma_read, wim_read, wim_image, named, xva,
                    vbk_read, vbk_directory, vbk_properties>>
  \/ /\ format = "wim"
     /\ WimReader!Next
     /\ UNCHANGED <<format, place, file, vma_read, at, written, wim_image, named, xva,
                    vbk_read, vbk_directory, vbk_properties>>
  \/ /\ format = "wim image"
     /\ WimTree!Next
     /\ UNCHANGED <<format, request, result, place, file, vma_read, written, wim_read, xva,
                    vbk_read, vbk_directory, vbk_properties>>
  \/ /\ format = "xva"
     /\ XvaReader!Next
     /\ UNCHANGED <<format, file, vma_read, at, written, wim_read, wim_image, named,
                    vbk_read, vbk_directory, vbk_properties>>
  \/ /\ format = "vbk"
     /\ VbkReader!Next
     /\ UNCHANGED <<format, place, file, vma_read, at, written, wim_read, wim_image, named,
                    xva, vbk_directory, vbk_properties>>
  \/ /\ format = "vbk directory"
     /\ VbkItems!Next
     /\ UNCHANGED <<format, request, result, place, file, vma_read, at, written, wim_read,
                    wim_image, xva, vbk_read, vbk_properties>>
  \/ /\ format = "vbk properties"
     /\ VbkItemProperties!Next
     /\ UNCHANGED <<format, request, result, place, file, vma_read, at, written, wim_read,
                    wim_image, named, xva, vbk_read, vbk_directory>>

\* Whatever is called runs until it returns.
Spec == Init /\ [][Next]_vars /\ WF_vars(Next)

-----------------------------------------------------------------------------

\* Every variable of the format that is open has its type.
TypeOK ==
  /\ format = "vma" => VmaReader!TypeOK
  /\ format = "vma tool" => VmaExtractor!TypeOK
  /\ format = "wim" => WimReader!TypeOK
  /\ format = "xva" => XvaReader!TypeOK
  /\ format = "wim image" => WimTree!TypeOK
  /\ format = "vbk" => VbkReader!TypeOK
  /\ format = "vbk directory" => VbkItems!TypeOK
  /\ format = "vbk properties" => VbkItemProperties!TypeOK

\* A read of a VMA device gives its blocks in order, wherever in the file the clusters are.
VmaReadsDevice == format = "vma" => VmaReader!ReadsDevice

\* The extraction of a VMA file writes the devices that a read of them gives.
VmaExtractsDevices == format = "vma tool" => VmaExtractor!ExtractsDevices

\* A read of a WIM resource gives what it asks for, if it starts with a chunk or stays in
\* one.
WimReadsSlice == format = "wim" => WimReader!ReadsSlice

\* A read of a WIM resource is cut short only if it asks for more than the resource has.
CutsOnlyBeyondEnd == format = "wim" => WimReader!CutsOnlyBeyondEnd

\* A read of an XVA disk gives its blocks at their places, but for the last one stored.
XvaReadsImage == format = "xva" => XvaReader!ReadsImage

\* Every block of an XVA disk that is stored is part of its stream, the last one as well.
ReadsLastBlock == format = "xva" => XvaReader!ReadsLastBlock

\* A read of a file of a VBK gives every block as it was stored, wherever it is listed, if its
\* entries are in place.
VbkReadsFile == format = "vbk" => VbkReader!ReadsInPlace

\* A read of a file of a VBK gives every block as it was stored, and fails only at a block that
\* cannot be read.
ReadsFile == format = "vbk" => VbkReader!ReadsFile

\* A path of a WIM image is found where it leads, through links too, if they lead down and
\* ".." goes back over one name.
WimGetResolves == format = "wim image" => WimTree!GetResolves

\* Iterators over WIM directories that share the handle each list their directory.
WimListsDirectories == format = "wim image" => WimTree!ListsDirectories

\* The item found by a path in a VBK file is the one that it leads to.
VbkFindsItem == format = "vbk directory" => VbkItems!FindsItem

\* The properties of an item of a VBK file are read as they were written, if they fit on a
\* page.
VbkPropertiesOfOnePage == format = "vbk properties" => VbkItemProperties!PropertiesOfOnePage

\* The properties of an item of a VBK file are read as they were written, in any number and
\* of any length.
PropertiesAsWritten == format = "vbk properties" => VbkItemProperties!PropertiesAsWritten

\* All that runs.
Running == {"scan", "temp", "rest", "extracting", "reading", "scanning", "looking", "listing",
            "pages", "parsing"}

\* Every read, every extraction and every lookup comes to an end, unless links of a WIM image
\* lead in a circle.
Terminates == <>(pc \notin Running \/ (format = "wim image" /\ WimTree!Endless))
=============================================================================
