---------------------------- MODULE VbkDirectory ----------------------------
(***************************************************************************)
(* VBK.get of vbk.py: an item of a VBK file is looked up by its path, one  *)
(* directory after the other, each of them a vector of items.              *)
(***************************************************************************)
EXTENDS VbkVector

CONSTANTS
  VbkTrees,  (* the files looked at: records of whether it is of version 2 *)
             (* and its directories, number :> the items in it; 1 is the   *)
             (* root, and an item that is a folder has its number          *)
  VbkPaths,  (* the paths looked up, split at every "/"                    *)
  ItemSize   (* of a DirItemRecord                                         *)

VARIABLES
  tree,     (* a file, its directories as the vectors that are stored      *)
  path,
  item,     (* the item the path has led to                                *)
  part,     (* how many parts of the path are done                         *)
  entry,    (* how many entries of the directory were looked at            *)
  pc        (* "looking", "found" or the error                             *)

vars == <<tree, path, item, part, entry, pc>>

Folder == "folder"

Root == [name |-> "/", kind |-> Folder, folder |-> 1]

-----------------------------------------------------------------------------

\* The writer.
Stored(t) ==
  [directories |-> t.directories,
   vectors |-> [d \in DOMAIN t.directories |->
                  Vector(t.version2, ItemSize, t.directories[d])]]

Init ==
  /\ tree \in {Stored(t) : t \in VbkTrees}
  /\ path \in VbkPaths
  /\ item = Root
  /\ part = 0
  /\ entry = 0
  /\ pc = "looking"

Looking == pc = "looking" /\ part < Len(path)

Part == path[part + 1]

Nameless(name) == name = ""

Directory == tree.vectors[item.folder]

\* The entry of the directory that is looked at.
Item == Get(Directory, ItemSize, entry).entry

MoreEntries == entry < Directory.count

SkipEmpty ==
  /\ Looking
  /\ Nameless(Part)
  /\ part' = part + 1
  /\ UNCHANGED <<tree, path, item, entry, pc>>

Fail(error) ==
  /\ pc' = error
  /\ UNCHANGED <<tree, path, item, part, entry>>

NotADirectory ==
  /\ Looking
  /\ ~Nameless(Part)
  /\ item.kind # Folder
  /\ Fail("nodirectory")

PassOver ==
  /\ Looking
  /\ ~Nameless(Part)
  /\ item.kind = Folder
  /\ MoreEntries
  /\ Item.name # Part
  /\ entry' = entry + 1
  /\ UNCHANGED <<tree, path, item, part, pc>>

\* Mutation of Enter: the next directory is not looked at from its start.
EnterHere ==
  /\ Looking
  /\ ~Nameless(Part)
  /\ item.kind = Folder
  /\ MoreEntries
  /\ Item.name = Part
  /\ item' = Item
  /\ part' = part + 1
  /\ UNCHANGED <<tree, path, entry, pc>>

Enter ==
  /\ Looking
  /\ ~Nameless(Part)
  /\ item.kind = Folder
  /\ MoreEntries
  /\ Item.name = Part
  /\ item' = Item
  /\ part' = part + 1
  /\ entry' = 0
  /\ UNCHANGED <<tree, path, pc>>

NotFound ==
  /\ Looking
  /\ ~Nameless(Part)
  /\ item.kind = Folder
  /\ ~MoreEntries
  /\ Fail("missing")

Return ==
  /\ pc = "looking"
  /\ part = Len(path)
  /\ pc' = "found"
  /\ UNCHANGED <<tree, path, item, part, entry>>

Ended == pc # "looking" /\ UNCHANGED vars

Next ==
  \/ SkipEmpty
  \/ NotADirectory
  \/ PassOver
  \/ Enter
  \/ NotFound
  \/ Return
  \/ Ended

\* A lookup runs until it returns or fails.
Spec == Init /\ [][Next]_vars /\ WF_vars(Next)

-----------------------------------------------------------------------------

\* Every variable has its type.
TypeOK ==
  /\ part \in 0 .. Len(path)
  /\ item = Root \/ \E d \in DOMAIN tree.directories : item \in ToSet(tree.directories[d])
  /\ item.kind = Folder => entry \in 0 .. Len(tree.directories[item.folder])
  /\ pc \in {"looking", "found", "missing", "nodirectory"}

\* The steps of a path: each is from a directory to the first item of that name in it.
Names == FlattenSeq([i \in DOMAIN path |-> IF Nameless(path[i]) THEN <<>> ELSE <<path[i]>>])

Leads(from, name, to) ==
  /\ from.kind = Folder
  /\ \E i \in DOMAIN tree.directories[from.folder] :
       /\ to = tree.directories[from.folder][i]
       /\ to.name = name
       /\ \A j \in 1 .. i - 1 : tree.directories[from.folder][j].name # name

AllItems == {Root} \cup UNION {ToSet(tree.directories[d]) : d \in DOMAIN tree.directories}

\* The items that the first n names lead to: one or none.
At[n \in Nat] ==
  IF n = 0 THEN {Root}
  ELSE {to \in AllItems : \E from \in At[n - 1] : Leads(from, Names[n], to)}

\* The item found is the one that the path leads to, wherever on its pages a directory has it
\* and whatever is looked at before; nothing is found only where no item is, and what is no
\* directory is named so only if the path goes on behind it.
FindsItem ==
  LET names == Len(Names)
      last  == At[names]
      stop  == CHOOSE n \in 0 .. names : At[n] # {} /\ (n = names \/ At[n + 1] = {})
  IN  /\ pc = "found" => last = {item}
      /\ pc \in {"missing", "nodirectory"} => last = {} /\ At[stop] = {item}
      /\ pc = "missing" => item.kind = Folder
      /\ pc = "nodirectory" => item.kind # Folder
=============================================================================
