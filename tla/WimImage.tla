----------------------------- MODULE WimImage -----------------------------
(***************************************************************************)
(* The directory tree of a WIM image (wim.py): Image.get, which looks a    *)
(* path up and follows links, open on what it finds, and iterdir, of which *)
(* several can be under way at once over the one handle of the image.      *)
(*                                                                         *)
(* The entries of a directory lie one after the other.  An entry is as     *)
(* long as its body (its fixed fields and names) and what else its length  *)
(* says, and its streams follow it; each begins at a multiple of Align.  A *)
(* path is the sequence of its parts.                                      *)
(***************************************************************************)
EXTENDS Integers, SequencesExt

CONSTANTS
  Trees,    (* the images looked at, as sequences of directories, the first *)
            (* of them the root: each a sequence of entries                 *)
  WimPaths, (* the paths looked up                                          *)
  Table,    (* the headers of the resource table                            *)
  Align,
  MaxDepth  (* the calls that Python allows in one another                  *)

VARIABLES
  tree, path,
  at,        (* the image as it is stored: position :> entry                *)
  stack,     (* Image.get: the calls in one another, the innermost last     *)
  iterators, (* iterdir: the directory each is of, where it goes on, and    *)
             (* what it has listed                                          *)
  fh,        (* the position of the handle they share                       *)
  outcome

vars == <<tree, path, at, stack, iterators, fh, outcome>>

Up == ".."

Dir(d) == [name |-> "", kind |-> "dir", subdir |-> d, target |-> <<>>, body |-> 0,
           extra |-> 0, hash |-> 0, streams |-> <<>>]
Root == Dir(1)
None == Dir(0)

Unset == -1

AlignUp(n) == ((n + Align - 1) \div Align) * Align

-----------------------------------------------------------------------------
\* The writer.

EntryLength(e) == AlignUp(e.body) + e.extra

\* Directories lie apart from each other.
SubdirOffset(d) == 100 * d

\* Where the streams of e end, of which the first one begins at p or soon after.
StreamsEnd(p, e) == FoldLeft(LAMBDA q, s : AlignUp(q) + s.length, p, e.streams)

Start(t, d, i) ==
  FoldLeft(LAMBDA p, e : AlignUp(StreamsEnd(p + EntryLength(e), e)),
           SubdirOffset(d), SubSeq(t[d], 1, i - 1))

Stored(t) ==
  LET places == UNION {{d} \X (1 .. Len(t[d])) : d \in 1 .. Len(t)}
      start  == [x \in places |-> Start(t, x[1], x[2])]
  IN  [p \in Range(start) |-> LET x == CHOOSE y \in places : start[y] = p IN t[x[1]][x[2]]]

Entries == Range(at)

-----------------------------------------------------------------------------
\* DirectoryEntry

\* The entry found at a position, if it is not what ends a directory.
EntriesAt(p) == {at[q] : q \in {p} \cap DOMAIN at}

\* Where reading the entry at p leaves the handle.
After(p, e) ==
  LET end     == p + e.body
      aligned == EntryLength(e) - (AlignUp(end) - p)
      extra   == IF aligned > 0 THEN aligned ELSE EntryLength(e) - e.body
  IN  StreamsEnd(end + extra, e)

\* Mutation of Following: the position of the handle is taken when the iterator goes on.
FollowingTell(it) == IF it.offset = Unset THEN SubdirOffset(it.subdir) ELSE AlignUp(fh)

\* Where an iterator reads next: the directory's start, or behind the entry it gave last.
Following(it) ==
  IF it.offset = Unset THEN SubdirOffset(it.subdir) ELSE AlignUp(it.offset)

\* An iterator is asked for its next entry and finds one, or the end.
Yield ==
  /\ outcome = "listing"
  /\ \E i \in DOMAIN iterators : \E e \in EntriesAt(Following(iterators[i])) :
       LET after == After(Following(iterators[i]), e)
       IN  /\ iterators' = [iterators EXCEPT ![i].offset = after, ![i].listed = Append(@, e)]
           /\ fh' = after
  /\ UNCHANGED <<tree, path, at, stack, outcome>>

Exhaust ==
  /\ outcome = "listing"
  /\ \E i \in DOMAIN iterators :
       /\ ~iterators[i].ended
       /\ EntriesAt(Following(iterators[i])) = {}
       /\ iterators' = [iterators EXCEPT ![i].ended = TRUE]
       /\ fh' = Following(iterators[i]) + Align
       /\ outcome' = IF \A j \in DOMAIN iterators : iterators'[j].ended THEN "listed" ELSE outcome
  /\ UNCHANGED <<tree, path, at, stack>>

\* iterdir to its end, from position p on.
ListFrom[p \in Nat] ==
  IF EntriesAt(p) = {} THEN <<>>
  ELSE LET e == CHOOSE x \in EntriesAt(p) : TRUE
       IN  <<e>> \o ListFrom[AlignUp(After(p, e))]

Named(d, name) == SelectSeq(ListFrom[SubdirOffset(d)], LAMBDA e : e.name = name)

\* The hashes of the streams of an entry by that name; without streams the entry has one.
Hashes(e, name) ==
  IF e.streams = <<>> THEN {e.hash : n \in {name} \cap {""}}
  ELSE {s.hash : s \in {t \in ToSet(e.streams) : t.name = name}}

\* _read_resource_table: of two resources with one hash the last counts.
ResourceOf(hash) ==
  LET having == {i \in 1 .. Len(Table) : Table[i].hash = hash}
  IN  Table[CHOOSE i \in having : \A j \in having : j <= i]

\* The outcomes that give no link to follow; an empty one breaks off when it is parsed.
Errors == {"no such stream", "empty", "no such resource", "not supported"}

\* DirectoryEntry.open, Resource.open.
Opened(e, name) ==
  IF Hashes(e, name) = {} THEN "no such stream"
  ELSE LET hash == CHOOSE h \in Hashes(e, name) : TRUE
       IN  IF hash = 0 THEN "empty"
           ELSE IF \A i \in 1 .. Len(Table) : Table[i].hash # hash THEN "no such resource"
           ELSE IF ResourceOf(hash).spanned \/ ~ResourceOf(hash).supported THEN "not supported"
           ELSE ResourceOf(hash).data

-----------------------------------------------------------------------------
\* Image.get.  One call: the parts left of its path, the entry reached, and prev_entry.

Frame(parts, entry, prev) == [parts |-> parts, entry |-> entry, prev |-> prev]

Top == Last(stack)

Part == Head(Top.parts)

OrRoot(e) == IF e = None THEN Root ELSE e

GoOn(f) ==
  /\ stack' = Append(Front(stack), f)
  /\ UNCHANGED <<tree, path, at, iterators, fh, outcome>>

Fail(error) ==
  /\ outcome' = error
  /\ UNCHANGED <<tree, path, at, stack, iterators, fh>>

Looking == outcome = "looking" /\ Top.parts # <<>>

AtName == Looking /\ Part \notin {"", ".", Up}

SkipPart ==
  /\ Looking
  /\ Part \in {"", "."}
  /\ GoOn([Top EXCEPT !.parts = Tail(@)])

GoUp ==
  /\ Looking
  /\ Part = Up
  /\ GoOn([Top EXCEPT !.parts = Tail(@), !.entry = OrRoot(Top.prev)])

\* A link is looked up in a call of its own, from prev_entry on.
FollowLink ==
  /\ AtName
  /\ Top.entry.kind = "symlink"
  /\ Len(stack) < MaxDepth
  /\ Opened(Top.entry, "") \notin Errors
  /\ stack' = Append(stack, Frame(Top.entry.target, OrRoot(Top.prev), None))
  /\ UNCHANGED <<tree, path, at, iterators, fh, outcome>>

TooDeep ==
  /\ AtName
  /\ Top.entry.kind = "symlink"
  /\ Len(stack) = MaxDepth
  /\ Opened(Top.entry, "") \notin Errors
  /\ Fail("too deep")

\* readlink opens the link.
LinkWithoutTarget ==
  /\ AtName
  /\ Top.entry.kind = "symlink"
  /\ Opened(Top.entry, "") \in Errors
  /\ Fail(Opened(Top.entry, ""))

\* Mutation of Found: a directory further up is kept.
FoundBelow(e) == Frame(Tail(Top.parts), e, OrRoot(Top.prev))

Found(e) == Frame(Tail(Top.parts), e, Top.entry)

Descend ==
  /\ AtName
  /\ Top.entry.kind = "dir"
  /\ Named(Top.entry.subdir, Part) # <<>>
  /\ GoOn(Found(Head(Named(Top.entry.subdir, Part))))

NotFound ==
  /\ AtName
  /\ Top.entry.kind = "dir"
  /\ Named(Top.entry.subdir, Part) = <<>>
  /\ Fail("file not found")

\* iterdir refuses files, and reparse points other than symlinks.
NotADirectory == AtName /\ Top.entry.kind \notin {"dir", "symlink"} /\ Fail("not a directory")

\* Back in the call that followed a link; what was found may be another one.
ReturnLink ==
  /\ outcome = "looking" /\ Top.parts = <<>>
  /\ Len(stack) > 1
  /\ stack' = [Front(stack) EXCEPT ![Len(stack) - 1].entry = Top.entry]
  /\ UNCHANGED <<tree, path, at, iterators, fh, outcome>>

Return ==
  /\ outcome = "looking" /\ Top.parts = <<>>
  /\ Len(stack) = 1
  /\ Fail("found")

Init ==
  /\ tree \in Trees
  /\ at = Stored(tree)
  /\ fh = 0
  /\ \/ /\ outcome = "looking"
        /\ path \in WimPaths
        /\ stack = <<Frame(path, Root, None)>>
        /\ iterators = <<>>
     \/ /\ outcome = "listing"
        /\ path = <<>> /\ stack = <<>>
        /\ iterators \in [1 .. 2 -> [subdir : 1 .. Len(tree), offset : {Unset},
                                     listed : {<<>>}, ended : {FALSE}]]

Ended == outcome \notin {"looking", "listing"} /\ UNCHANGED vars

Next ==
  \/ Yield
  \/ Exhaust
  \/ SkipPart
  \/ GoUp
  \/ FollowLink
  \/ TooDeep
  \/ LinkWithoutTarget
  \/ Descend
  \/ NotFound
  \/ NotADirectory
  \/ ReturnLink
  \/ Return
  \/ Ended

\* A lookup runs until it returns or fails; the caller takes all that the iterators list.
Spec == Init /\ [][Next]_vars /\ WF_vars(Next)

-----------------------------------------------------------------------------

\* Every variable has its type, and a lookup is only ever at entries of the image.
TypeOK ==
  /\ fh \in Nat
  /\ Len(stack) <= MaxDepth
  /\ \A i \in 1 .. Len(stack) :
       /\ stack[i].entry \in {Root} \cup Entries
       /\ stack[i].prev \in {Root, None} \cup Entries

\* What a path means: from the directories come through, the last one first, ".." goes back
\* one and a link leads on from the directory that has it.  Links are followed so often.
Meant[times \in Nat] == [here \in Seq({Root} \cup Entries) |-> [parts \in Seq(STRING) |->
  LET e     == Head(here)
      above == IF Len(here) = 1 THEN here ELSE Tail(here)
      named == {x \in ToSet(tree[e.subdir]) : x.name = Head(parts)}
  IN  IF parts = <<>> THEN [outcome |-> "found", entry |-> e]
      ELSE IF Head(parts) \in {"", "."} THEN Meant[times][here][Tail(parts)]
      ELSE IF Head(parts) = Up THEN Meant[times][above][Tail(parts)]
      ELSE IF e.kind = "symlink" /\ times > 0 THEN Meant[times - 1][above][e.target \o parts]
      ELSE IF e.kind = "symlink" THEN [outcome |-> "endless"]
      ELSE IF e.kind # "dir" THEN [outcome |-> "not a directory"]
      ELSE IF named = {} THEN [outcome |-> "file not found"]
      ELSE Meant[times][<<CHOOSE x \in named : TRUE>> \o here][Tail(parts)]]]

MeantByPath == Meant[4][<<Root>>][path]

Steps(parts) == SelectSeq(parts, LAMBDA p : p \notin {"", "."})

\* No ".." after another: get remembers one directory back.
GoesUpOnce(parts) ==
  \A i \in 2 .. Len(Steps(parts)) : ~(Steps(parts)[i - 1] = Up /\ Steps(parts)[i] = Up)

Links == {e \in Entries : e.kind = "symlink"}

\* Links that have a target, which does not begin with ".." and is no link of another
\* directory: get takes such a target from the root, and such a link from where the first
\* one is.
LinksGoDown ==
  \A link \in Links :
    LET steps == Steps(link.target)
    IN  /\ Opened(link, "") \notin Errors
        /\ GoesUpOnce(steps)
        /\ Head(steps) # Up
        /\ Len(steps) = 1 \/ \A other \in Links : Last(steps) # other.name

\* A path is found where it leads, through links too, or fails as it should: where ".." goes
\* back over one name at a time, and links lead down.
GetResolves ==
  outcome \notin {"looking", "listing", "listed"} /\ GoesUpOnce(path) /\ LinksGoDown =>
    LET meant == MeantByPath
    IN  meant.outcome # "endless" =>
          /\ outcome = meant.outcome
          /\ outcome = "found" => Top.entry = meant.entry

\* Iterators each list their directory, in order and whole, whatever else uses the handle
\* between two entries.
ListsDirectories ==
  \A i \in DOMAIN iterators :
    /\ IsPrefix(iterators[i].listed, tree[iterators[i].subdir])
    /\ iterators[i].ended => iterators[i].listed = tree[iterators[i].subdir]

\* The links that the path leads over lead in a circle.
Endless == outcome = "looking" /\ MeantByPath.outcome = "endless"

\* A lookup comes to an end, unless links lead in a circle.
ComesToAnEnd == <>(outcome \notin {"looking", "listing"} \/ Endless)
=============================================================================
