-------------------------------- MODULE SymDb --------------------------------
(***************************************************************************)
(* The symbol store (storage/symdb/mod.rs, struct SymDb): one symtree file *)
(* per executable, written to a temporary path and renamed over the final  *)
(* one, and a cache of memory mappings behind an RwLock.                   *)
(*                                                                         *)
(*   get      read lock: cached? else open + mmap; drop the lock;          *)
(*            write lock: cached meanwhile? else cache the mapping (or     *)
(*            the absence of a file)                                       *)
(*   insert   unlink temp ; create temp ; write ... ; rename ;             *)
(*            write lock: forget the cached mapping                        *)
(*                                                                         *)
(* The file system is modelled by what these calls need of it: a path      *)
(* names an inode, an open file and a mapping keep theirs whatever happens *)
(* to the path, creating over an existing path truncates its inode.  A     *)
(* tree is opaque; an inode holds a whole tree or Partial, anything else.  *)
(***************************************************************************)
EXTENDS Naturals

CONSTANTS
    Clients,    \* threads: UI, symbolizer tasks, drag-and-drop ingestion
    Files,      \* file IDs
    Trees,      \* symbol trees an insert may store
    Inodes,
    Partial,    \* an incomplete or mixed-up file
    None,       \* no inode; in the cache: no such file
    Absent,     \* not in the cache
    MayInsert   \* MayInsert[f]: the clients that insert symbols of file f

ASSUME SymDbAssumption ==
    /\ Partial \notin Trees
    /\ None \notin Inodes
    /\ Absent \notin Inodes \cup {None}
    /\ Files # {}
    /\ MayInsert \in [Files -> SUBSET Clients]

VARIABLES
    temp,      \* temp[f]: the inode at path_for_id(f, true)
    final,     \* final[f]: the inode at path_for_id(f, false)
    content,   \* content[i]: what inode i holds
    cache,     \* SymDb.cache
    pc,        \* pc[c]: where client c stands
    file,      \* file[c]: the file ID it works on
    tree,      \* tree[c]: the tree it inserts
    fd,        \* fd[c]: the file it has open, for writing or just mapped
    spoiled,   \* spoiled[c]: another client wrote to or truncated that file
    map        \* map[c]: the mapping the last get returned, still in use

vars == <<temp, final, content, cache, pc, file, tree, fd, spoiled, map>>
paths == <<temp, final>>

MaybeInode == Inodes \cup {None}

\* The inserting steps that hold the temporary file open.
Writing == {"write", "rename"}

TypeOK ==
    /\ temp \in [Files -> MaybeInode]
    /\ final \in [Files -> MaybeInode]
    /\ content \in [Inodes -> Trees \cup {Partial}]
    /\ cache \in [Files -> MaybeInode \cup {Absent}]
    /\ pc \in [Clients -> Writing \cup {"idle", "open", "escalate", "create",
                                        "forget"}]
    /\ file \in [Clients -> Files]
    /\ tree \in [Clients -> Trees \cup {Partial}]
    /\ fd \in [Clients -> MaybeInode]
    /\ spoiled \in [Clients -> BOOLEAN]
    /\ map \in [Clients -> MaybeInode]
    /\ \A c \in Clients : pc[c] \in Writing => fd[c] # None

-----------------------------------------------------------------------------
Goto(c, to) == pc' = [pc EXCEPT ![c] = to]

\* Mutant of NoReader: get keeps its read lock while it asks for the write lock.
NoUpgrader == \A c \in Clients : pc[c] \notin {"open", "escalate"}

\* cache.write() is granted: nobody holds the read lock.  Sections under the
\* write lock are single steps.
NoReader == \A c \in Clients : pc[c] # "open"

(* get *)

\* Under the read lock: the cached mapping, or the cached absence.
GetHit(c, f) ==
    /\ pc[c] = "idle"
    /\ cache[f] # Absent
    /\ map' = [map EXCEPT ![c] = cache[f]]
    /\ UNCHANGED <<paths, content, cache, pc, file, tree, fd, spoiled>>

\* Not cached: go on to the file, keeping the read lock.
GetMiss(c, f) ==
    /\ pc[c] = "idle"
    /\ cache[f] = Absent
    /\ Goto(c, "open")
    /\ file' = [file EXCEPT ![c] = f]
    /\ UNCHANGED <<paths, content, cache, tree, fd, spoiled, map>>

\* File::open and mmap, or NotFound; then drop(cache).
GetOpen(c) ==
    /\ pc[c] = "open"
    /\ fd' = [fd EXCEPT ![c] = final[file[c]]]
    /\ Goto(c, "escalate")
    /\ UNCHANGED <<paths, content, cache, file, tree, spoiled, map>>

\* Any other error of open or mmap is returned; nothing is cached.
GetError(c) ==
    /\ pc[c] = "open"
    /\ Goto(c, "idle")
    /\ UNCHANGED <<paths, content, cache, file, tree, fd, spoiled, map>>

\* Mutant of GetCache: no second look at the cache.
GetCacheAlways(c) ==
    /\ pc[c] = "escalate"
    /\ NoReader
    /\ cache' = [cache EXCEPT ![file[c]] = fd[c]]
    /\ map' = [map EXCEPT ![c] = fd[c]]
    /\ fd' = [fd EXCEPT ![c] = None]
    /\ Goto(c, "idle")
    /\ UNCHANGED <<paths, content, file, tree, spoiled>>

\* Under the write lock: the mapping another thread cached meanwhile wins.
GetCache(c) ==
    /\ pc[c] = "escalate"
    /\ NoReader
    /\ LET f == file[c]
           won == IF cache[f] # Absent THEN cache[f] ELSE fd[c]
       IN  /\ cache' = [cache EXCEPT ![f] = won]
           /\ map' = [map EXCEPT ![c] = won]
    /\ fd' = [fd EXCEPT ![c] = None]
    /\ Goto(c, "idle")
    /\ UNCHANGED <<paths, content, file, tree, spoiled>>

(* insert *)

\* Unlink a temporary file left behind, if there is one.
InsertUnlink(c, f, t) ==
    /\ pc[c] = "idle"
    /\ c \in MayInsert[f]
    /\ temp' = [temp EXCEPT ![f] = None]
    /\ Goto(c, "create")
    /\ file' = [file EXCEPT ![c] = f]
    /\ tree' = [tree EXCEPT ![c] = t]
    /\ UNCHANGED <<final, content, cache, fd, spoiled, map>>

\* The clients other than c that have inode i open for writing.
OtherWriters(c, i) ==
    {d \in Clients \ {c} : pc[d] \in Writing /\ fd[d] = i}

\* c truncates or writes inode i: whoever else writes it gets a mixed file.
Spoil(c, i) ==
    [d \in Clients |-> IF d \in OtherWriters(c, i) THEN TRUE ELSE spoiled[d]]

\* An inode nothing refers to.
Free(i) ==
    /\ \A f \in Files : i \notin {temp[f], final[f], cache[f]}
    /\ \A c \in Clients : i \notin {fd[c], map[c]}

\* Mutant of InsertCreate: an existing symtree is opened and truncated.
InsertInPlace(c) ==
    /\ pc[c] = "create"
    /\ \E i \in Inodes :
          /\ IF final[file[c]] = None THEN Free(i) ELSE i = final[file[c]]
          /\ temp' = [temp EXCEPT ![file[c]] = i]
          /\ content' = [content EXCEPT ![i] = Partial]
          /\ fd' = [fd EXCEPT ![c] = i]
          /\ spoiled' = [Spoil(c, i) EXCEPT ![c] = FALSE]
    /\ Goto(c, "write")
    /\ UNCHANGED <<final, cache, file, tree, map>>

\* File::create: a new inode, or the one at the path, truncated.
InsertCreate(c) ==
    /\ pc[c] = "create"
    /\ \E i \in Inodes :
          /\ IF temp[file[c]] = None THEN Free(i) ELSE i = temp[file[c]]
          /\ temp' = [temp EXCEPT ![file[c]] = i]
          /\ content' = [content EXCEPT ![i] = Partial]
          /\ fd' = [fd EXCEPT ![c] = i]
          /\ spoiled' = [Spoil(c, i) EXCEPT ![c] = FALSE]
    /\ Goto(c, "write")
    /\ UNCHANGED <<final, cache, file, tree, map>>

\* The buffered writer writes a part of the tree ...
InsertWrite(c) ==
    /\ pc[c] = "write"
    /\ content' = [content EXCEPT ![fd[c]] = Partial]
    /\ spoiled' = Spoil(c, fd[c])
    /\ UNCHANGED <<paths, cache, pc, file, tree, fd, map>>

\* Mutant of InsertFlush: the buffered writer is not flushed.
InsertUnflushed(c) ==
    /\ pc[c] = "write"
    /\ Goto(c, "rename")
    /\ UNCHANGED <<paths, content, cache, file, tree, fd, spoiled, map>>

\* ... and flush the rest.
InsertFlush(c) ==
    /\ pc[c] = "write"
    /\ content' = [content EXCEPT ![fd[c]] =
                      IF spoiled[c] THEN Partial ELSE tree[c]]
    /\ spoiled' = Spoil(c, fd[c])
    /\ Goto(c, "rename")
    /\ UNCHANGED <<paths, cache, file, tree, fd, map>>

\* Mutant of InsertError: the error is swallowed and the insert goes on.
InsertErrorIgnored(c) ==
    /\ pc[c] = "write"
    /\ Goto(c, "rename")
    /\ fd' = [fd EXCEPT ![c] = None]
    /\ UNCHANGED <<paths, content, cache, file, tree, spoiled, map>>

\* An I/O error, of the rename too, ends the insert; what was written stays at
\* the temporary path.
InsertError(c) ==
    /\ pc[c] \in {"create"} \cup Writing
    /\ Goto(c, "idle")
    /\ fd' = [fd EXCEPT ![c] = None]
    /\ UNCHANGED <<paths, content, cache, file, tree, spoiled, map>>

\* Mutant of InsertRename: the file is moved into place before it is complete.
InsertRenameEarly(c) ==
    /\ pc[c] = "write"
    /\ final' = [final EXCEPT ![file[c]] = fd[c]]
    /\ UNCHANGED <<temp, content, cache, pc, file, tree, fd, spoiled, map>>

\* fs::rename moves whatever is at the temporary path now; if nothing is,
\* it can only fail.
InsertRename(c) ==
    /\ pc[c] = "rename"
    /\ LET f == file[c]
       IN  /\ temp[f] # None
           /\ final' = [final EXCEPT ![f] = temp[f]]
           /\ temp' = [temp EXCEPT ![f] = None]
    /\ Goto(c, "forget")
    /\ fd' = [fd EXCEPT ![c] = None]
    /\ UNCHANGED <<content, cache, file, tree, spoiled, map>>

\* Under the write lock: invalidate the cache for this file ID.
InsertForget(c) ==
    /\ pc[c] = "forget"
    /\ NoReader
    /\ cache' = [cache EXCEPT ![file[c]] = Absent]
    /\ Goto(c, "idle")
    /\ UNCHANGED <<paths, content, file, tree, fd, spoiled, map>>

\* The process dies and is started again; only the files remain.
Restart ==
    /\ cache' = [f \in Files |-> Absent]
    /\ pc' = [c \in Clients |-> "idle"]
    /\ fd' = [c \in Clients |-> None]
    /\ map' = [c \in Clients |-> None]
    /\ UNCHANGED <<paths, content, file, tree, spoiled>>

-----------------------------------------------------------------------------
Init ==
    /\ temp = [f \in Files |-> None]
    /\ final = [f \in Files |-> None]
    /\ content = [i \in Inodes |-> Partial]
    /\ cache = [f \in Files |-> Absent]
    /\ pc = [c \in Clients |-> "idle"]
    /\ file = [c \in Clients |-> CHOOSE f \in Files : TRUE]
    /\ tree = [c \in Clients |-> Partial]
    /\ fd = [c \in Clients |-> None]
    /\ spoiled = [c \in Clients |-> FALSE]
    /\ map = [c \in Clients |-> None]

\* A call in progress takes its next step.
Continue(c) ==
    \/ GetOpen(c) \/ GetError(c) \/ GetCache(c)
    \/ InsertCreate(c) \/ InsertFlush(c) \/ InsertError(c)
    \/ InsertRename(c) \/ InsertForget(c)

Step(c) ==
    \/ \E f \in Files : GetHit(c, f) \/ GetMiss(c, f)
    \/ \E f \in Files, t \in Trees : InsertUnlink(c, f, t)
    \/ InsertWrite(c)
    \/ Continue(c)

Next == Restart \/ \E c \in Clients : Step(c)

Spec == Init /\ [][Next]_vars

\* Threads are scheduled and a tree is finite, so a call goes on; and a
\* thread waiting for the write lock is granted it in the end although a
\* reader comes and goes (std's RwLock makes new readers queue behind it;
\* against several readers that take turns this fairness is not enough).
Fairness == \A c \in Clients : SF_vars(Continue(c))

FairSpec == Spec /\ Fairness

-----------------------------------------------------------------------------
(* Properties.                                                             *)

\* c is inside insert.
Inserting(c) == pc[c] \in Writing \cup {"create", "forget"}

\* Inode i is mapped: by the cache, by a get that has not cached it yet, or
\* by a caller that still uses what get returned.
Mapped(i) ==
    \/ \E f \in Files : cache[f] = i
    \/ \E c \in Clients : map[c] = i \/ (pc[c] = "escalate" /\ fd[c] = i)

\* At the final path there is never anything but a whole tree: not while it
\* is replaced, not after a failed insert, not after a crash in the middle.
FinalComplete ==
    \A f \in Files : final[f] # None => content[final[f]] # Partial

\* No mapping a reader can dereference is of an incomplete tree.
MappedComplete == \A i \in Inodes : Mapped(i) => content[i] # Partial

TreesWhole == FinalComplete /\ MappedComplete

\* "We don't want to change the contents of files that might already be
\* mmap'ed": no step of an insert touches a mapped inode.
MappedStable ==
    [][\A i \in Inodes : Mapped(i) => content'[i] = content[i]]_vars

\* All readers share one mapping of a file: what is cached stays until an
\* insert invalidates it (a get that lost the race discards its own).
CacheStable ==
    [][\A f \in Files :
          cache[f] # Absent => cache'[f] \in {cache[f], Absent}]_vars

\* Every call returns: no thread waits for ever for the lock.
CallsReturn == \A c \in Clients : pc[c] # "idle" ~> pc[c] = "idle"

\* The discipline MappedStable rests on: one inserter for each file at a time.
SingleInserter ==
    \A c, d \in Clients :
       Inserting(c) /\ Inserting(d) /\ file[c] = file[d] => c = d

\* It holds if no two clients ever insert symbols of the same file.
OneMayInsert == \A f \in Files : \A c, d \in MayInsert[f] : c = d

\* Why it is enough.  The inserter of f alone has the temporary inode, ...
TempOwned ==
    \A c \in Clients :
       /\ pc[c] \in Writing => temp[file[c]] = fd[c] /\ ~spoiled[c]
       /\ pc[c] \in {"create", "write"} => tree[c] # Partial
       /\ pc[c] = "rename" => content[fd[c]] # Partial

\* ... which no other path names and nobody has mapped.
TempPrivate ==
    \A f \in Files, i \in Inodes : temp[f] = i =>
       /\ ~Mapped(i)
       /\ \A g \in Files : final[g] # i /\ (temp[g] = i => g = f)

Discipline == TempOwned /\ TempPrivate /\ FinalComplete /\ MappedComplete
=============================================================================
