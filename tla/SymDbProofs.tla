----------------------------- MODULE SymDbProofs -----------------------------
(***************************************************************************)
(* Proofs about SymDb, for every set of threads, files, trees and inodes.  *)
(***************************************************************************)
EXTENDS SymDb, TLAPS

(* Type correctness; a client that writes has a file open.                 *)
THEOREM TypeCorrect == Spec => []TypeOK
  <1>1. Init => TypeOK
    <2> SUFFICES ASSUME Init PROVE TypeOK
      OBVIOUS
    <2>1. (CHOOSE f \in Files : TRUE) \in Files
      BY SymDbAssumption
    <2>2. QED
      BY <2>1 DEF Init, TypeOK, MaybeInode, Writing
  <1>2. TypeOK /\ [Next]_vars => TypeOK'
    <2> SUFFICES ASSUME TypeOK, [Next]_vars PROVE TypeOK'
      OBVIOUS
    <2> USE DEF Goto, paths, Writing
    <2>1. CASE Restart
      BY <2>1 DEF Restart, TypeOK, MaybeInode
    <2>2. ASSUME NEW c \in Clients, Step(c) PROVE TypeOK'
      <3>1. ASSUME NEW f \in Files, GetHit(c, f) PROVE TypeOK'
        BY <3>1 DEF GetHit, TypeOK
      <3>2. ASSUME NEW f \in Files, GetMiss(c, f) PROVE TypeOK'
        BY <3>2 DEF GetMiss, TypeOK
      <3>3. CASE GetOpen(c)
        BY <3>3 DEF GetOpen, TypeOK
      <3>4. CASE GetError(c)
        BY <3>4 DEF GetError, TypeOK
      <3>5. CASE GetCache(c)
        <4>1. /\ cache' \in [Files -> MaybeInode \cup {Absent}]
              /\ map' \in [Clients -> MaybeInode]
          BY <3>5 DEF GetCache, TypeOK
        <4>2. QED
          BY <3>5, <4>1 DEF GetCache, TypeOK, MaybeInode
      <3>6. ASSUME NEW f \in Files, NEW t \in Trees, InsertUnlink(c, f, t)
            PROVE  TypeOK'
        BY <3>6 DEF InsertUnlink, TypeOK, MaybeInode
      <3>7. CASE InsertCreate(c)
        <4>1. PICK i \in Inodes :
                 /\ temp' = [temp EXCEPT ![file[c]] = i]
                 /\ content' = [content EXCEPT ![i] = Partial]
                 /\ fd' = [fd EXCEPT ![c] = i]
                 /\ spoiled' = [Spoil(c, i) EXCEPT ![c] = FALSE]
          BY <3>7 DEF InsertCreate
        <4>2. spoiled' \in [Clients -> BOOLEAN]
          BY <4>1 DEF Spoil, TypeOK
        <4>3. i # None
          BY SymDbAssumption
        <4>4. QED
          BY <3>7, <4>1, <4>2, <4>3 DEF InsertCreate, TypeOK, MaybeInode
      <3>8. CASE InsertWrite(c)
        <4>1. spoiled' \in [Clients -> BOOLEAN]
          BY <3>8 DEF InsertWrite, Spoil, TypeOK
        <4>2. QED
          BY <3>8, <4>1 DEF InsertWrite, TypeOK
      <3>9. CASE InsertFlush(c)
        <4>1. spoiled' \in [Clients -> BOOLEAN]
          BY <3>9 DEF InsertFlush, Spoil, TypeOK
        <4>2. QED
          BY <3>9, <4>1 DEF InsertFlush, TypeOK
      <3>10. CASE InsertError(c)
        BY <3>10 DEF InsertError, TypeOK, MaybeInode
      <3>11. CASE InsertRename(c)
        BY <3>11 DEF InsertRename, TypeOK, MaybeInode
      <3>12. CASE InsertForget(c)
        BY <3>12 DEF InsertForget, TypeOK
      <3>13. QED
        BY <2>2, <3>1, <3>2, <3>3, <3>4, <3>5, <3>6, <3>7, <3>8, <3>9,
           <3>10, <3>11, <3>12 DEF Step, Continue
    <2>3. CASE UNCHANGED vars
      BY <2>3 DEF vars, TypeOK
    <2>4. QED
      BY <2>1, <2>2, <2>3 DEF Next
  <1>3. QED
    BY <1>1, <1>2, PTL DEF Spec

-----------------------------------------------------------------------------
(* The discipline of a single inserter for each file.                      *)

(* Nobody else has the temporary inode of an inserter open for writing.    *)
LEMMA NoOtherWriter ==
    ASSUME SingleInserter, TypeOK, Discipline,
           NEW c \in Clients, pc[c] \in Writing \cup {"create"},
           temp[file[c]] # None
    PROVE  OtherWriters(c, temp[file[c]]) = {}
  <1> SUFFICES ASSUME NEW d \in Clients \ {c}, pc[d] \in Writing,
                      fd[d] = temp[file[c]]
               PROVE  FALSE
    BY DEF OtherWriters
  <1>1. temp[file[d]] = temp[file[c]] /\ file[c] \in Files /\ file[d] \in Files
    BY DEF Discipline, TempOwned, TypeOK
  <1>2. file[d] = file[c]
    BY <1>1 DEF Discipline, TempPrivate, TypeOK, MaybeInode
  <1>3. Inserting(c) /\ Inserting(d)
    BY DEF Inserting
  <1>4. QED
    BY <1>2, <1>3 DEF SingleInserter

(* A step that neither writes a file nor renames one, and maps nothing     *)
(* incomplete, keeps what the discipline says of files and mappings.       *)
LEMMA QuietStep ==
    ASSUME TypeOK, Discipline, content' = content, final' = final,
           \A f \in Files : temp'[f] \in {temp[f], None},
           \A i \in Inodes : Mapped(i)' =>
                Mapped(i) \/ \E f \in Files : final[f] = i
    PROVE  TempPrivate' /\ FinalComplete' /\ MappedComplete'
  <1>1. FinalComplete'
    BY DEF Discipline, FinalComplete
  <1>2. MappedComplete'
    <2> SUFFICES ASSUME NEW i \in Inodes, Mapped(i)' PROVE content[i] # Partial
      BY DEF MappedComplete
    <2>1. i # None
      BY SymDbAssumption
    <2>2. QED
      BY <2>1 DEF Discipline, MappedComplete, FinalComplete
  <1>3. TempPrivate'
    <2> SUFFICES ASSUME NEW f \in Files, NEW i \in Inodes, temp'[f] = i
                 PROVE  /\ ~Mapped(i)'
                        /\ \A g \in Files : /\ final[g] # i
                                            /\ temp'[g] = i => g = f
      BY DEF TempPrivate
    <2>1. temp[f] = i
      BY SymDbAssumption
    <2>2. ~Mapped(i) /\ \A g \in Files : final[g] # i /\ (temp[g] = i => g = f)
      BY <2>1 DEF Discipline, TempPrivate
    <2>3. \A g \in Files : temp'[g] = i => temp[g] = i
      BY SymDbAssumption
    <2>4. QED
      BY <2>2, <2>3
  <1>4. QED
    BY <1>1, <1>2, <1>3

(* Every step keeps the discipline.                                        *)
LEMMA DisciplineStep ==
    ASSUME SingleInserter, SingleInserter', TypeOK, TypeOK', Discipline,
           [Next]_vars
    PROVE  Discipline'
  <1> USE DEF Goto, paths, Writing
  <1>n. \A i \in Inodes : i # None /\ i # Absent
    BY SymDbAssumption
  <1>1. CASE Restart
    <2>1. TempOwned'
      BY <1>1 DEF Restart, TempOwned
    <2>2. \A i \in Inodes : ~Mapped(i)'
      BY <1>1, <1>n DEF Restart, Mapped
    <2>3. QED
      BY <1>1, <2>1, <2>2, QuietStep DEF Restart, Discipline
  <1>2. ASSUME NEW c \in Clients, Step(c) PROVE Discipline'
    <2>1. ASSUME NEW f \in Files, GetHit(c, f) PROVE Discipline'
      <3>1. TempOwned'
        BY <2>1 DEF GetHit, TempOwned, Discipline
      <3>2. \A i \in Inodes : Mapped(i)' => Mapped(i)
        BY <2>1 DEF GetHit, Mapped, TypeOK
      <3>3. QED
        BY <2>1, <3>1, <3>2, QuietStep DEF GetHit, Discipline
    <2>2. ASSUME NEW f \in Files, GetMiss(c, f) PROVE Discipline'
      <3>1. TempOwned'
        BY <2>2 DEF GetMiss, TempOwned, Discipline, TypeOK
      <3>2. \A i \in Inodes : Mapped(i)' => Mapped(i)
        BY <2>2 DEF GetMiss, Mapped, TypeOK
      <3>3. QED
        BY <2>2, <3>1, <3>2, QuietStep DEF GetMiss, Discipline
    <2>3. CASE GetOpen(c)
      <3>1. TempOwned'
        BY <2>3 DEF GetOpen, TempOwned, Discipline, TypeOK
      <3>2. \A i \in Inodes : Mapped(i)' =>
               Mapped(i) \/ \E f \in Files : final[f] = i
        BY <2>3 DEF GetOpen, Mapped, TypeOK
      <3>3. QED
        BY <2>3, <3>1, <3>2, QuietStep DEF GetOpen, Discipline
    <2>4. CASE GetError(c)
      <3>1. TempOwned'
        BY <2>4 DEF GetError, TempOwned, Discipline, TypeOK
      <3>2. \A i \in Inodes : Mapped(i)' => Mapped(i)
        BY <2>4 DEF GetError, Mapped, TypeOK
      <3>3. QED
        BY <2>4, <3>1, <3>2, QuietStep DEF GetError, Discipline
    <2>5. CASE GetCache(c)
      <3>1. TempOwned'
        BY <2>5 DEF GetCache, TempOwned, Discipline, TypeOK
      <3>2. PICK won : /\ won \in {cache[file[c]], fd[c]}
                       /\ cache' = [cache EXCEPT ![file[c]] = won]
                       /\ map' = [map EXCEPT ![c] = won]
        BY <2>5 DEF GetCache
      <3>3. \A i \in Inodes : Mapped(i)' => Mapped(i)
        BY <2>5, <3>2 DEF GetCache, Mapped, TypeOK
      <3>4. QED
        BY <2>5, <3>1, <3>3, QuietStep DEF GetCache, Discipline
    <2>6. ASSUME NEW f \in Files, NEW t \in Trees, InsertUnlink(c, f, t)
          PROVE  Discipline'
      <3>1. ASSUME NEW d \in Clients, pc[d] \in Writing PROVE file[d] # f
        <4>1. d # c /\ Inserting(d)' /\ Inserting(c)'
          BY <2>6, <3>1 DEF InsertUnlink, Inserting, TypeOK
        <4>2. file'[d] = file[d] /\ file'[c] = f
          BY <2>6, <4>1 DEF InsertUnlink, TypeOK
        <4>3. QED
          BY <4>1, <4>2 DEF SingleInserter
      <3>2. /\ pc' = [pc EXCEPT ![c] = "create"]
            /\ file' = [file EXCEPT ![c] = f]
            /\ tree' = [tree EXCEPT ![c] = t]
            /\ temp' = [temp EXCEPT ![f] = None]
            /\ UNCHANGED <<content, fd, spoiled>>
        BY <2>6 DEF InsertUnlink
      <3>3. ASSUME NEW d \in Clients \ {c}
            PROVE  pc'[d] = pc[d] /\ file'[d] = file[d] /\ tree'[d] = tree[d]
        BY <3>2 DEF TypeOK
      <3>4. pc'[c] = "create" /\ file'[c] = f /\ tree'[c] # Partial
        BY <3>2, SymDbAssumption DEF TypeOK
      <3>5. ASSUME NEW d \in Clients, pc'[d] \in Writing
            PROVE  temp'[file[d]] = temp[file[d]]
        BY <3>1, <3>2, <3>3, <3>4, <3>5 DEF TypeOK
      <3>6. TempOwned'
        BY <3>2, <3>3, <3>4, <3>5 DEF TempOwned, Discipline
      <3>7. \A i \in Inodes : Mapped(i)' => Mapped(i)
        BY <2>6, <3>2, <3>3, <3>4 DEF InsertUnlink, Mapped
      <3>8. \A g \in Files : temp'[g] \in {temp[g], None}
        BY <3>2 DEF TypeOK
      <3>9. QED
        BY <2>6, <3>6, <3>7, <3>8, QuietStep DEF InsertUnlink, Discipline
    <2>7. CASE InsertCreate(c)
      <3> DEFINE f == file[c]
      <3>1. PICK i \in Inodes :
               /\ IF temp[f] = None THEN Free(i) ELSE i = temp[f]
               /\ temp' = [temp EXCEPT ![f] = i]
               /\ content' = [content EXCEPT ![i] = Partial]
               /\ fd' = [fd EXCEPT ![c] = i]
               /\ spoiled' = [Spoil(c, i) EXCEPT ![c] = FALSE]
        BY <2>7 DEF InsertCreate
      <3>2. /\ pc[c] = "create" /\ pc' = [pc EXCEPT ![c] = "write"]
            /\ UNCHANGED <<final, cache, file, tree, map>>
            /\ f \in Files
        BY <2>7 DEF InsertCreate, TypeOK
      <3>3. /\ ~Mapped(i)
            /\ \A g \in Files : final[g] # i /\ (temp[g] = i => g = f)
        <4>1. CASE temp[f] = None
          BY <3>1, <3>2, <4>1 DEF Free, Mapped
        <4>2. CASE temp[f] # None
          BY <3>1, <3>2, <4>2 DEF Discipline, TempPrivate
        <4>3. QED
          BY <4>1, <4>2
      <3>4. OtherWriters(c, i) = {}
        <4>1. CASE temp[f] = None
          BY <3>1, <4>1 DEF Free, OtherWriters
        <4>2. CASE temp[f] # None
          BY <3>1, <3>2, <4>2, NoOtherWriter
        <4>3. QED
          BY <4>1, <4>2
      <3>5. spoiled' = [spoiled EXCEPT ![c] = FALSE]
        BY <3>1, <3>4 DEF Spoil, TypeOK
      <3>6. \A j \in Inodes : Mapped(j)' => Mapped(j)
        BY <3>1, <3>2 DEF Mapped, TypeOK
      <3>7. \A j \in Inodes : j # i => content'[j] = content[j]
        BY <3>1 DEF TypeOK
      <3>8. \A g \in Files : temp'[g] = IF g = f THEN i ELSE temp[g]
        BY <3>1 DEF TypeOK
      <3>9. FinalComplete'
        BY <3>2, <3>3, <3>7 DEF FinalComplete, Discipline, TypeOK, MaybeInode
      <3>10. MappedComplete'
        BY <3>3, <3>6, <3>7 DEF MappedComplete, Discipline
      <3>11. TempPrivate'
        <4> SUFFICES ASSUME NEW g \in Files, NEW j \in Inodes, temp'[g] = j
                     PROVE  /\ ~Mapped(j)'
                            /\ \A h \in Files : /\ final'[h] # j
                                                /\ temp'[h] = j => h = g
          BY DEF TempPrivate
        <4>1. CASE g = f
          BY <3>2, <3>3, <3>6, <3>8, <4>1
        <4>2. CASE g # f
          BY <3>2, <3>3, <3>6, <3>8, <4>2 DEF TempPrivate, Discipline
        <4>3. QED
          BY <4>1, <4>2
      <3>12. TempOwned'
        <4> SUFFICES ASSUME NEW d \in Clients
                     PROVE  /\ pc'[d] \in Writing =>
                                  temp'[file'[d]] = fd'[d] /\ ~spoiled'[d]
                            /\ pc'[d] \in {"create", "write"} => tree'[d] # Partial
                            /\ pc'[d] = "rename" => content'[fd'[d]] # Partial
          BY DEF TempOwned
        <4>1. CASE d = c
          BY <3>1, <3>2, <3>5, <3>8, <4>1 DEF TempOwned, Discipline, TypeOK
        <4>2. CASE d # c
          <5>1. /\ pc'[d] = pc[d] /\ file'[d] = file[d] /\ fd'[d] = fd[d]
                /\ tree'[d] = tree[d] /\ spoiled'[d] = spoiled[d]
            BY <3>1, <3>2, <3>5, <4>2 DEF TypeOK
          <5>2. pc[d] \in Writing => fd[d] # i /\ fd[d] \in Inodes
            BY <3>4, <4>2 DEF OtherWriters, TypeOK, MaybeInode
          <5>3. pc[d] \in Writing => file[d] # f
            BY <3>2, <4>2 DEF Inserting, SingleInserter
          <5>4. QED
            BY <3>7, <3>8, <5>1, <5>2, <5>3 DEF TempOwned, Discipline, TypeOK
        <4>3. QED
          BY <4>1, <4>2
      <3>13. QED
        BY <3>9, <3>10, <3>11, <3>12 DEF Discipline
    <2>8. ASSUME InsertWrite(c) \/ InsertFlush(c) PROVE Discipline'
      <3> DEFINE i == fd[c]
      <3>1. /\ pc[c] = "write" /\ file[c] \in Files
            /\ temp[file[c]] = i /\ i \in Inodes /\ ~spoiled[c]
            /\ tree[c] # Partial
        BY <2>8 DEF InsertWrite, InsertFlush, TempOwned, Discipline, TypeOK,
                    MaybeInode
      <3>2. OtherWriters(c, i) = {}
        BY <3>1, <1>n, NoOtherWriter
      <3>3. spoiled' = spoiled
        BY <2>8, <3>2 DEF InsertWrite, InsertFlush, Spoil, TypeOK
      <3>4. /\ UNCHANGED <<temp, final, cache, file, tree, fd, map>>
            /\ \A j \in Inodes : j # i => content'[j] = content[j]
        BY <2>8 DEF InsertWrite, InsertFlush, TypeOK
      <3>5. \/ pc' = pc
            \/ pc' = [pc EXCEPT ![c] = "rename"] /\ content'[i] = tree[c]
        BY <2>8, <3>1 DEF InsertWrite, InsertFlush, TypeOK
      <3>6. ~Mapped(i) /\ \A g \in Files : final[g] # i
        BY <3>1 DEF TempPrivate, Discipline
      <3>7. \A j \in Inodes : Mapped(j)' => Mapped(j)
        BY <3>4, <3>5 DEF Mapped, TypeOK
      <3>8. FinalComplete' /\ MappedComplete'
        BY <3>4, <3>6, <3>7
           DEF FinalComplete, MappedComplete, Discipline, TypeOK, MaybeInode
      <3>9. TempPrivate'
        BY <3>4, <3>7 DEF TempPrivate, Discipline
      <3>10. TempOwned'
        <4> SUFFICES ASSUME NEW d \in Clients
                     PROVE  /\ pc'[d] \in Writing =>
                                  temp[file[d]] = fd[d] /\ ~spoiled[d]
                            /\ pc'[d] \in {"create", "write"} => tree[d] # Partial
                            /\ pc'[d] = "rename" => content'[fd[d]] # Partial
          BY <3>3, <3>4 DEF TempOwned
        <4>1. CASE d = c
          BY <3>1, <3>5, <4>1 DEF TypeOK
        <4>2. CASE d # c
          <5>1. pc'[d] = pc[d]
            BY <3>5, <4>2 DEF TypeOK
          <5>2. pc[d] = "rename" => fd[d] # i /\ fd[d] \in Inodes
            BY <3>2, <4>2 DEF OtherWriters, TypeOK, MaybeInode
          <5>3. QED
            BY <3>4, <5>1, <5>2 DEF TempOwned, Discipline
        <4>3. QED
          BY <4>1, <4>2
      <3>11. QED
        BY <3>8, <3>9, <3>10 DEF Discipline
    <2>9. CASE InsertError(c)
      <3>1. /\ UNCHANGED <<temp, final, content, cache, file, tree, spoiled, map>>
            /\ pc' = [pc EXCEPT ![c] = "idle"] /\ fd' = [fd EXCEPT ![c] = None]
        BY <2>9 DEF InsertError
      <3>2. TempOwned'
        BY <3>1 DEF TempOwned, Discipline, TypeOK
      <3>3. \A i \in Inodes : Mapped(i)' => Mapped(i)
        BY <3>1, <1>n DEF Mapped, TypeOK
      <3>4. QED
        BY <3>1, <3>2, <3>3, QuietStep DEF Discipline
    <2>10. CASE InsertRename(c)
      <3> DEFINE f == file[c]
      <3>1. /\ pc[c] = "rename" /\ f \in Files
            /\ temp[f] = fd[c] /\ fd[c] \in Inodes
            /\ content[fd[c]] # Partial
        BY <2>10 DEF InsertRename, TempOwned, Discipline, TypeOK, MaybeInode
      <3>2. /\ UNCHANGED <<content, cache, file, tree, spoiled, map>>
            /\ fd' = [fd EXCEPT ![c] = None]
            /\ pc' = [pc EXCEPT ![c] = "forget"]
            /\ final' = [final EXCEPT ![f] = temp[f]]
            /\ temp' = [temp EXCEPT ![f] = None]
        BY <2>10, <3>1, <1>n DEF InsertRename
      <3>3. \A i \in Inodes : Mapped(i)' => Mapped(i)
        BY <3>2, <1>n DEF Mapped, TypeOK
      <3>4. FinalComplete'
        BY <3>1, <3>2 DEF FinalComplete, Discipline, TypeOK
      <3>5. MappedComplete'
        BY <3>2, <3>3 DEF MappedComplete, Discipline
      <3>6. TempPrivate'
        <4> SUFFICES ASSUME NEW g \in Files, NEW i \in Inodes, temp'[g] = i
                     PROVE  /\ ~Mapped(i)'
                            /\ \A h \in Files : /\ final'[h] # i
                                                /\ temp'[h] = i => h = g
          BY DEF TempPrivate
        <4>1. g # f /\ temp[g] = i
          BY <3>2, <1>n DEF TypeOK
        <4>2. ~Mapped(i) /\ \A h \in Files : final[h] # i /\ (temp[h] = i => h = g)
          BY <4>1 DEF TempPrivate, Discipline
        <4>3. QED
          BY <3>1, <3>2, <3>3, <4>1, <4>2, <1>n DEF TypeOK
      <3>7. TempOwned'
        <4> SUFFICES ASSUME NEW d \in Clients
                     PROVE  /\ pc'[d] \in Writing =>
                                  temp'[file[d]] = fd'[d] /\ ~spoiled[d]
                            /\ pc'[d] \in {"create", "write"} => tree[d] # Partial
                            /\ pc'[d] = "rename" => content[fd'[d]] # Partial
          BY <3>2 DEF TempOwned
        <4>1. CASE d = c
          BY <3>1, <3>2, <4>1 DEF TypeOK
        <4>2. CASE d # c
          <5>1. pc'[d] = pc[d] /\ fd'[d] = fd[d]
            BY <3>2, <4>2 DEF TypeOK
          <5>2. pc[d] \in Writing => file[d] # f /\ temp'[file[d]] = temp[file[d]]
            BY <3>1, <3>2, <4>2 DEF Inserting, SingleInserter, TypeOK
          <5>3. QED
            BY <5>1, <5>2 DEF TempOwned, Discipline
        <4>3. QED
          BY <4>1, <4>2
      <3>8. QED
        BY <3>4, <3>5, <3>6, <3>7 DEF Discipline
    <2>11. CASE InsertForget(c)
      <3>1. /\ UNCHANGED <<temp, final, content, file, tree, fd, spoiled, map>>
            /\ pc' = [pc EXCEPT ![c] = "idle"]
            /\ cache' = [cache EXCEPT ![file[c]] = Absent]
        BY <2>11 DEF InsertForget
      <3>2. TempOwned'
        BY <3>1 DEF TempOwned, Discipline, TypeOK
      <3>3. \A i \in Inodes : Mapped(i)' => Mapped(i)
        BY <3>1, <1>n DEF Mapped, TypeOK
      <3>4. QED
        BY <3>1, <3>2, <3>3, QuietStep DEF Discipline
    <2>12. QED
      BY <1>2, <2>1, <2>2, <2>3, <2>4, <2>5, <2>6, <2>7, <2>8, <2>9, <2>10,
         <2>11 DEF Step, Continue
  <1>3. CASE UNCHANGED vars
    <2>1. TempOwned'
      BY <1>3 DEF vars, TempOwned, Discipline
    <2>2. \A i \in Inodes : Mapped(i)' => Mapped(i)
      BY <1>3 DEF vars, Mapped
    <2>3. QED
      BY <1>3, <2>1, <2>2, QuietStep DEF vars, Discipline
  <1>4. QED
    BY <1>1, <1>2, <1>3 DEF Next

(* As long as each file has one inserter at a time, whatever the readers   *)
(* do and wherever an insert fails or the process dies: the final path     *)
(* names a whole tree and every mapping in use is of a whole tree.         *)
THEOREM InserterDiscipline == Spec /\ []SingleInserter => []Discipline
  <1>1. Init => Discipline
    <2> SUFFICES ASSUME Init PROVE Discipline
      OBVIOUS
    <2>1. \A i \in Inodes : ~Mapped(i) /\ i # None
      BY SymDbAssumption DEF Init, Mapped
    <2>2. TempOwned /\ TempPrivate
      BY <2>1 DEF Init, TempOwned, TempPrivate, Writing
    <2>3. FinalComplete /\ MappedComplete
      BY <2>1 DEF Init, FinalComplete, MappedComplete
    <2>4. QED
      BY <2>2, <2>3 DEF Discipline
  <1>2. /\ SingleInserter /\ SingleInserter' /\ TypeOK /\ TypeOK'
        /\ Discipline /\ [Next]_vars
        => Discipline'
    BY DisciplineStep
  <1>3. QED
    BY <1>1, <1>2, TypeCorrect, PTL DEF Spec

(* A file in place or mapped holds a whole tree, with one inserter for a    *)
(* file at a time.                                                          *)
THEOREM TreesAlwaysWhole == Spec /\ []SingleInserter => []TreesWhole
  BY InserterDiscipline, PTL DEF Discipline, TreesWhole

(* The files "that might already be mmap'ed" never change.                 *)
THEOREM MappingsStable == Spec /\ []SingleInserter => MappedStable
  <1>1. ASSUME TypeOK, Discipline, [Next]_vars, NEW i \in Inodes, Mapped(i)
        PROVE  content'[i] = content[i]
    <2>1. ASSUME NEW c \in Clients, Step(c) PROVE content'[i] = content[i]
      <3>1. CASE InsertCreate(c)
        <4>1. PICK j \in Inodes :
                 /\ IF temp[file[c]] = None THEN Free(j) ELSE j = temp[file[c]]
                 /\ content' = [content EXCEPT ![j] = Partial]
          BY <3>1 DEF InsertCreate
        <4>2. ~Mapped(j)
          <5>1. CASE temp[file[c]] = None
            BY <4>1, <5>1 DEF Free, Mapped
          <5>2. CASE temp[file[c]] # None
            BY <1>1, <4>1, <5>2 DEF Discipline, TempPrivate, TypeOK
          <5>3. QED
            BY <5>1, <5>2
        <4>3. QED
          BY <1>1, <4>1, <4>2 DEF TypeOK
      <3>2. CASE InsertWrite(c) \/ InsertFlush(c)
        <4>1. pc[c] = "write" /\ temp[file[c]] = fd[c] /\ file[c] \in Files
          BY <1>1, <3>2 DEF InsertWrite, InsertFlush, Writing, TypeOK,
                            Discipline, TempOwned
        <4>2. i # fd[c]
          BY <1>1, <4>1 DEF Discipline, TempPrivate
        <4>3. QED
          BY <1>1, <3>2, <4>2 DEF InsertWrite, InsertFlush, TypeOK
      <3>3. CASE ~(InsertCreate(c) \/ InsertWrite(c) \/ InsertFlush(c))
        <4>1. content' = content
          BY <2>1, <3>3 DEF Step, Continue, GetHit, GetMiss, GetOpen, GetError,
               GetCache, InsertUnlink, InsertError, InsertRename, InsertForget
        <4>2. QED
          BY <4>1
      <3>4. QED
        BY <3>1, <3>2, <3>3
    <2>2. CASE Restart \/ UNCHANGED vars
      BY <2>2 DEF Restart, vars
    <2>3. QED
      BY <1>1, <2>1, <2>2 DEF Next
  <1>2. TypeOK /\ Discipline /\ [Next]_vars =>
          [\A i \in Inodes : Mapped(i) => content'[i] = content[i]]_vars
    BY <1>1
  <1>3. QED
    BY <1>2, TypeCorrect, InserterDiscipline, PTL DEF Spec, MappedStable

(* Two clients that may never insert symbols of the same file keep the     *)
(* discipline.                                                             *)
THEOREM ApartIsSingle == OneMayInsert /\ Spec => []SingleInserter
  <1> SUFFICES ASSUME OneMayInsert PROVE Spec => []SingleInserter
    OBVIOUS
  <1> DEFINE Allowed == \A c \in Clients : Inserting(c) => c \in MayInsert[file[c]]
  <1>1. Init => Allowed
    BY DEF Init, Inserting, Writing
  <1>2. ASSUME TypeOK, Allowed, [Next]_vars PROVE Allowed'
    <2> USE DEF Goto, Inserting, Writing
    <2>1. CASE Restart \/ UNCHANGED vars
      BY <1>2, <2>1 DEF Restart, vars
    <2>2. ASSUME NEW c \in Clients, NEW f \in Files, NEW t \in Trees,
                 InsertUnlink(c, f, t)
          PROVE  Allowed'
      BY <1>2, <2>2 DEF InsertUnlink, TypeOK
    <2>3. ASSUME NEW c \in Clients, NEW f \in Files, GetMiss(c, f)
          PROVE  Allowed'
      BY <1>2, <2>3 DEF GetMiss, TypeOK
    <2>4. ASSUME NEW c \in Clients, NEW f \in Files, GetHit(c, f)
          PROVE  Allowed'
      BY <1>2, <2>4 DEF GetHit
    <2>5. ASSUME NEW c \in Clients, Continue(c) \/ InsertWrite(c)
          PROVE  Allowed'
      <3>1. file' = file /\ \A d \in Clients : Inserting(d)' => Inserting(d)
        BY <1>2, <2>5 DEF Continue, InsertWrite, GetOpen, GetError, GetCache,
             InsertCreate, InsertFlush, InsertError, InsertRename, InsertForget,
             TypeOK
      <3>2. QED
        BY <1>2, <3>1
    <2>6. QED
      BY <1>2, <2>1, <2>2, <2>3, <2>4, <2>5 DEF Next, Step
  <1>3. TypeOK /\ Allowed => SingleInserter
    BY DEF SingleInserter, OneMayInsert, TypeOK
  <1>4. QED
    <2>1. TypeOK /\ Allowed /\ [Next]_vars => Allowed'
      BY <1>2
    <2>2. QED
      BY <1>1, <1>3, <2>1, TypeCorrect, PTL DEF Spec

(* What is cached is never swapped for another mapping, whatever the       *)
(* inserters do: a cached file stays the same one until it is invalidated. *)
THEOREM CachedMappingStays == Spec => CacheStable
  <1>1. ASSUME TypeOK, [Next]_vars, NEW f \in Files, cache[f] # Absent
        PROVE  cache'[f] \in {cache[f], Absent}
    <2>1. CASE Restart \/ UNCHANGED vars
      BY <1>1, <2>1 DEF Restart, vars
    <2>2. ASSUME NEW c \in Clients, GetCache(c)
          PROVE  cache'[f] \in {cache[f], Absent}
      BY <1>1, <2>2 DEF GetCache, TypeOK
    <2>3. ASSUME NEW c \in Clients, InsertForget(c)
          PROVE  cache'[f] \in {cache[f], Absent}
      BY <1>1, <2>3 DEF InsertForget, TypeOK
    <2>4. ASSUME NEW c \in Clients, Step(c), ~GetCache(c), ~InsertForget(c)
          PROVE  cache' = cache
      BY <2>4 DEF Step, Continue, GetHit, GetMiss, GetOpen, GetError,
           InsertUnlink, InsertCreate, InsertWrite, InsertFlush, InsertError,
           InsertRename
    <2>5. QED
      BY <1>1, <2>1, <2>2, <2>3, <2>4 DEF Next
  <1>2. TypeOK /\ [Next]_vars =>
          [\A f \in Files :
              cache[f] # Absent => cache'[f] \in {cache[f], Absent}]_vars
    BY <1>1
  <1>3. QED
    BY <1>2, TypeCorrect, PTL DEF Spec, CacheStable
=============================================================================
