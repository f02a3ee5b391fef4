-------------------------- MODULE SecureWriteProofs --------------------------
(***************************************************************************)
(* Theorems about SecureWrite, for any number of inodes, generations and   *)
(* keypairs: whatever step fails, whoever is killed and however often the  *)
(* power goes, files are read whole, in order, under their modes, and      *)
(* every step is one AtomicFile allows.                                    *)
(***************************************************************************)
EXTENDS SecureWrite, TLAPS

\* Everything a name leads to, or may lead to after a power failure, is a file
\* written to its end and synced before it got the name.
Sound(f, n) ==
    /\ inode[n].file = f /\ inode[n].data = "whole" /\ inode[n].synced = TRUE
    /\ inode[n].mode = Mode(f)
    /\ inode[n].ver # 0

EntriesSound ==
    \A f \in Files :
        /\ dir[f] \in media[f]
        /\ dir[f] = 0 => media[f] = {0}
        /\ \A n \in media[f] \ {0} : Sound(f, n)

\* No entry that may come back is older than what a caller was told Ok of.
Kept == \A f \in Files : \A n \in media[f] : told[f] <= ReadOptionalString(n)

\* The order of a job's two files holds between all entries that may come
\* back, each name on its own.
OrderKept ==
    /\ \A n \in media["fingerprint"], m \in media["generation"] :
          ReadOptionalString(n) <= ReadOptionalString(m)
    /\ \A n \in media["public_key"], m \in media["private_key"] :
          ReadOptionalString(n) \in {0, ReadOptionalString(m)}

DiskInv == EntriesSound /\ Kept /\ OrderKept

\* The temporary file of the call under way; every other inode is referred to
\* or free.
TempInv ==
    /\ pc \in {"chmod", "write", "sync", "rename"} =>
          /\ cur \in Inodes /\ cur \notin Linked(media)
          /\ inode[cur].file = file /\ inode[cur].ver = ver
    /\ pc \in {"idle", "create", "fsync"} => cur = 0
    /\ pc = "chmod" => inode[cur].data = "empty"
    /\ pc \in {"write", "sync", "rename"} => inode[cur].mode = Mode(file)
    /\ pc \in {"sync", "rename"} => inode[cur].data = "whole"
    /\ pc = "rename" => inode[cur].synced = TRUE
    /\ \A n \in Inodes : n # cur /\ n \notin Linked(media) => inode[n] = Free

\* What a job knows of the disk it began on and has written to so far.
JobInv ==
    /\ pc = "idle" => job = <<>>
    /\ pc # "idle" =>
          /\ job \in {WriteKeypair, PersistAfterApply, <<"public_key">>, <<"fingerprint">>}
          /\ ver # 0
          /\ job = WriteKeypair => dir["public_key"] = 0
          /\ job = <<"public_key">> =>
                \A m \in media["private_key"] : ReadOptionalString(m) = ver
          /\ job = <<"fingerprint">> =>
                \A m \in media["generation"] : ReadOptionalString(m) = ver
    /\ pc = "fsync" => ReadOptionalString(dir[file]) = ver
    /\ pc \notin {"idle", "fsync"} =>
          /\ job = WriteKeypair => dir["private_key"] = 0
          /\ job = <<"public_key">> => dir["public_key"] = 0
          /\ job = PersistAfterApply => ReadOptionalString(dir["generation"]) <= ver

IInv == TypeOK /\ DiskInv /\ TempInv /\ JobInv

-----------------------------------------------------------------------------
(* Facts about jobs, versions and reading.                                  *)

\* The files of each job, in their order.
LEMMA JobFiles ==
    /\ Head(WriteKeypair) = "private_key" /\ Tail(WriteKeypair) = <<"public_key">>
    /\ Head(PersistAfterApply) = "generation" /\ Tail(PersistAfterApply) = <<"fingerprint">>
    /\ Head(<<"public_key">>) = "public_key" /\ Tail(<<"public_key">>) = <<>>
    /\ Head(<<"fingerprint">>) = "fingerprint" /\ Tail(<<"fingerprint">>) = <<>>
BY DEF WriteKeypair, PersistAfterApply

\* No two of them are the same job, and none is over.
LEMMA JobsDiffer ==
    /\ WriteKeypair # PersistAfterApply
    /\ WriteKeypair # <<"public_key">> /\ WriteKeypair # <<"fingerprint">>
    /\ PersistAfterApply # <<"public_key">> /\ PersistAfterApply # <<"fingerprint">>
    /\ <<"public_key">> # <<"fingerprint">>
    /\ WriteKeypair # <<>> /\ PersistAfterApply # <<>>
    /\ <<"public_key">> # <<>> /\ <<"fingerprint">> # <<>>
BY DEF WriteKeypair, PersistAfterApply

LEMMA JobType ==
    \A j : j \in Jobs \cup {Tail(k) : k \in Jobs} \cup {<<>>}
           <=> j \in {WriteKeypair, PersistAfterApply, <<"public_key">>, <<"fingerprint">>, <<>>}
BY JobFiles DEF Jobs

\* Versions are numbers and keypairs are versions other than none.
LEMMA VersionNumbers ==
    /\ 0 \in Versions /\ \A v \in Versions : v \in Nat
    /\ \A v \in KeyVersions : v \in Versions /\ v # 0
    /\ \A v \in Nat : v <= MaxVersion => v \in Versions
    /\ 0 \notin Inodes
BY SecureWriteAssumption DEF Versions, KeyVersions, Inodes

\* A sound entry is read as its version; no entry, as none.
LEMMA SoundReads ==
    ASSUME TypeOK, EntriesSound, NEW f \in Files, NEW n \in media[f]
    PROVE  /\ n = 0 => ReadOptionalString(n) = 0
           /\ n # 0 => /\ n \in Inodes
                       /\ ReadOptionalString(n) = inode[n].ver
                       /\ ReadOptionalString(n) # 0
           /\ ReadOptionalString(n) \in Versions
           /\ ReadOptionalString(n) \in Nat
<1>1. n \in Inodes \cup {0}
      BY DEF TypeOK
<1>2. CASE n = 0
      BY <1>2, VersionNumbers DEF ReadOptionalString
<1>3. CASE n # 0
      <2>1. inode[n].data = "whole" /\ inode[n].ver # 0
            BY <1>3 DEF EntriesSound, Sound
      <2>2. inode[n] \in Inode
            BY <1>1, <1>3 DEF TypeOK
      <2>3. inode[n].ver \in Versions
            BY <2>2 DEF Inode
      <2>4. ReadOptionalString(n) = inode[n].ver
            BY <1>3, <2>1 DEF ReadOptionalString
      <2> QED BY <1>1, <1>3, <2>1, <2>3, <2>4, VersionNumbers
<1> QED BY <1>2, <1>3

\* What is read of a whole file depends on its inode only.
LEMMA SameInodeReadsSame ==
    ASSUME NEW n, n # 0 => inode'[n] = inode[n] /\ inode[n].data = "whole"
    PROVE  ReadOptionalString(n)' = ReadOptionalString(n)
BY DEF ReadOptionalString

\* Entries only disappear and what they lead to stays: the disk keeps its
\* invariant if what callers were told of is still there.
LEMMA DiskShrinks ==
    ASSUME TypeOK, DiskInv,
           \A f \in Files : /\ media'[f] \subseteq media[f]
                            /\ dir'[f] \in media'[f]
                            /\ dir'[f] = 0 => media'[f] = {0}
                            /\ \A n \in media'[f] : n # 0 => inode'[n] = inode[n]
                            /\ \A n \in media'[f] : told'[f] <= ReadOptionalString(n)
    PROVE  DiskInv'
<1>1. ASSUME NEW f \in Files, NEW n \in media'[f]
      PROVE  n \in media[f] /\ ReadOptionalString(n)' = ReadOptionalString(n)
      <2>1. n \in media[f]
            BY <1>1
      <2>2. n # 0 => inode'[n] = inode[n] /\ inode[n].data = "whole"
            BY <1>1, <2>1 DEF DiskInv, EntriesSound, Sound
      <2> QED BY <2>1, <2>2, SameInodeReadsSame
<1>2. EntriesSound'
      <2> SUFFICES ASSUME NEW f \in Files, NEW n \in media'[f], n # 0 PROVE Sound(f, n)'
          BY DEF EntriesSound
      <2>1. Sound(f, n) /\ inode'[n] = inode[n]
            BY <1>1 DEF DiskInv, EntriesSound
      <2> QED BY <2>1 DEF Sound
<1>3. Kept'
      BY <1>1 DEF Kept
<1>4. OrderKept'
      <2>1. ASSUME NEW n \in media'["fingerprint"], NEW m \in media'["generation"]
            PROVE  ReadOptionalString(n)' <= ReadOptionalString(m)'
            BY <1>1, <2>1 DEF DiskInv, OrderKept, Files
      <2>2. ASSUME NEW n \in media'["public_key"], NEW m \in media'["private_key"]
            PROVE  ReadOptionalString(n)' \in {0, ReadOptionalString(m)'}
            BY <1>1, <2>2 DEF DiskInv, OrderKept, Files
      <2> QED BY <2>1, <2>2 DEF OrderKept
<1> QED BY <1>2, <1>3, <1>4 DEF DiskInv

\* The same where no entry changes.
LEMMA DiskStays ==
    ASSUME TypeOK, DiskInv, UNCHANGED <<dir, media, told>>,
           \A n \in Linked(media) : n # 0 => inode'[n] = inode[n]
    PROVE  DiskInv'
<1>1. \A f \in Files : media[f] \subseteq Linked(media)
      BY DEF Linked
<1> QED BY <1>1, DiskShrinks DEF DiskInv, EntriesSound, Kept

\* Reclaiming keeps what is linked and frees the rest.
LEMMA Reclaimed ==
    ASSUME TypeOK, NEW m \in [Files -> SUBSET (Inodes \cup {0})], inode' = Reclaim(m)
    PROVE  /\ inode' \in [Inodes -> Inode]
           /\ \A f \in Files : \A n \in m[f] : n # 0 => inode'[n] = inode[n]
           /\ \A n \in Linked(m) : n # 0 => inode'[n] = inode[n]
           /\ \A n \in Inodes : n \notin Linked(m) => inode'[n] = Free
<1>1. Free \in Inode
      BY VersionNumbers DEF Free, Inode, Files
<1>2. \A n \in Linked(m) : n # 0 => n \in Inodes
      BY DEF Linked
<1>3. \A f \in Files : \A n \in m[f] : n \in Linked(m)
      BY DEF Linked
<1> QED BY <1>1, <1>2, <1>3 DEF Reclaim, TypeOK

\* Wherever the call is given up, what remains is an idle process and a disk
\* whose unreferred inodes are free.
LEMMA FailKeepsInv ==
    ASSUME TypeOK', DiskInv', Fail,
           \A n \in Inodes : n \notin Linked(media') => inode'[n] = Free
    PROVE  IInv'
<1>1. TempInv'
      BY DEF Fail, TempInv
<1>2. JobInv'
      BY DEF Fail, JobInv
<1> QED BY <1>1, <1>2 DEF IInv

-----------------------------------------------------------------------------
(* The invariant.                                                           *)

LEMMA InvInit == Init => IInv
<1> SUFFICES ASSUME Init PROVE IInv
    OBVIOUS
<1>1. /\ \A f \in Files : dir[f] = 0 /\ media[f] = {0} /\ told[f] = 0
      /\ pc = "idle" /\ job = <<>> /\ cur = 0
      BY DEF Init
<1>2. TypeOK
      <2>1. Free \in Inode
            BY VersionNumbers DEF Free, Inode, Files
      <2> QED BY <2>1, JobType, VersionNumbers DEF Init, TypeOK
<1>3. ReadOptionalString(0) = 0
      BY DEF ReadOptionalString
<1>4. EntriesSound
      BY <1>1 DEF EntriesSound
<1>5. Kept /\ OrderKept
      BY <1>1, <1>3 DEF Kept, OrderKept, Files
<1>6. TempInv
      BY <1>1 DEF Init, TempInv
<1>7. JobInv
      BY <1>1 DEF JobInv
<1> QED BY <1>2, <1>4, <1>5, <1>6, <1>7 DEF IInv, DiskInv

LEMMA InvBegin == IInv /\ (BeginKeypair \/ BeginPersist) => IInv'
<1> SUFFICES ASSUME IInv, BeginKeypair \/ BeginPersist PROVE IInv'
    OBVIOUS
<1> USE DEF IInv
<1>1. pc = "idle" /\ pc' = "create" /\ UNCHANGED <<cur, inode, dir, media, told>>
      BY DEF BeginKeypair, BeginPersist, fs
<1>2. /\ ver' \in Versions /\ ver' # 0
      /\ \/ job' = WriteKeypair /\ dir["private_key"] = 0 /\ dir["public_key"] = 0
         \/ job' = PersistAfterApply /\ Read("generation") <= ver'
      <2>1. CASE BeginKeypair
            BY <2>1, VersionNumbers DEF BeginKeypair
      <2>2. CASE BeginPersist
            <3>1. Read("generation") \in Nat
                  BY SoundReads DEF Read, DiskInv, EntriesSound, Files
            <3> QED BY <2>2, <3>1, VersionNumbers, SecureWriteAssumption DEF BeginPersist
      <2> QED BY <2>1, <2>2
<1>3. TypeOK'
      BY <1>1, <1>2, JobType DEF TypeOK
<1>4. DiskInv'
      BY <1>1, DiskStays
<1>5. TempInv'
      BY <1>1 DEF TempInv, Linked
<1>6. JobInv'
      BY <1>1, <1>2, JobsDiffer DEF JobInv, Read, ReadOptionalString
<1> QED BY <1>3, <1>4, <1>5, <1>6

\* While the temporary file is worked on, nothing a name leads to changes.
LEMMA InvCreate == IInv /\ CreateTemp => IInv'
<1> SUFFICES ASSUME IInv, CreateTemp PROVE IInv'
    OBVIOUS
<1> USE DEF IInv
<1>1. /\ pc = "create" /\ pc' = "chmod" /\ UNCHANGED <<job, ver, dir, media, told>>
      /\ NewInodes # {} /\ cur' = CHOOSE n \in NewInodes : TRUE
      /\ inode' = [inode EXCEPT ![cur'] = [file |-> file, ver |-> ver, data |-> "empty",
                                           mode |-> MODE_SECRET, synced |-> FALSE]]
      BY DEF CreateTemp, NewTemp
<1>2. cur' \in Inodes /\ cur' \notin Linked(media)
      BY <1>1 DEF NewInodes
<1>3. file \in Files
      BY <1>1, JobFiles DEF JobInv, file, Files
<1>4. /\ inode' \in [Inodes -> Inode]
      /\ \A n \in Inodes : n # cur' => inode'[n] = inode[n]
      /\ inode'[cur'].file = file /\ inode'[cur'].ver = ver /\ inode'[cur'].data = "empty"
      BY <1>1, <1>2, <1>3 DEF TypeOK, Inode
<1>5. \A n \in Linked(media) : n # 0 => n \in Inodes /\ inode'[n] = inode[n]
      BY <1>2, <1>4 DEF Linked, TypeOK
<1>6. TypeOK'
      BY <1>1, <1>2, <1>4 DEF TypeOK
<1>7. DiskInv'
      BY <1>1, <1>5, DiskStays
<1>8. TempInv'
      BY <1>1, <1>2, <1>4, VersionNumbers DEF TempInv, file, Linked
<1>9. JobInv'
      <2>1. \A f \in Files : \A n \in media[f] : ReadOptionalString(n)' = ReadOptionalString(n)
            BY <1>5, SameInodeReadsSame DEF DiskInv, EntriesSound, Sound, Linked
      <2> QED BY <1>1, <2>1 DEF JobInv, file, DiskInv, EntriesSound, Files
<1> QED BY <1>6, <1>7, <1>8, <1>9

\* What every step on the temporary file has in common.
LEMMA TempStep ==
    ASSUME IInv, pc \in {"chmod", "write", "sync"}, pc' \in {"write", "sync", "rename"},
           UNCHANGED <<job, ver, cur, dir, media, told>>,
           NEW i \in Inode, inode' = [inode EXCEPT ![cur] = i],
           i.file = file, i.ver = ver, i.mode = Mode(file),
           pc' \in {"sync", "rename"} => i.data = "whole",
           pc' = "rename" => i.synced = TRUE
    PROVE  IInv'
<1> USE DEF IInv
<1>1. cur \in Inodes /\ cur \notin Linked(media) /\ cur # 0
      BY VersionNumbers DEF TempInv
<1>2. /\ inode' \in [Inodes -> Inode]
      /\ \A n \in Inodes : n # cur => inode'[n] = inode[n]
      /\ inode'[cur] = i
      BY <1>1 DEF TypeOK
<1>3. \A n \in Linked(media) : n # 0 => n \in Inodes /\ inode'[n] = inode[n]
      BY <1>1, <1>2 DEF Linked, TypeOK
<1>4. TypeOK'
      BY <1>2 DEF TypeOK
<1>5. DiskInv'
      BY <1>3, DiskStays
<1>6. TempInv'
      BY <1>1, <1>2 DEF TempInv, file, Linked
<1>7. JobInv'
      <2>1. \A f \in Files : \A n \in media[f] : ReadOptionalString(n)' = ReadOptionalString(n)
            BY <1>3, SameInodeReadsSame DEF DiskInv, EntriesSound, Sound, Linked
      <2> QED BY <2>1 DEF JobInv, file, DiskInv, EntriesSound, Files
<1> QED BY <1>4, <1>5, <1>6, <1>7

LEMMA InvTemp == IInv /\ (SetPermissions \/ WriteAll \/ SyncAll) => IInv'
<1> SUFFICES ASSUME IInv, SetPermissions \/ WriteAll \/ SyncAll PROVE IInv'
    OBVIOUS
<1> USE DEF IInv
<1>1. pc \in {"chmod", "write", "sync"} /\ UNCHANGED <<job, ver, cur, dir, media, told>>
      BY DEF SetPermissions, WriteAll, SyncAll
<1>2. /\ cur \in Inodes /\ inode[cur] \in Inode
      /\ inode[cur].file = file /\ inode[cur].ver = ver
      BY <1>1 DEF TempInv, TypeOK
<1>3. Mode(file) \in {MODE_SECRET, MODE_PUBLIC}
      BY DEF Mode
<1>4. CASE SetPermissions
      <2> DEFINE i == [inode[cur] EXCEPT !.mode = Mode(file)]
      <2>1. inode' = [inode EXCEPT ![cur] = i] /\ pc' = "write"
            BY <1>4 DEF SetPermissions
      <2>2. i \in Inode /\ i.file = file /\ i.ver = ver /\ i.mode = Mode(file)
            BY <1>2, <1>3 DEF Inode
      <2> QED BY <1>1, <2>1, <2>2, TempStep
<1>5. CASE WriteAll
      <2>1. inode[cur].mode = Mode(file)
            BY <1>5 DEF WriteAll, TempInv
      <2>2. PICK d \in {"part", "whole"} :
               /\ inode' = [inode EXCEPT ![cur].data = d]
               /\ pc' = (IF d = "part" THEN "write" ELSE "sync")
            BY <1>5 DEF WriteAll
      <2> DEFINE i == [inode[cur] EXCEPT !.data = d]
      <2>3. inode' = [inode EXCEPT ![cur] = i]
            BY <2>2
      <2>4. i \in Inode /\ i.file = file /\ i.ver = ver /\ i.mode = Mode(file) /\ i.data = d
            BY <1>2, <2>1 DEF Inode
      <2> QED BY <1>1, <2>2, <2>3, <2>4, TempStep
<1>6. CASE SyncAll
      <2>1. inode[cur].mode = Mode(file) /\ inode[cur].data = "whole"
            BY <1>6 DEF SyncAll, TempInv
      <2> DEFINE i == [inode[cur] EXCEPT !.synced = TRUE]
      <2>2. inode' = [inode EXCEPT ![cur] = i] /\ pc' = "rename"
            BY <1>6 DEF SyncAll
      <2>3. /\ i \in Inode /\ i.file = file /\ i.ver = ver /\ i.mode = Mode(file)
            /\ i.data = "whole" /\ i.synced = TRUE
            BY <1>2, <2>1 DEF Inode
      <2> QED BY <1>1, <2>2, <2>3, TempStep
<1> QED BY <1>4, <1>5, <1>6

\* A call given up before the rename, at the rename, or after it.
LEMMA InvFails ==
    IInv /\ (CreateFails \/ StepFails \/ RenameFails \/ FsyncDirFails \/ Kill) => IInv'
<1> SUFFICES ASSUME IInv, CreateFails \/ StepFails \/ RenameFails \/ FsyncDirFails \/ Kill
             PROVE  IInv'
    OBVIOUS
<1> USE DEF IInv
<1>1. Fail /\ UNCHANGED <<dir, media, told>>
      BY DEF CreateFails, StepFails, RenameFails, FsyncDirFails, Kill
<1>2. media \in [Files -> SUBSET (Inodes \cup {0})]
      BY DEF TypeOK
<1>3. /\ inode' \in [Inodes -> Inode]
      /\ \A n \in Linked(media) : n # 0 => inode'[n] = inode[n]
      /\ \A n \in Inodes : n \notin Linked(media) => inode'[n] = Free
      <2>1. CASE inode' = Reclaim(media)
            BY <1>2, <2>1, Reclaimed
      <2>2. CASE pc \in {"create", "fsync"} /\ inode' = inode
            BY <2>2, VersionNumbers DEF TypeOK, TempInv
      <2> QED BY <2>1, <2>2 DEF CreateFails, StepFails, RenameFails, FsyncDirFails, Kill
<1>4. TypeOK'
      BY <1>1, <1>3, JobType, VersionNumbers DEF Fail, TypeOK
<1>5. DiskInv'
      BY <1>1, <1>3, DiskStays
<1>6. Linked(media') = Linked(media)
      BY <1>1
<1> QED BY <1>1, <1>3, <1>4, <1>5, <1>6, FailKeepsInv

\* The name moves to the new file, and a power failure may undo it: the one
\* step that adds an entry.
LEMMA InvRename == IInv /\ Rename => IInv'
<1> SUFFICES ASSUME IInv, Rename PROVE IInv'
    OBVIOUS
<1> USE DEF IInv
<1>1. /\ pc = "rename" /\ pc' = "fsync" /\ cur' = 0
      /\ dir' = [dir EXCEPT ![file] = cur]
      /\ media' = [media EXCEPT ![file] = @ \cup {cur}]
      /\ UNCHANGED <<job, ver, inode, told>>
      BY DEF Rename
<1>2. /\ cur \in Inodes /\ cur # 0 /\ cur \notin Linked(media)
      /\ inode[cur].ver = ver /\ ver # 0 /\ ver \in Nat /\ ver \in Versions
      /\ Sound(file, cur) /\ ReadOptionalString(cur) = ver
      BY <1>1, VersionNumbers DEF TempInv, JobInv, TypeOK, Sound, ReadOptionalString
<1>3. /\ file \in Files
      /\ job \in {WriteKeypair, PersistAfterApply, <<"public_key">>, <<"fingerprint">>}
      /\ job = WriteKeypair => file = "private_key"
      /\ job = PersistAfterApply => file = "generation"
      /\ job = <<"public_key">> => file = "public_key"
      /\ job = <<"fingerprint">> => file = "fingerprint"
      BY <1>1, JobFiles DEF JobInv, file, Files
<1>4. /\ dir'[file] = cur /\ media'[file] = media[file] \cup {cur}
      /\ \A f \in Files : f # file => dir'[f] = dir[f] /\ media'[f] = media[f]
      BY <1>1, <1>3 DEF TypeOK
<1>5. \A n : ReadOptionalString(n)' = ReadOptionalString(n)
      BY <1>1 DEF ReadOptionalString
<1>6. TypeOK'
      <2>1. dir' \in [Files -> Inodes \cup {0}]
            BY <1>1, <1>2 DEF TypeOK
      <2>2. media' \in [Files -> SUBSET (Inodes \cup {0})]
            BY <1>1, <1>2 DEF TypeOK
      <2> QED BY <1>1, <2>1, <2>2 DEF TypeOK
<1>7. EntriesSound'
      <2> SUFFICES ASSUME NEW f \in Files
                   PROVE  /\ dir'[f] \in media'[f]
                          /\ dir'[f] = 0 => media'[f] = {0}
                          /\ \A n \in media'[f] \ {0} : Sound(f, n)
          BY <1>1 DEF EntriesSound, Sound
      <2>1. CASE f = file
            BY <1>2, <1>4, <2>1 DEF DiskInv, EntriesSound
      <2>2. CASE f # file
            BY <1>4, <2>2 DEF DiskInv, EntriesSound
      <2> QED BY <2>1, <2>2
\* What the name showed before is not newer than what it shows now.
<1>8. \A f \in Files : \A n \in media[f] : ReadOptionalString(n) \in Nat
      BY SoundReads DEF DiskInv
<1>9. told[file] <= ver
      <2>1. /\ told[file] \in Nat
            /\ told[file] <= ReadOptionalString(dir[file])
            /\ ReadOptionalString(dir[file]) \in Nat
            BY <1>3, <1>8, VersionNumbers DEF TypeOK, DiskInv, Kept, EntriesSound
      <2>2. ReadOptionalString(dir[file]) <= ver
            <3>1. CASE job = PersistAfterApply
                  BY <1>1, <1>3, <3>1 DEF JobInv
            <3>2. CASE job = WriteKeypair \/ job = <<"public_key">>
                  BY <1>1, <1>2, <1>3, <3>2 DEF JobInv, ReadOptionalString
            <3>3. CASE job = <<"fingerprint">>
                  <4>1. dir["generation"] \in media["generation"] /\ dir[file] \in media["fingerprint"]
                        BY <1>3, <3>3 DEF DiskInv, EntriesSound, Files
                  <4>2. ReadOptionalString(dir["generation"]) = ver
                        BY <1>1, <3>3, <4>1 DEF JobInv
                  <4> QED BY <4>1, <4>2 DEF DiskInv, OrderKept
            <3> QED BY <1>3, <3>1, <3>2, <3>3
      <2> QED BY <1>2, <2>1, <2>2
<1>10. Kept'
      <2> SUFFICES ASSUME NEW f \in Files, NEW n \in media'[f]
                   PROVE  told[f] <= ReadOptionalString(n)
          BY <1>1, <1>5 DEF Kept
      <2>1. CASE n \in media[f]
            BY <2>1 DEF DiskInv, Kept
      <2>2. CASE n \notin media[f]
            BY <1>2, <1>4, <1>9, <2>2
      <2> QED BY <2>1, <2>2
<1>11. OrderKept'
      <2>1. ASSUME NEW n \in media'["fingerprint"], NEW m \in media'["generation"]
            PROVE  ReadOptionalString(n) <= ReadOptionalString(m)
            <3>1. CASE n \in media["fingerprint"] /\ m \in media["generation"]
                  BY <3>1 DEF DiskInv, OrderKept
            <3>2. CASE n \notin media["fingerprint"]
                  <4>1. file = "fingerprint" /\ n = cur
                        BY <1>4, <2>1, <3>2 DEF Files
                  <4>2. job = <<"fingerprint">> /\ m \in media["generation"]
                        BY <1>3, <1>4, <2>1, <4>1 DEF Files
                  <4>3. ReadOptionalString(m) = ver
                        BY <1>1, <4>2 DEF JobInv
                  <4> QED BY <1>2, <4>1, <4>3
            <3>3. CASE m \notin media["generation"]
                  <4>1. file = "generation" /\ m = cur
                        BY <1>4, <2>1, <3>3 DEF Files
                  <4>2. job = PersistAfterApply /\ n \in media["fingerprint"]
                        BY <1>3, <1>4, <2>1, <4>1 DEF Files
                  <4>3. /\ ReadOptionalString(n) <= ReadOptionalString(dir["generation"])
                        /\ ReadOptionalString(dir["generation"]) <= ver
                        BY <1>1, <4>2 DEF JobInv, DiskInv, EntriesSound, OrderKept, Files
                  <4>4. /\ ReadOptionalString(n) \in Nat
                        /\ ReadOptionalString(dir["generation"]) \in Nat
                        BY <1>8, <4>2 DEF DiskInv, EntriesSound, Files
                  <4> QED BY <1>2, <4>1, <4>3, <4>4
            <3> QED BY <3>1, <3>2, <3>3
      <2>2. ASSUME NEW n \in media'["public_key"], NEW m \in media'["private_key"]
            PROVE  ReadOptionalString(n) \in {0, ReadOptionalString(m)}
            <3>1. CASE n \in media["public_key"] /\ m \in media["private_key"]
                  BY <3>1 DEF DiskInv, OrderKept
            <3>2. CASE n \notin media["public_key"]
                  <4>1. file = "public_key" /\ n = cur
                        BY <1>4, <2>2, <3>2 DEF Files
                  <4>2. job = <<"public_key">> /\ m \in media["private_key"]
                        BY <1>3, <1>4, <2>2, <4>1 DEF Files
                  <4>3. ReadOptionalString(m) = ver
                        BY <1>1, <4>2 DEF JobInv
                  <4> QED BY <1>2, <4>1, <4>3
            <3>3. CASE m \notin media["private_key"]
                  <4>1. file = "private_key"
                        BY <1>4, <2>2, <3>3 DEF Files
                  <4>2. job = WriteKeypair /\ n \in media["public_key"]
                        BY <1>3, <1>4, <2>2, <4>1 DEF Files
                  <4>3. media["public_key"] = {0}
                        BY <1>1, <4>2 DEF JobInv, DiskInv, EntriesSound, Files
                  <4> QED BY <4>2, <4>3 DEF ReadOptionalString
            <3> QED BY <3>1, <3>2, <3>3
      <2> QED BY <1>5, <2>1, <2>2 DEF OrderKept
<1>12. TempInv'
      <2>1. Linked(media') = Linked(media) \cup {cur}
            BY <1>3, <1>4 DEF Linked
      <2> QED BY <1>1, <2>1 DEF TempInv
<1>13. JobInv'
      <2>1. (ReadOptionalString(dir[file]))' = ver
            <3>1. dir'[file'] = cur
                  BY <1>1, <1>4 DEF file
            <3> QED BY <1>1, <1>2, <3>1 DEF ReadOptionalString
      <2>2. job = WriteKeypair => dir'["public_key"] = 0
            BY <1>1, <1>3, <1>4 DEF JobInv, Files
      <2>3. /\ job = <<"public_key">> => media'["private_key"] = media["private_key"]
            /\ job = <<"fingerprint">> => media'["generation"] = media["generation"]
            BY <1>3, <1>4 DEF Files
      <2> QED BY <1>1, <1>2, <1>3, <1>5, <2>1, <2>2, <2>3 DEF JobInv, file
<1> QED BY <1>6, <1>7, <1>10, <1>11, <1>12, <1>13 DEF DiskInv

\* The job under way when its current file is in place: which file that is and
\* what is left of the job.
LEMMA AtFsync ==
    ASSUME IInv, pc = "fsync"
    PROVE  /\ file \in Files
           /\ ver # 0 /\ ver \in Versions /\ ver \in Nat
           /\ dir[file] \in media[file] /\ ReadOptionalString(dir[file]) = ver
           /\ \/ job = WriteKeypair /\ file = "private_key" /\ Tail(job) = <<"public_key">>
              \/ job = PersistAfterApply /\ file = "generation" /\ Tail(job) = <<"fingerprint">>
              \/ job = <<"public_key">> /\ file = "public_key" /\ Tail(job) = <<>>
              \/ job = <<"fingerprint">> /\ file = "fingerprint" /\ Tail(job) = <<>>
BY JobFiles, VersionNumbers DEF IInv, DiskInv, EntriesSound, JobInv, TypeOK, file, Files

\* The directory is synced: its names lose every entry but the one they show.
LEMMA InvFsync == IInv /\ FsyncDir => IInv'
<1> SUFFICES ASSUME IInv, FsyncDir PROVE IInv'
    OBVIOUS
<1> USE DEF IInv
<1>1. /\ pc = "fsync" /\ dir' = dir /\ cur' = cur /\ cur = 0
      /\ media' = [f \in Files |-> IF DirOf[f] = DirOf[file] THEN {dir[f]} ELSE media[f]]
      /\ inode' = Reclaim(media')
      /\ told' = [told EXCEPT ![file] = ver]
      /\ job' = Tail(job)
      /\ pc' = (IF Tail(job) = <<>> THEN "idle" ELSE "create")
      /\ ver' = (IF Tail(job) = <<>> THEN 0 ELSE ver)
      BY DEF FsyncDir, Succeed, TempInv
<1>2. /\ media' \in [Files -> SUBSET (Inodes \cup {0})]
      /\ \A f \in Files : /\ media'[f] = {dir[f]} \/ media'[f] = media[f]
                          /\ media'[f] \subseteq media[f] /\ dir[f] \in media'[f]
      /\ media'[file] = {dir[file]}
      BY <1>1, AtFsync DEF TypeOK, DiskInv, EntriesSound
<1>3. /\ inode' \in [Inodes -> Inode]
      /\ \A f \in Files : \A n \in media'[f] : n # 0 => inode'[n] = inode[n]
      /\ \A n \in Inodes : n \notin Linked(media') => inode'[n] = Free
      BY <1>1, <1>2, Reclaimed
<1>4. /\ told' \in [Files -> Versions] /\ told'[file] = ver
      /\ \A f \in Files : f # file => told'[f] = told[f]
      BY <1>1, AtFsync DEF TypeOK
<1>5. TypeOK'
      <2>1. job' \in Jobs \cup {Tail(j) : j \in Jobs} \cup {<<>>}
            BY <1>1, AtFsync, JobType
      <2> QED BY <1>1, <1>2, <1>3, <1>4, <2>1, AtFsync, VersionNumbers DEF TypeOK
<1>6. DiskInv'
      <2>1. \A f \in Files : \A n \in media'[f] : told'[f] <= ReadOptionalString(n)
            <3> SUFFICES ASSUME NEW f \in Files, NEW n \in media'[f]
                         PROVE  told'[f] <= ReadOptionalString(n)
                OBVIOUS
            <3>1. CASE f = file
                  BY <1>1, <1>2, <1>4, <3>1, AtFsync
            <3>2. CASE f # file
                  BY <1>2, <1>4, <3>2 DEF DiskInv, Kept
            <3> QED BY <3>1, <3>2
      <2>2. \A f \in Files : dir'[f] = 0 => media'[f] = {0}
            BY <1>1, <1>2 DEF DiskInv, EntriesSound
      <2> QED BY <1>1, <1>2, <1>3, <2>1, <2>2, DiskShrinks
<1>7. TempInv'
      BY <1>1, <1>3 DEF TempInv
<1>8. JobInv'
      <2>1. CASE Tail(job) = <<>>
            BY <1>1, <2>1 DEF JobInv
      <2>2. CASE Tail(job) # <<>>
            <3>1. /\ (ReadOptionalString(dir[file]) = ver)
                  /\ inode'[dir[file]] = inode[dir[file]] /\ inode[dir[file]].data = "whole"
                  /\ dir[file] # 0
                  <4>1. /\ file \in Files /\ dir[file] \in media[file] /\ dir[file] \in media'[file]
                        /\ ReadOptionalString(dir[file]) = ver /\ ver # 0
                        BY <1>1, <1>2, AtFsync
                  <4>2. dir[file] # 0
                        BY <4>1 DEF ReadOptionalString
                  <4>3. Sound(file, dir[file])
                        BY <4>1, <4>2 DEF DiskInv, EntriesSound
                  <4> QED BY <1>3, <4>1, <4>2, <4>3 DEF Sound
            <3>2. \A m \in media'[file] : ReadOptionalString(m)' = ver
                  BY <1>2, <3>1, SameInodeReadsSame
            <3>3. CASE job = WriteKeypair
                  <4>1. job' = <<"public_key">> /\ file = "private_key"
                        BY <1>1, <3>3, AtFsync, JobsDiffer
                  <4>2. dir'["public_key"] = 0
                        BY <1>1, <3>3 DEF JobInv
                  <4> QED BY <1>1, <2>2, <3>2, <4>1, <4>2, AtFsync, JobsDiffer DEF JobInv
            <3>4. CASE job = PersistAfterApply
                  <4>1. job' = <<"fingerprint">> /\ file = "generation"
                        BY <1>1, <3>4, AtFsync, JobsDiffer
                  <4> QED BY <1>1, <2>2, <3>2, <4>1, AtFsync, JobsDiffer DEF JobInv
            <3> QED BY <1>1, <2>2, <3>3, <3>4, AtFsync
      <2> QED BY <2>1, <2>2
<1> QED BY <1>5, <1>6, <1>7, <1>8

\* Nothing a power failure may bring back is unsynced, so only names change.
LEMMA PowerFailureEffect ==
    ASSUME IInv, PowerFailure
    PROVE  /\ inode' = Reclaim(media') /\ told' = told
           /\ dir' \in [Files -> Inodes \cup {0}]
           /\ media' \in [Files -> SUBSET (Inodes \cup {0})]
           /\ \A f \in Files : media'[f] = {dir'[f]} /\ dir'[f] \in media[f]
<1> USE DEF IInv
<1>1. PICK back \in [Unsettled -> Linked(media)] :
         /\ \A f \in Unsettled : back[f] \in media[f]
         /\ dir' = [f \in Files |-> IF f \in Unsettled THEN back[f] ELSE dir[f]]
      BY DEF PowerFailure
<1>2. media' = [f \in Files |-> {dir'[f]}] /\ told' = told
      BY DEF PowerFailure
<1>3. \A f \in Files : dir'[f] \in media[f]
      BY <1>1 DEF DiskInv, EntriesSound
<1>4. \A f \in Files : dir'[f] \in Inodes \cup {0}
      BY <1>3 DEF TypeOK
<1>5. Unsynced(media') = {}
      <2> SUFFICES ASSUME NEW n \in Linked(media'), n # 0 PROVE inode[n].synced = TRUE
          BY DEF Unsynced
      <2>1. PICK f \in Files : n = dir'[f]
            BY <1>2 DEF Linked
      <2> QED BY <1>3, <2>1 DEF DiskInv, EntriesSound, Sound
<1>6. inode' = Reclaim(media')
      BY <1>5 DEF PowerFailure
<1> QED BY <1>1, <1>2, <1>3, <1>4, <1>6

LEMMA InvPowerFailure == IInv /\ PowerFailure => IInv'
<1> SUFFICES ASSUME IInv, PowerFailure PROVE IInv'
    OBVIOUS
<1> USE DEF IInv
<1>1. /\ inode' = Reclaim(media') /\ told' = told /\ Fail
      /\ dir' \in [Files -> Inodes \cup {0}]
      /\ media' \in [Files -> SUBSET (Inodes \cup {0})]
      /\ \A f \in Files : media'[f] = {dir'[f]} /\ dir'[f] \in media[f]
      BY PowerFailureEffect DEF PowerFailure
<1>2. /\ inode' \in [Inodes -> Inode]
      /\ \A f \in Files : \A n \in media'[f] : n # 0 => inode'[n] = inode[n]
      /\ \A n \in Inodes : n \notin Linked(media') => inode'[n] = Free
      BY <1>1, Reclaimed
<1>3. TypeOK'
      BY <1>1, <1>2, JobType, VersionNumbers DEF Fail, TypeOK
<1>4. DiskInv'
      BY <1>1, <1>2, DiskShrinks DEF DiskInv, Kept
<1> QED BY <1>1, <1>2, <1>3, <1>4, FailKeepsInv

LEMMA InvStep == IInv /\ [Next]_vars => IInv'
<1>1. IInv /\ UNCHANGED vars => IInv'
      <2> SUFFICES ASSUME IInv, UNCHANGED vars PROVE IInv'
          OBVIOUS
      <2>1. TypeOK' /\ TempInv' /\ JobInv'
            <3>1. \A n : ReadOptionalString(n)' = ReadOptionalString(n)
                  BY DEF vars, ReadOptionalString
            <3>2. TypeOK' /\ TempInv'
                  BY DEF vars, IInv, TypeOK, TempInv, Linked, file
            <3>3. JobInv'
                  BY <3>1 DEF vars, IInv, JobInv, file
            <3> QED BY <3>2, <3>3
      <2>2. DiskInv'
            BY DiskStays DEF vars, IInv
      <2> QED BY <2>1, <2>2 DEF IInv
<1> QED BY <1>1, InvBegin, InvCreate, InvTemp, InvFails, InvRename, InvFsync, InvPowerFailure
        DEF Next

LEMMA Invariance == Spec => []IInv
BY InvInit, InvStep, PTL DEF Spec

-----------------------------------------------------------------------------
(* The theorems.                                                            *)

\* Every variable of the file system and of the writer keeps its type.
THEOREM TypeCorrect == Spec => []TypeOK
BY Invariance, PTL DEF IInv

\* Readers get whole files, and never an older one than a writer was told Ok
\* of, across failures of any step, kills and power failures.
THEOREM WholeFiles == Spec => []WholeAndKept
<1>1. IInv => WholeAndKept
      <2> SUFFICES ASSUME IInv, NEW f \in Files
                   PROVE  /\ dir[f] # 0 => inode[dir[f]].data = "whole"
                          /\ told[f] <= Read(f)
          BY DEF WholeAndKept
      <2>1. dir[f] \in media[f]
            BY DEF IInv, DiskInv, EntriesSound
      <2> QED BY <2>1 DEF IInv, DiskInv, EntriesSound, Sound, Kept, Read
<1> QED BY <1>1, Invariance, PTL

\* The second file of a job is never ahead of the first.
THEOREM OrderedFiles == Spec => []OrderSurvives
<1>1. IInv => OrderSurvives
      BY DEF IInv, DiskInv, EntriesSound, OrderKept, OrderSurvives, Read, Files
<1> QED BY <1>1, Invariance, PTL

\* No file ever grants more than its caller asked for, temporary or in place.
THEOREM ModesKept == Spec => []ModesAsAsked
<1>1. IInv => ModesAsAsked
      <2> SUFFICES ASSUME IInv PROVE ModesAsAsked
          OBVIOUS
      <2>1. \A f \in Files : dir[f] # 0 => inode[dir[f]].mode = Mode(f)
            BY DEF IInv, DiskInv, EntriesSound, Sound
      <2>2. ASSUME NEW n \in Inodes, inode[n].data # "empty"
            PROVE  inode[n].mode = Mode(inode[n].file)
            <3>1. CASE n \in Linked(media)
                  <4>1. PICK f \in Files : n \in media[f]
                        BY <3>1 DEF Linked
                  <4>2. n # 0
                        BY VersionNumbers
                  <4> QED BY <4>1, <4>2 DEF IInv, DiskInv, EntriesSound, Sound
            <3>2. CASE n \notin Linked(media) /\ n = cur
                  <4>1. pc \in {"write", "sync", "rename"}
                        BY <2>2, <3>2, VersionNumbers DEF IInv, TempInv, TypeOK
                  <4> QED BY <3>2, <4>1 DEF IInv, TempInv
            <3>3. CASE n \notin Linked(media) /\ n # cur
                  BY <2>2, <3>3 DEF IInv, TempInv, Free
            <3> QED BY <3>1, <3>2, <3>3
      <2> QED BY <2>1, <2>2
              DEF ModesAsAsked, ValidateModeAtMost, ValidatePrivateKeySecurity,
                  EnsureNotGroupOrWorldWritable, Mode, MODE_SECRET, MODE_PUBLIC, Files
<1> QED BY <1>1, Invariance, PTL

-----------------------------------------------------------------------------
(* SecureWrite implements AtomicFile.                                       *)

Value == [f \in Files |-> Read(f)]
Fallback == [f \in Files |-> {ReadOptionalString(n) : n \in media[f]}]

\* A step that leaves the names and what they lead to alone is not seen.
LEMMA Unseen ==
    ASSUME IInv, UNCHANGED <<dir, media, told>>,
           \A n \in Linked(media) : n # 0 => inode'[n] = inode[n]
    PROVE  UNCHANGED <<Value, Fallback, told>>
<1>1. \A f \in Files : \A n \in media[f] : ReadOptionalString(n)' = ReadOptionalString(n)
      BY SameInodeReadsSame DEF IInv, DiskInv, EntriesSound, Sound, Linked
<1>2. Value' = Value
      <2>1. \A f \in Files : Read(f)' = Read(f)
            BY <1>1 DEF Read, IInv, DiskInv, EntriesSound
      <2> QED BY <2>1 DEF Value
<1>3. Fallback' = Fallback
      <2>1. \A f \in Files : {ReadOptionalString(n) : n \in media[f]}'
                            = {ReadOptionalString(n) : n \in media[f]}
            BY <1>1
      <2> QED BY <2>1 DEF Fallback
<1> QED BY <1>2, <1>3

\* What Promise calls value and fallback.
LEMMA PromiseIs ==
    /\ Promise!absVars = <<Value, Fallback, told>>
    /\ Promise!AbsInit <=> /\ Value = [f \in Files |-> 0]
                           /\ Fallback = [f \in Files |-> {0}]
                           /\ told = [f \in Files |-> 0]
    /\ Promise!PowerFailure <=>
          /\ Value' \in [Files -> Versions]
          /\ \A f \in Files : Value'[f] \in Fallback[f]
          /\ Fallback' = [f \in Files |-> {Value'[f]}]
          /\ told' = told
    /\ \A f \in Files :
          Promise!Confirm(f) <=>
             /\ Fallback' = [g \in Files |-> IF DirOf[g] = DirOf[f] THEN {Value[g]}
                                                               ELSE Fallback[g]]
             /\ told' = [told EXCEPT ![f] = Value[f]]
             /\ Value' = Value
    /\ \A f \in Files, v \in Versions :
          Promise!Replace(f, v) <=>
             /\ Value' = [Value EXCEPT ![f] = v]
             /\ Fallback' = [Fallback EXCEPT ![f] = @ \cup {v}]
             /\ told' = told
BY DEF Promise!absVars, Promise!AbsInit, Promise!PowerFailure, Promise!Confirm,
       Promise!Replace, Value, Fallback

\* The rename is the replacement.
LEMMA RenameReplaces ==
    ASSUME IInv, Rename
    PROVE  \E f \in Files, v \in Versions : Promise!Replace(f, v)
<1>1. /\ pc = "rename" /\ told' = told /\ inode' = inode
      /\ dir' = [dir EXCEPT ![file] = cur]
      /\ media' = [media EXCEPT ![file] = @ \cup {cur}]
      BY DEF Rename
<1>2. file \in Files
      BY <1>1, JobFiles DEF IInv, JobInv, file, Files
<1>3. ver \in Versions /\ ReadOptionalString(cur) = ver
      BY <1>1, VersionNumbers DEF IInv, TempInv, TypeOK, ReadOptionalString
<1>4. \A n : ReadOptionalString(n)' = ReadOptionalString(n)
      BY <1>1 DEF ReadOptionalString
<1>5. Value' = [Value EXCEPT ![file] = ver]
      <2>1. \A f \in Files : Read(f)' = IF f = file THEN ver ELSE Read(f)
            <3> SUFFICES ASSUME NEW f \in Files
                         PROVE  Read(f)' = IF f = file THEN ver ELSE Read(f)
                OBVIOUS
            <3>1. dir'[f] = IF f = file THEN cur ELSE dir[f]
                  BY <1>1, <1>2 DEF IInv, TypeOK
            <3>2. CASE f = file
                  <4>1. Read(f)' = ReadOptionalString(cur)
                        BY <1>4, <3>1, <3>2 DEF Read
                  <4> QED BY <1>3, <3>2, <4>1
            <3>3. CASE f # file
                  BY <1>4, <3>1, <3>3 DEF Read
            <3> QED BY <3>2, <3>3
      <2> QED BY <1>2, <2>1 DEF Value
<1>6. Fallback' = [Fallback EXCEPT ![file] = @ \cup {ver}]
      <2>1. Fallback' = [f \in Files |-> {ReadOptionalString(n) : n \in media'[f]}]
            BY <1>4 DEF Fallback
      <2>2. \A f \in Files : {ReadOptionalString(n) : n \in media'[f]}
                            = IF f = file THEN Fallback[f] \cup {ver} ELSE Fallback[f]
            <3> SUFFICES ASSUME NEW f \in Files
                         PROVE  {ReadOptionalString(n) : n \in media'[f]}
                                = IF f = file THEN Fallback[f] \cup {ver} ELSE Fallback[f]
                OBVIOUS
            <3>1. media'[f] = IF f = file THEN media[f] \cup {cur} ELSE media[f]
                  BY <1>1, <1>2 DEF IInv, TypeOK
            <3> QED BY <1>3, <3>1 DEF Fallback
      <2>3. Fallback' = [f \in Files |->
                            IF f = file THEN Fallback[f] \cup {ver} ELSE Fallback[f]]
            BY <2>1, <2>2
      <2>4. Fallback = [f \in Files |-> Fallback[f]]
            BY DEF Fallback
      <2> HIDE DEF Fallback
      <2> QED BY <1>2, <2>3, <2>4
<1>7. PICK f \in Files, v \in Versions : f = file /\ v = ver
      BY <1>2, <1>3
<1>8. Promise!Replace(f, v)
      BY <1>1, <1>5, <1>6, <1>7, PromiseIs
<1> QED BY <1>8

\* The sync of the directory is the confirmation.
LEMMA FsyncConfirms ==
    ASSUME IInv, FsyncDir
    PROVE  \E f \in Files : Promise!Confirm(f)
<1>1. /\ pc = "fsync" /\ dir' = dir
      /\ media' = [f \in Files |-> IF DirOf[f] = DirOf[file] THEN {dir[f]} ELSE media[f]]
      /\ inode' = Reclaim(media')
      /\ told' = [told EXCEPT ![file] = ver]
      BY DEF FsyncDir, Succeed
<1>2. file \in Files /\ Read(file) = ver
      BY <1>1, AtFsync DEF Read
<1>3. /\ media' \in [Files -> SUBSET (Inodes \cup {0})]
      /\ \A f \in Files : media'[f] \subseteq media[f] /\ dir[f] \in media'[f]
      BY <1>1 DEF IInv, TypeOK, DiskInv, EntriesSound
<1>4. \A f \in Files : \A n \in media'[f] : n # 0 => inode'[n] = inode[n]
      BY <1>1, <1>3, Reclaimed DEF IInv
<1>5. \A f \in Files : \A n \in media'[f] : ReadOptionalString(n)' = ReadOptionalString(n)
      BY <1>3, <1>4, SameInodeReadsSame DEF IInv, DiskInv, EntriesSound, Sound
<1>6. Value' = Value
      <2>1. \A f \in Files : Read(f)' = Read(f)
            BY <1>1, <1>3, <1>5 DEF Read
      <2> QED BY <2>1 DEF Value
<1>7. Fallback' = [f \in Files |-> IF DirOf[f] = DirOf[file] THEN {Value[f]} ELSE Fallback[f]]
      <2>1. \A f \in Files : {ReadOptionalString(n) : n \in media[f]}'
                            = IF DirOf[f] = DirOf[file] THEN {Value[f]} ELSE Fallback[f]
            <3> SUFFICES ASSUME NEW f \in Files
                         PROVE  {ReadOptionalString(n) : n \in media[f]}'
                                = IF DirOf[f] = DirOf[file] THEN {Value[f]} ELSE Fallback[f]
                OBVIOUS
            <3>1. {ReadOptionalString(n) : n \in media[f]}'
                  = {ReadOptionalString(n) : n \in media'[f]}
                  BY <1>5
            <3>2. media'[f] = IF DirOf[f] = DirOf[file] THEN {dir[f]} ELSE media[f]
                  BY <1>1
            <3>3. CASE DirOf[f] = DirOf[file]
                  BY <3>1, <3>2, <3>3 DEF Value, Read
            <3>4. CASE DirOf[f] # DirOf[file]
                  BY <3>1, <3>2, <3>4 DEF Fallback
            <3> QED BY <3>3, <3>4
      <2> QED BY <2>1 DEF Fallback
<1>8. told' = [told EXCEPT ![file] = Value[file]]
      BY <1>1, <1>2 DEF Value
<1>9. PICK f \in Files : f = file
      BY <1>2
<1>10. Promise!Confirm(f)
      BY <1>6, <1>7, <1>8, <1>9, PromiseIs
<1> QED BY <1>10

\* A power failure is one: each name falls back on its own.
LEMMA PowerFailureFallsBack ==
    ASSUME IInv, PowerFailure
    PROVE  Promise!PowerFailure
<1>1. /\ inode' = Reclaim(media') /\ told' = told
      /\ media' \in [Files -> SUBSET (Inodes \cup {0})]
      /\ \A f \in Files : media'[f] = {dir'[f]} /\ dir'[f] \in media[f]
      BY PowerFailureEffect
<1>2. \A f \in Files : \A n \in media'[f] : n # 0 => inode'[n] = inode[n]
      BY <1>1, Reclaimed DEF IInv
<1>3. \A f \in Files : \A n \in media'[f] : ReadOptionalString(n)' = ReadOptionalString(n)
      BY <1>1, <1>2, SameInodeReadsSame DEF IInv, DiskInv, EntriesSound, Sound
<1>4. \A f \in Files : Read(f)' = ReadOptionalString(dir'[f])
      BY <1>1, <1>3 DEF Read
<1>5. \A f \in Files : /\ Value'[f] = ReadOptionalString(dir'[f])
                      /\ Value'[f] \in Versions /\ Value'[f] \in Fallback[f]
      BY <1>1, <1>4, SoundReads DEF Value, Fallback, IInv, DiskInv
<1>6. Value' \in [Files -> Versions]
      BY <1>5 DEF Value
<1>7. Fallback' = [f \in Files |-> {Value'[f]}]
      <2>1. \A f \in Files : {ReadOptionalString(n) : n \in media[f]}' = {Value'[f]}
            BY <1>1, <1>3, <1>5
      <2> QED BY <2>1 DEF Fallback
<1> QED BY <1>1, <1>5, <1>6, <1>7, PromiseIs

LEMMA PromiseInit == Init => Promise!AbsInit
<1> SUFFICES ASSUME Init PROVE Promise!AbsInit
    OBVIOUS
<1>1. ReadOptionalString(0) = 0
      BY DEF ReadOptionalString
<1>2. Value = [f \in Files |-> 0]
      BY <1>1 DEF Init, Value, Read
<1>3. Fallback = [f \in Files |-> {0}]
      BY <1>1 DEF Init, Fallback
<1> QED BY <1>2, <1>3, PromiseIs DEF Init

LEMMA PromiseStep == IInv /\ [Next]_vars => [Promise!AbsNext]_Promise!absVars
<1> SUFFICES ASSUME IInv, [Next]_vars
             PROVE  Promise!AbsNext \/ UNCHANGED <<Value, Fallback, told>>
    BY DEF Promise!absVars, Value, Fallback
<1>1. CASE Rename
      BY <1>1, RenameReplaces DEF Promise!AbsNext
<1>2. CASE FsyncDir
      BY <1>2, FsyncConfirms DEF Promise!AbsNext
<1>3. CASE PowerFailure
      BY <1>3, PowerFailureFallsBack DEF Promise!AbsNext
<1>4. CASE ~(Rename \/ FsyncDir \/ PowerFailure)
      <2>1. UNCHANGED <<dir, media, told>>
            BY <1>4 DEF Next, vars, fs, BeginKeypair, BeginPersist, CreateTemp, CreateFails,
                        SetPermissions, WriteAll, SyncAll, StepFails, RenameFails,
                        FsyncDirFails, Kill
      <2>2. \A n \in Linked(media) : n # 0 => inode'[n] = inode[n]
            <3>1. \A n \in Linked(media) : n # 0 => n \in Inodes
                  BY DEF Linked, IInv, TypeOK
            <3>2. CASE SetPermissions \/ WriteAll \/ SyncAll
                  <4>1. cur \notin Linked(media) /\ \E i : inode' = [inode EXCEPT ![cur] = i]
                        BY <3>2 DEF SetPermissions, WriteAll, SyncAll, IInv, TempInv
                  <4> QED BY <3>1, <4>1 DEF IInv, TypeOK
            <3>3. CASE CreateTemp
                  <4>1. cur' \notin Linked(media) /\ \E i : inode' = [inode EXCEPT ![cur'] = i]
                        BY <3>3 DEF CreateTemp, NewTemp, NewInodes
                  <4> QED BY <3>1, <4>1 DEF IInv, TypeOK
            <3>4. CASE inode' = Reclaim(media)
                  BY <3>4, Reclaimed DEF IInv, TypeOK
            <3>5. CASE inode' = inode
                  BY <3>5
            <3> QED BY <1>4, <3>2, <3>3, <3>4, <3>5
                    DEF Next, vars, fs, BeginKeypair, BeginPersist, CreateFails, StepFails,
                        RenameFails, FsyncDirFails, Kill
      <2> QED BY <2>1, <2>2, Unseen
<1> QED BY <1>1, <1>2, <1>3, <1>4

\* secure_write keeps the promise of AtomicFile, the one CaSync and Enrollment
\* are modelled on: each of its steps is a whole replacement, its confirmation,
\* a power failure, or invisible.
THEOREM Implementation == Spec => ImplementsAtomicFile
BY PromiseInit, PromiseStep, Invariance, PTL DEF Spec, ImplementsAtomicFile, Promise!AbsSpec
=============================================================================
