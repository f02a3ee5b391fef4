----------------------------- MODULE SecureWrite -----------------------------
(***************************************************************************)
(* security::secure_write step by step, on a file system that may fail any *)
(* step, lose the process between two of them, or lose power.              *)
(*                                                                         *)
(* An inode is the file one call of secure_write creates.  A directory     *)
(* entry shows at once; until the directory is synced, a power failure may *)
(* bring back any entry the name has had since the last sync, each name on *)
(* its own, and data or mode bits that were not synced may be lost.  Both  *)
(* callers that write two files in an order that matters are here:         *)
(* write_keypair (enrollment.rs) and persist_after_apply (ca_sync.rs).     *)
(***************************************************************************)
EXTENDS Naturals, Sequences

CONSTANTS
    MaxInodes,   \* bound: files on the disk at one time
    MaxVersion,  \* bound: bundle generations
    MaxKeys      \* bound: keypairs generated and not yet lost

ASSUME SecureWriteAssumption ==
    MaxInodes \in Nat \ {0} /\ MaxVersion \in Nat /\ MaxKeys \in Nat

\* Mutant: the fingerprint is written before the generation.
FingerprintFirst == <<"fingerprint", "generation">>

\* The two jobs, as the files they write in their order.  persist_after_apply
\* goes on to the pin and a timestamp, whose place in the order CaSync models.
WriteKeypair == <<"private_key", "public_key">>
PersistAfterApply == <<"generation", "fingerprint">>
Jobs == {WriteKeypair, PersistAfterApply}

Files == {"private_key", "public_key", "generation", "fingerprint"}
DirOf == [f \in Files |-> IF f \in {"private_key", "public_key"} THEN "identity" ELSE "state"]

\* Permission bits beyond the owner's.
MODE_SECRET == {}
MODE_PUBLIC == {"group_read", "other_read"}
GROUP_OR_OTHER_WRITABLE == {"group_write", "other_write"}

\* The mode each caller passes.
Mode(f) == IF f = "private_key" THEN MODE_SECRET ELSE MODE_PUBLIC

\* 0 is no value; then the generations, then the keypairs.
Versions == 0..(MaxVersion + MaxKeys)
KeyVersions == (MaxVersion + 1)..(MaxVersion + MaxKeys)

Inodes == 1..MaxInodes

VARIABLES
    pc,       \* step of the write under way; "idle" between jobs
    job,      \* files the caller still has to write, the current one first
    ver,      \* what this job writes
    cur,      \* the inode being written, 0 for none
    inode,    \* the inodes
    dir,      \* the inode under each managed name, 0 for none
    media,    \* the entries of each name a power failure may bring back
    told      \* the last version of each file that was written with Ok

vars == <<pc, job, ver, cur, inode, dir, media, told>>

fs == <<cur, inode, dir, media, told>>

Inode ==
    [file : Files, ver : Versions, data : {"empty", "part", "whole"},
     mode : {MODE_SECRET, MODE_PUBLIC}, synced : BOOLEAN]

\* An inode nobody refers to.
Free == [file |-> "generation", ver |-> 0, data |-> "empty", mode |-> MODE_SECRET, synced |-> TRUE]

TypeOK ==
    /\ pc \in {"idle", "create", "chmod", "write", "sync", "rename", "fsync"}
    /\ job \in Jobs \cup {Tail(j) : j \in Jobs} \cup {<<>>}
    /\ ver \in Versions
    /\ cur \in Inodes \cup {0}
    /\ inode \in [Inodes -> Inode]
    /\ dir \in [Files -> Inodes \cup {0}]
    /\ media \in [Files -> SUBSET (Inodes \cup {0})]
    /\ told \in [Files -> Versions]

Init ==
    /\ pc = "idle"
    /\ job = <<>>
    /\ ver = 0
    /\ cur = 0
    /\ inode = [n \in Inodes |-> Free]
    /\ dir = [f \in Files |-> 0]
    /\ media = [f \in Files |-> {0}]
    /\ told = [f \in Files |-> 0]

Linked(m) == UNION {m[f] : f \in Files}

\* The inodes the names in m still lead to; the others are freed.
Reclaim(m) == [n \in Inodes |-> IF n \in Linked(m) THEN inode[n] ELSE Free]

-----------------------------------------------------------------------------
(* Readers.                                                                 *)

\* read_optional_string of an inode: no file and an empty file are both None;
\* a torn file is text that does not parse.
Torn == MaxVersion + MaxKeys + 1

ReadOptionalString(n) ==
    IF n = 0 THEN 0
    ELSE CASE inode[n].data = "whole" -> inode[n].ver
           [] inode[n].data = "empty" -> 0
           [] inode[n].data = "part" -> Torn

Read(f) == ReadOptionalString(dir[f])

EnsureNotGroupOrWorldWritable(mode) == mode \cap GROUP_OR_OTHER_WRITABLE = {}

ValidateModeAtMost(mode, allowed) == mode \subseteq allowed

\* validate_private_key_security, as far as the mode goes.
ValidatePrivateKeySecurity(n) ==
    /\ EnsureNotGroupOrWorldWritable(inode[n].mode)
    /\ ValidateModeAtMost(inode[n].mode, MODE_SECRET)

-----------------------------------------------------------------------------
(* The callers.                                                             *)

\* load_or_generate_keypair, where neither key file is there: a new key.
BeginKeypair ==
    /\ pc = "idle"
    /\ dir["private_key"] = 0 /\ dir["public_key"] = 0
    /\ ver' \in KeyVersions \ {inode[n].ver : n \in Inodes}
    /\ job' = WriteKeypair
    /\ pc' = "create"
    /\ UNCHANGED fs

\* persist_after_apply of a bundle that passed the downgrade check.
BeginPersist ==
    /\ pc = "idle"
    /\ ver' \in (Read("generation")..MaxVersion) \ {0}
    /\ job' = PersistAfterApply
    /\ pc' = "create"
    /\ UNCHANGED fs

-----------------------------------------------------------------------------
(* secure_write.                                                            *)

file == Head(job)

\* The call returns an error, which its caller passes on.
Fail ==
    /\ pc' = "idle"
    /\ job' = <<>>
    /\ ver' = 0
    /\ cur' = 0

NewInodes == Inodes \ Linked(media)

\* The open file, under a temporary name, in whichever free inode.
NewTemp(mode) ==
    /\ NewInodes # {}
    /\ cur' = CHOOSE n \in NewInodes : TRUE
    /\ inode' = [inode EXCEPT ![cur'] = [file |-> file, ver |-> ver, data |-> "empty",
                                        mode |-> mode, synced |-> FALSE]]

\* Mutant: the file is created under the umask, its mode never set.
CreateUnderUmask ==
    /\ pc = "create"
    /\ NewTemp(MODE_PUBLIC)
    /\ pc' = "write"
    /\ UNCHANGED <<job, ver, dir, media, told>>

\* NamedTempFile::new_in: a new name beside the target, mode 0600.
CreateTemp ==
    /\ pc = "create"
    /\ NewTemp(MODE_SECRET)
    /\ pc' = "chmod"
    /\ UNCHANGED <<job, ver, dir, media, told>>

CreateFails ==
    /\ pc = "create"
    /\ Fail
    /\ UNCHANGED <<inode, dir, media, told>>

SetPermissions ==
    /\ pc = "chmod"
    /\ inode' = [inode EXCEPT ![cur].mode = Mode(file)]
    /\ pc' = "write"
    /\ UNCHANGED <<job, ver, cur, dir, media, told>>

\* write_all, which may be caught half way.
WriteAll ==
    /\ pc = "write"
    /\ \/ /\ inode[cur].data = "empty"
          /\ inode' = [inode EXCEPT ![cur].data = "part"]
          /\ UNCHANGED pc
       \/ /\ inode' = [inode EXCEPT ![cur].data = "whole"]
          /\ pc' = "sync"
    /\ UNCHANGED <<job, ver, cur, dir, media, told>>

\* Mutant: the data is left to the kernel.
SyncSkipped ==
    /\ pc = "sync"
    /\ pc' = "rename"
    /\ UNCHANGED <<job, ver, fs>>

SyncAll ==
    /\ pc = "sync"
    /\ inode' = [inode EXCEPT ![cur].synced = TRUE]
    /\ pc' = "rename"
    /\ UNCHANGED <<job, ver, cur, dir, media, told>>

\* An error of one of these drops the NamedTempFile, which deletes it.
StepFails ==
    /\ pc \in {"chmod", "write", "sync"}
    /\ Fail
    /\ inode' = Reclaim(media)
    /\ UNCHANGED <<dir, media, told>>

\* keep, then rename over the target.
Rename ==
    /\ pc = "rename"
    /\ dir' = [dir EXCEPT ![file] = cur]
    /\ media' = [media EXCEPT ![file] = @ \cup {cur}]
    /\ cur' = 0
    /\ pc' = "fsync"
    /\ UNCHANGED <<job, ver, inode, told>>

\* The temporary file has been kept: nobody deletes it any more, or ever reads
\* it, and it is not followed further.
RenameFails ==
    /\ pc = "rename"
    /\ Fail
    /\ inode' = Reclaim(media)
    /\ UNCHANGED <<dir, media, told>>

\* The call returns Ok; the caller goes on to its next file.
Succeed ==
    /\ told' = [told EXCEPT ![file] = ver]
    /\ job' = Tail(job)
    /\ pc' = IF Tail(job) = <<>> THEN "idle" ELSE "create"
    /\ ver' = IF Tail(job) = <<>> THEN 0 ELSE ver
    /\ UNCHANGED cur

\* Mutant: the rename is left to the kernel.
FsyncSkipped ==
    /\ pc = "fsync"
    /\ Succeed
    /\ UNCHANGED <<inode, dir, media>>

FsyncDir ==
    /\ pc = "fsync"
    /\ media' = [f \in Files |-> IF DirOf[f] = DirOf[file] THEN {dir[f]} ELSE media[f]]
    /\ inode' = Reclaim(media')
    /\ Succeed
    /\ UNCHANGED <<dir>>

\* The rename has happened all the same.
FsyncDirFails ==
    /\ pc = "fsync"
    /\ Fail
    /\ UNCHANGED <<inode, dir, media, told>>

-----------------------------------------------------------------------------
(* What ends the process.                                                   *)

\* The process is killed; its temporary file stays and is never looked at again.
Kill ==
    /\ pc # "idle"
    /\ Fail
    /\ inode' = Reclaim(media)
    /\ UNCHANGED <<dir, media, told>>

\* What a power failure may leave of an inode.
Survivors(i) ==
    IF i.synced THEN {i}
    ELSE [file : {i.file}, ver : {i.ver}, data : {"empty", "part", i.data},
          mode : {MODE_SECRET, i.mode}, synced : {TRUE}]

\* The names whose entry was not synced, and the inodes whose data was not.
Unsettled == {f \in Files : media[f] # {dir[f]}}
Unsynced(m) == {n \in Linked(m) \ {0} : ~inode[n].synced}

PowerFailure ==
    /\ \E back \in [Unsettled -> Linked(media)] :
          /\ \A f \in Unsettled : back[f] \in media[f]
          /\ dir' = [f \in Files |-> IF f \in Unsettled THEN back[f] ELSE dir[f]]
    /\ media' = [f \in Files |-> {dir'[f]}]
    /\ inode' \in {Reclaim(media')} \cup
          UNION {{[Reclaim(media') EXCEPT ![n] = i] : i \in Survivors(inode[n])} : n \in Unsynced(media')}
    /\ Fail
    /\ UNCHANGED told

-----------------------------------------------------------------------------
Next ==
    \/ BeginKeypair \/ BeginPersist
    \/ CreateTemp \/ CreateFails \/ SetPermissions \/ WriteAll \/ SyncAll \/ StepFails
    \/ Rename \/ RenameFails \/ FsyncDir \/ FsyncDirFails
    \/ Kill \/ PowerFailure

Spec == Init /\ [][Next]_vars

-----------------------------------------------------------------------------
(* Properties.                                                              *)

\* security.rs: "Readers never observe a partial file, even across a crash";
\* and a value secure_write returned Ok for is never read as an older one
\* again, whatever step of a later write the process or the machine is lost in.
WholeAndKept ==
    \A f \in Files :
        /\ dir[f] # 0 => inode[dir[f]].data = "whole"
        /\ told[f] <= Read(f)

\* The order of the two files of a job survives kills, failed syncs and power
\* failures: a fingerprint on disk has its generation (or a later one) beside
\* it, so that no pass takes a bundle it never recorded for one it has; a
\* public key has its own private key beside it.
OrderSurvives ==
    /\ Read("fingerprint") <= Read("generation")
    /\ Read("public_key") \in {0, Read("private_key")}

\* "contents are never briefly exposed under laxer permissions": no file, be
\* it temporary, lost half way or in place, holds data under a mode that
\* grants more than its caller asked for; and what is in place is what readers
\* insist on: the agent's own check accepts the private key.
ModesAsAsked ==
    /\ \A n \in Inodes :
          inode[n].data # "empty" => ValidateModeAtMost(inode[n].mode, Mode(inode[n].file))
    /\ dir["private_key"] # 0 => ValidatePrivateKeySecurity(dir["private_key"])
    /\ \A f \in Files \ {"private_key"} : dir[f] # 0 => inode[dir[f]].mode = MODE_PUBLIC

\* secure_write keeps the promise its callers are modelled on: every step is a
\* whole replacement, the confirmation of one, a power failure or nothing.
Promise == INSTANCE AtomicFile WITH
    value <- [f \in Files |-> Read(f)],
    fallback <- [f \in Files |-> {ReadOptionalString(n) : n \in media[f]}]

ImplementsAtomicFile == Promise!AbsSpec
=============================================================================
