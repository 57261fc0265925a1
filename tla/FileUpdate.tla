----------------------------- MODULE FileUpdate -----------------------------
(***************************************************************************)
(* src/src/authorized_keys.rs, apply_managed_block_to_file and             *)
(* atomic_write, system call by system call: processes update the same     *)
(* authorized_keys (a daemon, a one-shot sync, the daemon of another sid)  *)
(* while its owner edits it, processes die and the power fails.            *)
(*                                                                         *)
(* A version is [edit, update]: the owner's edit and the update that are   *)
(* in it.  A version is written in Chunks pieces, a file's data are the    *)
(* pieces in it; a name refers to an inode; what is durable is kept apart  *)
(* from what the running system sees.                                      *)
(***************************************************************************)
EXTENDS Naturals, Sequences, FiniteSets

CONSTANTS
    Writer,         \* the processes that update the file
    Inode,          \* the inodes of the directory
    NoInode,
    Chunks,         \* how many writes a version takes
    MaxUpdates, MaxEdits, MaxFailures   \* bounds

ASSUME BoundAssumption ==
    /\ NoInode \notin Inode
    /\ Chunks \in Nat \ {0}
    /\ MaxUpdates \in Nat /\ MaxEdits \in Nat /\ MaxFailures \in Nat

VARIABLES
    dir,        \* dir[name]: the inode of "keys" (authorized_keys) and "tmp"
    diskDir,    \* the directory as it is on the disk
    data,       \* data[i]: the pieces of inode i
    diskData,   \* diskData[i]: those that are on the disk
    pc,         \* pc[w]: the next step of the update of w, or "idle"
    fd,         \* fd[w]: the inode w has open
    out,        \* out[w]: the version w writes
    offset,     \* offset[w]: how many pieces w has written
    updates,    \* how many updates began
    edits,      \* how many edits the owner made
    failures,   \* how many power failures there were
    private,    \* the inodes of mode 600
    acked,      \* the latest update that returned Ok (history)
    quiet       \* the latest edit saved while no update was between reading and
                \* replacing the file (history)

vars == <<dir, diskDir, data, diskData, pc, fd, out, offset, updates, edits,
          failures, private, acked, quiet>>

Name == {"keys", "tmp"}
Version == [edit : 0 .. MaxEdits, update : 0 .. MaxUpdates]
Piece == [version : Version, at : 1 .. Chunks]
\* A write past the end of a file that was truncated meanwhile leaves a gap.
Gap == [version |-> [edit |-> 0, update |-> 0], at |-> 0]

Whole(v) == [i \in 1 .. Chunks |-> [version |-> v, at |-> i]]

\* Some version is in these data, whole and with nothing else.
IsWhole(d) == \E v \in Version : d = Whole(v)
VersionIn(d) == CHOOSE v \in Version : d = Whole(v)

Init ==
    /\ \E i \in Inode :
        /\ dir = [n \in Name |-> IF n = "keys" THEN i ELSE NoInode]
        /\ data = [j \in Inode |-> IF j = i THEN Whole([edit |-> 0, update |-> 0]) ELSE <<>>]
    /\ diskDir = dir
    /\ diskData = data
    /\ pc = [w \in Writer |-> "idle"]
    /\ fd = [w \in Writer |-> NoInode]
    /\ out = [w \in Writer |-> [edit |-> 0, update |-> 0]]
    /\ offset = [w \in Writer |-> 0]
    /\ updates = 0 /\ edits = 0 /\ failures = 0 /\ acked = 0 /\ quiet = 0
    /\ private = {dir["keys"]}

\* An inode that no name and no open file refers to.
Free == Inode \ ({dir[n] : n \in Name} \cup {diskDir[n] : n \in Name}
                 \cup {fd[w] : w \in Writer})

-----------------------------------------------------------------------------
(* One update                                                              *)

\* Variant: the owner's lines as the process saw them last time.
Read_cached(w) ==
    /\ pc[w] = "idle"
    /\ updates < MaxUpdates
    /\ updates' = updates + 1
    /\ out' = [out EXCEPT ![w] = [edit |-> out[w].edit, update |-> updates + 1]]
    /\ pc' = [pc EXCEPT ![w] = "open"]
    /\ UNCHANGED <<dir, diskDir, data, diskData, fd, offset, edits, failures, private,
                   acked, quiet>>

\* ensure_ssh_directory_permissions (the directory is there),
\* read_existing_authorized_keys and upsert_managed_block: the new version
\* has the owner's lines that are in the file now.  (Of a torn file, the
\* lines of its first piece.)
Read(w) ==
    /\ pc[w] = "idle"
    /\ updates < MaxUpdates
    /\ updates' = updates + 1
    /\ LET d == data[dir["keys"]]
       IN out' = [out EXCEPT ![w] =
             [edit |-> IF d = <<>> THEN 0 ELSE d[1].version.edit,
              update |-> updates + 1]]
    /\ pc' = [pc EXCEPT ![w] = "open"]
    /\ UNCHANGED <<dir, diskDir, data, diskData, fd, offset, edits, failures, private,
                   acked, quiet>>

\* OpenOptions create, truncate: a new inode, or the one another update (or
\* an earlier one that did not finish) left under the same name, with its mode.
OpenTmp(w) ==
    /\ pc[w] = "open"
    /\ \E i \in IF dir["tmp"] = NoInode THEN Free ELSE {dir["tmp"]} :
        /\ dir' = [dir EXCEPT !["tmp"] = i]
        /\ data' = [data EXCEPT ![i] = <<>>]
        /\ fd' = [fd EXCEPT ![w] = i]
        /\ private' = IF dir["tmp"] = NoInode THEN private \ {i} ELSE private
    /\ offset' = [offset EXCEPT ![w] = 0]
    /\ pc' = [pc EXCEPT ![w] = "write"]
    /\ UNCHANGED <<diskDir, diskData, out, updates, edits, failures, acked, quiet>>

\* The data after a write of piece p behind n others.
Written(d, n, p) ==
    [i \in 1 .. (IF Len(d) > n THEN Len(d) ELSE n + 1) |->
        IF i = n + 1 THEN p ELSE IF i <= Len(d) THEN d[i] ELSE Gap]

\* Variant: the loop over the pieces goes one too far.
Write_one_more(w) ==
    /\ pc[w] = "write"
    /\ offset[w] <= Chunks
    /\ data' = [data EXCEPT ![fd[w]] =
           Written(@, offset[w], [version |-> out[w], at |-> offset[w] + 1])]
    /\ offset' = [offset EXCEPT ![w] = @ + 1]
    /\ UNCHANGED <<dir, diskDir, diskData, pc, fd, out, updates, edits, failures, private,
                   acked, quiet>>

\* write_all, one piece.
Write(w) ==
    /\ pc[w] = "write"
    /\ offset[w] < Chunks
    /\ data' = [data EXCEPT ![fd[w]] =
           Written(@, offset[w], [version |-> out[w], at |-> offset[w] + 1])]
    /\ offset' = [offset EXCEPT ![w] = @ + 1]
    /\ UNCHANGED <<dir, diskDir, diskData, pc, fd, out, updates, edits, failures, private,
                   acked, quiet>>

\* Variants: no fsync before the rename; a rename before the last write.
SyncFile_skipped(w) ==
    /\ pc[w] = "write"
    /\ offset[w] = Chunks
    /\ pc' = [pc EXCEPT ![w] = "rename"]
    /\ UNCHANGED <<dir, diskDir, data, diskData, fd, out, offset, updates, edits,
                   failures, private, acked, quiet>>
SyncFile_early(w) ==
    /\ pc[w] = "write"
    /\ diskData' = [diskData EXCEPT ![fd[w]] = data[fd[w]]]
    /\ pc' = [pc EXCEPT ![w] = "rename"]
    /\ UNCHANGED <<dir, diskDir, data, fd, out, offset, updates, edits,
                   failures, private, acked, quiet>>

\* tmp_file.sync_all
SyncFile(w) ==
    /\ pc[w] = "write"
    /\ offset[w] = Chunks
    /\ diskData' = [diskData EXCEPT ![fd[w]] = data[fd[w]]]
    /\ pc' = [pc EXCEPT ![w] = "rename"]
    /\ UNCHANGED <<dir, diskDir, data, fd, out, offset, updates, edits,
                   failures, private, acked, quiet>>

\* fs::rename of whatever is called "tmp" now.
Rename(w) ==
    /\ pc[w] = "rename"
    /\ dir["tmp"] # NoInode
    /\ dir' = [dir EXCEPT !["keys"] = dir["tmp"], !["tmp"] = NoInode]
    /\ pc' = [pc EXCEPT ![w] = "sync_dir"]
    /\ UNCHANGED <<diskDir, data, diskData, fd, out, offset, updates, edits,
                   failures, private, acked, quiet>>

\* Variant: the directory is not synced.
SyncDir_skipped(w) ==
    /\ pc[w] = "sync_dir"
    /\ pc' = [pc EXCEPT ![w] = "chmod"]
    /\ UNCHANGED <<dir, diskDir, data, diskData, fd, out, offset, updates, edits,
                   failures, private, acked, quiet>>

\* sync_parent_directory
SyncDir(w) ==
    /\ pc[w] = "sync_dir"
    /\ diskDir' = dir
    /\ pc' = [pc EXCEPT ![w] = "chmod"]
    /\ UNCHANGED <<dir, data, diskData, fd, out, offset, updates, edits, failures, private,
                   acked, quiet>>

Ok(w) ==
    /\ acked' = IF out[w].update > acked THEN out[w].update ELSE acked
    /\ pc' = [pc EXCEPT ![w] = "idle"]
    /\ fd' = [fd EXCEPT ![w] = NoInode]
    /\ UNCHANGED <<dir, diskDir, data, diskData, out, offset, updates, edits, failures,
                   quiet>>

\* Variant: the mode is not set.
Chmod_skipped(w) == pc[w] = "chmod" /\ UNCHANGED private /\ Ok(w)

\* set_authorized_keys_permissions of what is called authorized_keys now;
\* apply_managed_block_to_file returns Ok.
Chmod(w) == pc[w] = "chmod" /\ private' = private \cup {dir["keys"]} /\ Ok(w)

Stop(w) ==
    /\ pc' = [pc EXCEPT ![w] = "idle"]
    /\ fd' = [fd EXCEPT ![w] = NoInode]
    /\ UNCHANGED <<dir, diskDir, data, diskData, out, offset, updates, edits,
                   failures, private, acked, quiet>>

\* fs::rename finds no "tmp": RenameFailed.
RenameFails(w) == pc[w] = "rename" /\ dir["tmp"] = NoInode /\ Stop(w)

\* The process dies, or a system call fails (no space, an I/O error) and the
\* update returns the error: "tmp" stays behind either way.
Abandon(w) == pc[w] # "idle" /\ Stop(w)

-----------------------------------------------------------------------------
(* The environment                                                         *)

\* An update has read the file and not replaced it yet.
UnderWay(w) == pc[w] \in {"open", "write", "rename"}

\* The owner saves the file with an editor that writes a file of its own with
\* the mode of the old one, syncs it and renames it.
OwnerEdit ==
    /\ edits < MaxEdits
    /\ IsWhole(data[dir["keys"]])
    /\ edits' = edits + 1
    /\ \E i \in Free :
        /\ dir' = [dir EXCEPT !["keys"] = i]
        /\ diskDir' = [diskDir EXCEPT !["keys"] = i]
        /\ LET d == Whole([edit |-> edits + 1, update |-> VersionIn(data[dir["keys"]]).update])
           IN  /\ data' = [data EXCEPT ![i] = d]
               /\ diskData' = [diskData EXCEPT ![i] = d]
        /\ private' = IF dir["keys"] \in private THEN private \cup {i} ELSE private \ {i}
    /\ quiet' = IF \E w \in Writer : UnderWay(w) THEN quiet ELSE edits + 1
    /\ UNCHANGED <<pc, fd, out, offset, updates, failures, acked>>

\* The owner removes a temporary file that was left behind, or is in use.
OwnerRemovesTmp ==
    /\ dir["tmp"] # NoInode
    /\ dir' = [dir EXCEPT !["tmp"] = NoInode]
    /\ UNCHANGED <<diskDir, data, diskData, pc, fd, out, offset, updates, edits,
                   failures, private, acked, quiet>>

\* The file system writes the directory back on its own.
WriteBackDir ==
    /\ diskDir # dir
    /\ diskDir' = dir
    /\ UNCHANGED <<dir, data, diskData, pc, fd, out, offset, updates, edits,
                   failures, private, acked, quiet>>

\* The inodes whose data are not all on the disk.
Dirty == {i \in Inode : diskData[i] # data[i]}

\* What a power failure may leave of a dirty inode: what is on the disk, or
\* the first n pieces of the newer data.
Left(i, n) ==
    IF n > Len(data[i]) THEN diskData[i] ELSE SubSeq(data[i], 1, n)

\* The power fails: the directory and the data are what the disk has.
PowerFailure ==
    /\ failures < MaxFailures
    /\ failures' = failures + 1
    /\ dir' = diskDir
    /\ \E n \in [Dirty -> 0 .. Chunks + 1] :
          data' = [i \in Inode |-> IF i \in Dirty THEN Left(i, n[i]) ELSE data[i]]
    /\ diskData' = data'
    /\ pc' = [w \in Writer |-> "idle"]
    /\ fd' = [w \in Writer |-> NoInode]
    /\ UNCHANGED <<diskDir, out, offset, updates, edits, private, acked, quiet>>

Next ==
    \/ \E w \in Writer :
        \/ Read(w) \/ OpenTmp(w) \/ Write(w) \/ SyncFile(w) \/ Rename(w)
        \/ SyncDir(w) \/ Chmod(w) \/ RenameFails(w) \/ Abandon(w)
    \/ OwnerEdit \/ OwnerRemovesTmp
    \/ WriteBackDir
    \/ PowerFailure

Spec == Init /\ [][Next]_vars

-----------------------------------------------------------------------------
(* Properties                                                              *)

Data == UNION {[1 .. n -> Piece \cup {Gap}] : n \in 0 .. Chunks}

\* The type of the state.
TypeOK ==
    /\ dir \in [Name -> Inode \cup {NoInode}]
    /\ diskDir \in [Name -> Inode \cup {NoInode}]
    /\ data \in [Inode -> Data]
    /\ diskData \in [Inode -> Data]
    /\ pc \in [Writer -> {"idle", "open", "write", "rename", "sync_dir", "chmod"}]
    /\ fd \in [Writer -> Inode \cup {NoInode}]
    /\ out \in [Writer -> Version]
    /\ offset \in [Writer -> 0 .. Chunks]
    /\ updates \in 0 .. MaxUpdates
    /\ edits \in 0 .. MaxEdits
    /\ failures \in 0 .. MaxFailures
    /\ private \subseteq Inode
    /\ acked \in 0 .. MaxUpdates
    /\ quiet \in 0 .. MaxEdits

\* RFC 0001: "do not leave a partly written authorized_keys".  A reader of
\* the file, sshd above all, finds one whole version at every moment, also
\* after a process died in the middle of an update or the power failed.
NeverTorn == IsWhole(data[dir["keys"]])

\* Whatever overlapping updates do to each other's temporary file (one may
\* find at its rename that it is gone), there is always an authorized_keys,
\* on the disk too: the owner is not locked out for want of the file.
NeverMissing == dir["keys"] # NoInode /\ diskDir["keys"] # NoInode

\* An update that returned Ok is still in the file after a power failure:
\* the file and then its directory were synced.
AckedSurvives ==
    IsWhole(data[dir["keys"]]) => VersionIn(data[dir["keys"]]).update >= acked

\* What the owner saved is not overwritten with older lines, however updates
\* fail and start again, unless an update was between its read and its rename
\* at that moment (there is no lock, and that edit is lost).
EditsKept ==
    IsWhole(data[dir["keys"]]) => VersionIn(data[dir["keys"]]).edit >= quiet

\* After the latest update that returned Ok the file is the owner's only,
\* although the temporary file it was made from is not: the mode is set last.
\* (A power failure may undo it, the mode is not synced.)
AckedPrivate ==
    (/\ acked > 0 /\ failures = 0
     /\ IsWhole(data[dir["keys"]]) /\ VersionIn(data[dir["keys"]]).update = acked)
    => dir["keys"] \in private

\* The refinement mapping: the version a reader sees and the one on the disk.
Torn == [edit |-> MaxEdits + 1, update |-> MaxUpdates + 1]
Current == IF NeverTorn THEN VersionIn(data[dir["keys"]]) ELSE Torn
OnDisk ==
    IF IsWhole(diskData[diskDir["keys"]]) THEN VersionIn(diskData[diskDir["keys"]])
    ELSE Torn

File == INSTANCE AtomicFile WITH current <- Current, survivors <- {Current, OnDisk}

\* Seen from outside, updates, deaths of processes, edits and power failures
\* are steps of AtomicFile.
ImplementsAtomicFile == File!Spec
=============================================================================
