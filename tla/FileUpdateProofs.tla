-------------------------- MODULE FileUpdateProofs --------------------------
(***************************************************************************)
(* Proofs about FileUpdate, for every number of inodes, pieces, updates,   *)
(* edits and power failures.                                               *)
(***************************************************************************)
EXTENDS FileUpdate, TLAPS

\* Only one process updates the file.
OneWriter == \A v, w \in Writer : v = w

-----------------------------------------------------------------------------
(* The inductive invariant for one writer.  NeverTorn is not inductive: it *)
(* needs to know that nothing is ever written to an inode that is called   *)
(* authorized_keys, here or on the disk, and that what is renamed to it is *)
(* whole and synced.                                                       *)

\* The first n pieces of version v.
Part(v, n) == [i \in 1 .. n |-> [version |-> v, at |-> i]]

\* A whole version, not older than what was acknowledged and saved.
Latest(d) == \E v \in Version : d = Whole(v) /\ v.update >= acked /\ v.edit >= quiet

\* A power failure leaves inode i as it is.
Safe(i) == diskData[i] = data[i] /\ Latest(data[i])

KeysSafe == Safe(dir["keys"]) /\ Safe(diskDir["keys"])

\* The temporary file is not authorized_keys, whatever the power failure leaves.
TmpApart ==
    /\ dir["tmp"] # dir["keys"] /\ dir["tmp"] # diskDir["keys"]
    /\ diskDir["tmp"] # diskDir["keys"]

\* A writer with an open file has the temporary one, unless that was removed.
OpenApart(w) ==
    pc[w] \in {"write", "rename"} =>
        /\ fd[w] \in Inode
        /\ fd[w] # dir["keys"] /\ fd[w] # diskDir["keys"]
        /\ dir["tmp"] \in {NoInode, fd[w]}

\* It has written the pieces before its offset, and synced all before the rename.
Written_so_far(w) ==
    /\ pc[w] = "write" => data[fd[w]] = Part(out[w], offset[w])
    /\ pc[w] = "rename" => /\ data[fd[w]] = Whole(out[w])
                           /\ diskData[fd[w]] = data[fd[w]]

\* What it writes is newer than what was acknowledged, and has what was saved.
OutIsNew(w) ==
    /\ out[w].update <= updates
    /\ UnderWay(w) => out[w].update >= acked /\ out[w].edit >= quiet

\* After the rename the update is in the file, and after the sync on the disk.
Has(i, n) == \E v \in Version : data[i] = Whole(v) /\ v.update >= n
InPlace(w) ==
    /\ pc[w] \in {"sync_dir", "chmod"} => Has(dir["keys"], out[w].update)
    /\ pc[w] = "chmod" => Has(diskDir["keys"], out[w].update)

IInv ==
    /\ OneWriter
    /\ TypeOK
    /\ NeverMissing
    /\ KeysSafe
    /\ TmpApart
    /\ \A w \in Writer : OpenApart(w) /\ Written_so_far(w) /\ OutIsNew(w) /\ InPlace(w)
    /\ acked <= updates /\ quiet <= edits

-----------------------------------------------------------------------------
(* Data                                                                    *)

\* The data of an inode are a sequence of at most Chunks pieces.
LEMMA DataIsSeq ==
    ASSUME NEW d \in Data
    PROVE  /\ Len(d) \in 0 .. Chunks
           /\ d \in [1 .. Len(d) -> Piece \cup {Gap}]
           /\ d \in Seq(Piece \cup {Gap})
<1>1. PICK n \in 0 .. Chunks : d \in [1 .. n -> Piece \cup {Gap}]
  BY DEF Data
<1>2. n \in Nat
  BY BoundAssumption
<1>3. d \in Seq(Piece \cup {Gap})
  BY <1>1, <1>2
<1>4. Len(d) = n
  BY <1>1, <1>2, <1>3
<1> QED
  BY <1>1, <1>3, <1>4

\* A function of that length is data.
LEMMA SeqIsData ==
    ASSUME NEW n \in 0 .. Chunks, NEW d \in [1 .. n -> Piece \cup {Gap}]
    PROVE  d \in Data
BY DEF Data

\* An inode without pieces has data of the type.
LEMMA EmptyIsData == <<>> \in Data
<1>1. <<>> \in [1 .. 0 -> Piece \cup {Gap}]
  OBVIOUS
<1>2. 0 \in 0 .. Chunks
  BY BoundAssumption
<1> QED
  BY <1>1, <1>2, Zenon DEF Data

\* A write leaves data of the type.
LEMMA WrittenIsData ==
    ASSUME NEW d \in Data, NEW n \in 0 .. Chunks, n < Chunks, NEW p \in Piece
    PROVE  Written(d, n, p) \in Data
<1> DEFINE m == IF Len(d) > n THEN Len(d) ELSE n + 1
<1>1. Len(d) \in 0 .. Chunks /\ d \in [1 .. Len(d) -> Piece \cup {Gap}]
  BY DataIsSeq
<1>2. m \in 0 .. Chunks
  BY <1>1, BoundAssumption
<1>3. Written(d, n, p) \in [1 .. m -> Piece \cup {Gap}]
  BY <1>1 DEF Written
<1> QED
  BY <1>2, <1>3, SeqIsData

\* What a power failure leaves of an inode is data.
LEMMA LeftIsData ==
    ASSUME TypeOK, NEW i \in Inode, NEW n \in 0 .. Chunks + 1
    PROVE  Left(i, n) \in Data
<1>1. data[i] \in Data /\ diskData[i] \in Data
  BY DEF TypeOK
<1>2. CASE n > Len(data[i])
  BY <1>1, <1>2 DEF Left
<1>3. CASE ~(n > Len(data[i]))
  <2>1. Len(data[i]) \in 0 .. Chunks /\ data[i] \in [1 .. Len(data[i]) -> Piece \cup {Gap}]
        /\ data[i] \in Seq(Piece \cup {Gap})
    BY <1>1, DataIsSeq
  <2>2. n \in 0 .. Chunks /\ n <= Len(data[i])
    BY <1>3, <2>1, BoundAssumption
  <2>3. SubSeq(data[i], 1, n) \in [1 .. n -> Piece \cup {Gap}]
    <3>1. SubSeq(data[i], 1, n) = [j \in 1 .. n |-> data[i][j]]
      BY <2>1, <2>2
    <3>2. \A j \in 1 .. n : data[i][j] \in Piece \cup {Gap}
      BY <2>1, <2>2
    <3> QED
      BY <3>1, <3>2
  <2> QED
    BY <1>3, <2>2, <2>3, SeqIsData DEF Left
<1> QED
  BY <1>2, <1>3

\* A whole version is data of the full length.
LEMMA WholeIsData ==
    ASSUME NEW v \in Version
    PROVE  Whole(v) \in Data /\ Len(Whole(v)) = Chunks
<1>1. Whole(v) \in [1 .. Chunks -> Piece \cup {Gap}]
  BY DEF Whole, Piece
<1>2. Whole(v) \in Seq(Piece \cup {Gap})
  BY <1>1, BoundAssumption
<1> QED
  BY <1>1, <1>2, SeqIsData, BoundAssumption

\* The version in whole data is the one that was written.
LEMMA WholeIsUnique ==
    ASSUME NEW v \in Version
    PROVE  IsWhole(Whole(v)) /\ VersionIn(Whole(v)) = v
<1>1. \A u \in Version : Whole(u) = Whole(v) => u = v
  <2> SUFFICES ASSUME NEW u \in Version, Whole(u) = Whole(v)
               PROVE  u = v
    OBVIOUS
  <2>1. 1 \in 1 .. Chunks
    BY BoundAssumption
  <2>2. Whole(u)[1].version = u /\ Whole(v)[1].version = v
    BY <2>1 DEF Whole
  <2> QED
    BY <2>2
<1> QED
  BY <1>1 DEF IsWhole, VersionIn

-----------------------------------------------------------------------------
(* Types, and that the file is always there, for any number of writers     *)

\* The types and the file at the start.
LEMMA TypeInit == Init => TypeOK /\ NeverMissing
<1> SUFFICES ASSUME Init PROVE TypeOK /\ NeverMissing
  OBVIOUS
<1> DEFINE v0 == [edit |-> 0, update |-> 0]
<1>1. v0 \in Version
  BY BoundAssumption DEF Version
<1>2. Whole(v0) \in Data /\ <<>> \in Data
  BY <1>1, WholeIsData, EmptyIsData
<1>3. PICK i \in Inode :
        /\ dir = [n \in Name |-> IF n = "keys" THEN i ELSE NoInode]
        /\ data = [j \in Inode |-> IF j = i THEN Whole(v0) ELSE <<>>]
  BY DEF Init
<1>4. /\ dir \in [Name -> Inode \cup {NoInode}] /\ dir["keys"] = i
      /\ data \in [Inode -> Data]
  BY <1>2, <1>3 DEF Name
<1> QED
  BY <1>1, <1>4, BoundAssumption DEF Init, TypeOK, NeverMissing

\* The steps of a writer that only change its own place.
LEMMA TypeStop ==
    ASSUME TypeOK, NeverMissing, NEW w \in Writer, Stop(w)
    PROVE  TypeOK' /\ NeverMissing'
BY DEF TypeOK, NeverMissing, Stop

\* Every step keeps the types, and that the file is there.
LEMMA TypeStep ==
    ASSUME TypeOK, NeverMissing, [Next]_vars
    PROVE  TypeOK' /\ NeverMissing'
<1>k. dir["keys"] \in Inode /\ diskDir["keys"] \in Inode
  BY DEF TypeOK, NeverMissing, Name
<1>1. ASSUME NEW w \in Writer, Read(w) PROVE TypeOK' /\ NeverMissing'
  <2> DEFINE d == data[dir["keys"]]
             e == IF d = <<>> THEN 0 ELSE d[1].version.edit
  <2>1. e \in 0 .. MaxEdits
    <3>1. d \in Data
      BY <1>k DEF TypeOK
    <3>2. Len(d) \in 0 .. Chunks /\ d \in [1 .. Len(d) -> Piece \cup {Gap}]
          /\ d \in Seq(Piece \cup {Gap})
      BY <3>1, DataIsSeq
    <3>3. CASE d = <<>>
      BY <3>3, BoundAssumption
    <3>4. CASE d # <<>>
      <4>1. Len(d) # 0
        BY <3>2, <3>4
      <4>2. d[1] \in Piece \cup {Gap}
        BY <3>2, <4>1
      <4> QED
        BY <3>4, <4>2, BoundAssumption DEF Piece, Version, Gap
    <3> QED
      BY <3>3, <3>4
  <2>2. updates + 1 \in 0 .. MaxUpdates
    BY <1>1, BoundAssumption DEF Read, TypeOK
  <2>3. [edit |-> e, update |-> updates + 1] \in Version
    BY <2>1, <2>2 DEF Version
  <2> HIDE DEF d, e
  <2>4. out' = [out EXCEPT ![w] = [edit |-> e, update |-> updates + 1]]
    BY <1>1 DEF Read, d, e
  <2> QED
    BY <1>1, <2>2, <2>3, <2>4 DEF Read, TypeOK, NeverMissing
<1>2. ASSUME NEW w \in Writer, OpenTmp(w) PROVE TypeOK' /\ NeverMissing'
  <2>1. PICK i \in IF dir["tmp"] = NoInode THEN Free ELSE {dir["tmp"]} :
            /\ dir' = [dir EXCEPT !["tmp"] = i]
            /\ data' = [data EXCEPT ![i] = <<>>]
            /\ fd' = [fd EXCEPT ![w] = i]
            /\ private' = IF dir["tmp"] = NoInode THEN private \ {i} ELSE private
    BY <1>2 DEF OpenTmp
  <2>2. i \in Inode
    BY <2>1 DEF Free, TypeOK, Name
  <2>3. <<>> \in Data
    BY EmptyIsData
  <2>4. offset' \in [Writer -> 0 .. Chunks]
    BY <1>2, BoundAssumption DEF OpenTmp, TypeOK
  <2> QED
    BY <1>2, <2>1, <2>2, <2>3, <2>4 DEF OpenTmp, TypeOK, NeverMissing, Name
<1>3. ASSUME NEW w \in Writer, Write(w) PROVE TypeOK' /\ NeverMissing'
  <2> DEFINE p == [version |-> out[w], at |-> offset[w] + 1]
  <2>1. offset[w] \in 0 .. Chunks /\ offset[w] < Chunks /\ out[w] \in Version
    BY <1>3 DEF Write, TypeOK
  <2>2. p \in Piece /\ offset[w] + 1 \in 0 .. Chunks
    BY <2>1, BoundAssumption DEF Piece
  <2>3. data' = [data EXCEPT ![fd[w]] = Written(data[fd[w]], offset[w], p)]
    BY <1>3 DEF Write
  <2> HIDE DEF p
  <2>4. \A i \in Inode : Written(data[i], offset[w], p) \in Data
    BY <2>1, <2>2, WrittenIsData DEF TypeOK
  <2>5. data' \in [Inode -> Data]
    BY <2>3, <2>4 DEF TypeOK
  <2> QED
    BY <1>3, <2>2, <2>5 DEF Write, TypeOK, NeverMissing
<1>4. ASSUME NEW w \in Writer, SyncFile(w) PROVE TypeOK' /\ NeverMissing'
  BY <1>4 DEF SyncFile, TypeOK, NeverMissing
<1>5. ASSUME NEW w \in Writer, Rename(w) PROVE TypeOK' /\ NeverMissing'
  BY <1>5 DEF Rename, TypeOK, NeverMissing, Name
<1>6. ASSUME NEW w \in Writer, SyncDir(w) PROVE TypeOK' /\ NeverMissing'
  BY <1>6 DEF SyncDir, TypeOK, NeverMissing
<1>7. ASSUME NEW w \in Writer, Chmod(w) PROVE TypeOK' /\ NeverMissing'
  <2>1. acked' \in 0 .. MaxUpdates
    BY <1>7, BoundAssumption DEF Chmod, Ok, TypeOK, Version
  <2> QED
    BY <1>7, <1>k, <2>1 DEF Chmod, Ok, TypeOK, NeverMissing
<1>8. ASSUME NEW w \in Writer, RenameFails(w) \/ Abandon(w) PROVE TypeOK' /\ NeverMissing'
  BY <1>8, TypeStop DEF RenameFails, Abandon
<1>9. CASE OwnerEdit
  <2> DEFINE v == VersionIn(data[dir["keys"]])
             e == [edit |-> edits + 1, update |-> v.update]
  <2>1. v \in Version
    BY <1>9 DEF OwnerEdit, IsWhole, VersionIn
  <2>2. edits + 1 \in 0 .. MaxEdits
    BY <1>9, BoundAssumption DEF OwnerEdit, TypeOK
  <2>3. e \in Version
    BY <2>1, <2>2 DEF Version
  <2> HIDE DEF v, e
  <2>4. PICK i \in Free :
          /\ dir' = [dir EXCEPT !["keys"] = i]
          /\ diskDir' = [diskDir EXCEPT !["keys"] = i]
          /\ data' = [data EXCEPT ![i] = Whole(e)]
          /\ diskData' = [diskData EXCEPT ![i] = Whole(e)]
          /\ private' = IF dir["keys"] \in private THEN private \cup {i} ELSE private \ {i}
    BY <1>9 DEF OwnerEdit, v, e
  <2>5. i \in Inode /\ i # NoInode
    BY <2>4, BoundAssumption DEF Free
  <2>6. Whole(e) \in Data
    BY <2>3, WholeIsData
  <2>7. quiet' \in 0 .. MaxEdits
    BY <1>9, <2>2 DEF OwnerEdit, TypeOK
  <2>8. NeverMissing' /\ private' \subseteq Inode
    BY <2>4, <2>5 DEF TypeOK, NeverMissing, Name
  <2>9. dir' \in [Name -> Inode \cup {NoInode}] /\ diskDir' \in [Name -> Inode \cup {NoInode}]
    BY <2>4, <2>5 DEF TypeOK, Name
  <2>10. data' \in [Inode -> Data] /\ diskData' \in [Inode -> Data]
    BY <2>4, <2>5, <2>6 DEF TypeOK
  <2> QED
    BY <1>9, <2>2, <2>7, <2>8, <2>9, <2>10 DEF OwnerEdit, TypeOK
<1>10. CASE OwnerRemovesTmp
  BY <1>10 DEF OwnerRemovesTmp, TypeOK, NeverMissing, Name
<1>11. CASE WriteBackDir
  BY <1>11 DEF WriteBackDir, TypeOK, NeverMissing
<1>12. CASE PowerFailure
  <2>1. PICK n \in [Dirty -> 0 .. Chunks + 1] :
          data' = [i \in Inode |-> IF i \in Dirty THEN Left(i, n[i]) ELSE data[i]]
    BY <1>12 DEF PowerFailure
  <2>2. data' \in [Inode -> Data]
    BY <2>1, LeftIsData DEF TypeOK
  <2>3. failures' \in 0 .. MaxFailures
    BY <1>12, BoundAssumption DEF PowerFailure, TypeOK
  <2> QED
    BY <1>12, <2>2, <2>3 DEF PowerFailure, TypeOK, NeverMissing
<1>13. CASE UNCHANGED vars
  BY <1>13 DEF vars, TypeOK, NeverMissing
<1> QED
  BY <1>1, <1>2, <1>3, <1>4, <1>5, <1>6, <1>7, <1>8, <1>9, <1>10, <1>11, <1>12, <1>13 DEF Next

\* The types of the state, for any number of processes: whatever overlapping
\* updates write into the same temporary file (atomic_write, authorized_keys.rs),
\* no file grows beyond a version.
THEOREM FileTypes == Spec => []TypeOK
BY TypeInit, TypeStep, PTL DEF Spec

\* There is an authorized_keys at every moment, on the disk too, whatever
\* overlapping updates, deaths and power failures do: atomic_write only renames
\* a file over it (authorized_keys.rs).
THEOREM FileIsThere == Spec => []NeverMissing
BY TypeInit, TypeStep, PTL DEF Spec

-----------------------------------------------------------------------------
(* One writer                                                              *)

\* Opening the file with truncate leaves no piece.
LEMMA PartEmpty ==
    ASSUME NEW v PROVE Part(v, 0) = <<>>
BY DEF Part

\* The write of the next piece of a version behind its first n.
LEMMA PartGrows ==
    ASSUME NEW v \in Version, NEW n \in 0 .. Chunks, n < Chunks
    PROVE  Written(Part(v, n), n, [version |-> v, at |-> n + 1]) = Part(v, n + 1)
<1>1. n \in Nat
  BY BoundAssumption
<1>2. Part(v, n) \in Seq(Piece) /\ Len(Part(v, n)) = n
  <2>1. Part(v, n) \in [1 .. n -> Piece]
    BY BoundAssumption DEF Part, Piece
  <2>2. Part(v, n) \in Seq(Piece)
    BY <1>1, <2>1
  <2> QED
    BY <1>1, <2>1, <2>2
<1>3. Written(Part(v, n), n, [version |-> v, at |-> n + 1])
      = [i \in 1 .. n + 1 |-> IF i = n + 1 THEN [version |-> v, at |-> n + 1]
                              ELSE Part(v, n)[i]]
  BY <1>1, <1>2 DEF Written
<1>4. \A i \in 1 .. n + 1 :
          (IF i = n + 1 THEN [version |-> v, at |-> n + 1] ELSE Part(v, n)[i])
          = [version |-> v, at |-> i]
  <2> TAKE i \in 1 .. n + 1
  <2>1. CASE i = n + 1
    BY <2>1
  <2>2. CASE i # n + 1
    <3>1. i \in 1 .. n
      BY <1>1, <2>2
    <3> QED
      BY <2>2, <3>1 DEF Part
  <2> QED
    BY <2>1, <2>2
<1> QED
  BY <1>3, <1>4, Zenon DEF Part

\* What a whole version holds does not depend on which one is picked.
LEMMA SameVersion ==
    ASSUME NEW u \in Version, NEW v \in Version, Whole(u) = Whole(v)
    PROVE  u = v
BY WholeIsUnique

\* The invariant holds at the start.
LEMMA InvInit == OneWriter /\ Init => IInv
<1> SUFFICES ASSUME OneWriter, Init PROVE IInv
  OBVIOUS
<1> DEFINE v0 == [edit |-> 0, update |-> 0]
<1>1. v0 \in Version /\ v0.edit = 0 /\ v0.update = 0
  BY BoundAssumption DEF Version
<1>2. PICK i \in Inode :
        /\ dir = [n \in Name |-> IF n = "keys" THEN i ELSE NoInode]
        /\ data = [j \in Inode |-> IF j = i THEN Whole(v0) ELSE <<>>]
  BY DEF Init
<1> HIDE DEF v0
<1>3. /\ dir["keys"] = i /\ dir["tmp"] = NoInode /\ i # NoInode /\ data[i] = Whole(v0)
      /\ diskDir = dir /\ diskData = data
  BY <1>2, BoundAssumption DEF Init, Name
<1>4. KeysSafe
  <2>1. acked = 0 /\ quiet = 0
    BY DEF Init
  <2>2. v0.update >= acked /\ v0.edit >= quiet
    BY <1>1, <2>1
  <2>3. Latest(data[i])
    BY <1>1, <1>3, <2>2 DEF Latest
  <2> QED
    BY <1>3, <2>3 DEF KeysSafe, Safe
<1>5. TmpApart
  BY <1>3 DEF TmpApart
<1>6. \A w \in Writer : OpenApart(w) /\ Written_so_far(w) /\ OutIsNew(w) /\ InPlace(w)
  BY DEF Init, OpenApart, Written_so_far, OutIsNew, InPlace, UnderWay
<1> QED
  BY <1>4, <1>5, <1>6, TypeInit DEF IInv, Init

\* The places of the only writer.
LEMMA OnlyWriter ==
    ASSUME OneWriter, NEW w \in Writer,
           OpenApart(w)' /\ Written_so_far(w)' /\ OutIsNew(w)' /\ InPlace(w)'
    PROVE  \A u \in Writer :
               OpenApart(u)' /\ Written_so_far(u)' /\ OutIsNew(u)' /\ InPlace(u)'
<1> TAKE u \in Writer
<1>1. u = w
  BY DEF OneWriter
<1> QED
  BY <1>1

\* The new version has the owner's lines of the file and the next number.
LEMMA ReadStep ==
    ASSUME IInv, NEW w \in Writer, Read(w)
    PROVE  IInv'
<1>1. PICK v \in Version : data[dir["keys"]] = Whole(v) /\ v.edit >= quiet
  BY DEF IInv, KeysSafe, Safe, Latest
<1>2. Whole(v) # <<>> /\ Whole(v)[1].version = v
  <2>1. 1 \in 1 .. Chunks
    BY BoundAssumption
  <2>2. Len(Whole(v)) # 0
    BY WholeIsData, BoundAssumption
  <2> QED
    BY <2>1, <2>2 DEF Whole
<1>3. /\ out' = [out EXCEPT ![w] = [edit |-> v.edit, update |-> updates + 1]]
      /\ updates' = updates + 1
      /\ pc' = [pc EXCEPT ![w] = "open"]
      /\ UNCHANGED <<dir, diskDir, data, diskData, fd, offset, edits, failures, private,
                     acked, quiet>>
  BY <1>1, <1>2 DEF Read
<1>4. out'[w].edit = v.edit /\ out'[w].update = updates + 1 /\ pc'[w] = "open"
  BY <1>3 DEF IInv, TypeOK
<1>5. /\ updates \in Nat /\ acked \in Nat /\ quiet \in Nat /\ edits \in Nat
      /\ v.edit \in Nat
  BY BoundAssumption DEF IInv, TypeOK, Version
<1>6. TypeOK' /\ NeverMissing'
  BY TypeStep DEF IInv, Next
<1>7. KeysSafe' /\ TmpApart'
  BY <1>3 DEF IInv, KeysSafe, Safe, Latest, TmpApart
<1>8. OpenApart(w)' /\ Written_so_far(w)' /\ InPlace(w)'
  BY <1>4 DEF OpenApart, Written_so_far, InPlace
<1>9. OutIsNew(w)'
  BY <1>1, <1>3, <1>4, <1>5 DEF IInv, OutIsNew
<1> QED
  BY <1>3, <1>5, <1>6, <1>7, <1>8, <1>9, OnlyWriter DEF IInv, OneWriter

\* The file that is truncated is not authorized_keys.
LEMMA OpenStep ==
    ASSUME IInv, NEW w \in Writer, OpenTmp(w)
    PROVE  IInv'
<1>1. PICK i \in IF dir["tmp"] = NoInode THEN Free ELSE {dir["tmp"]} :
          /\ dir' = [dir EXCEPT !["tmp"] = i]
          /\ data' = [data EXCEPT ![i] = <<>>]
          /\ fd' = [fd EXCEPT ![w] = i]
  BY DEF OpenTmp
<1>2. i \in Inode /\ i # dir["keys"] /\ i # diskDir["keys"]
  BY <1>1 DEF Free, IInv, TypeOK, Name, TmpApart
<1>3. /\ offset' = [offset EXCEPT ![w] = 0]
      /\ pc[w] = "open" /\ pc' = [pc EXCEPT ![w] = "write"]
      /\ UNCHANGED <<diskDir, diskData, out, updates, edits, acked, quiet>>
  BY DEF OpenTmp
<1>4. /\ dir'["keys"] = dir["keys"] /\ dir'["tmp"] = i
      /\ data'[dir["keys"]] = data[dir["keys"]]
      /\ data'[diskDir["keys"]] = data[diskDir["keys"]]
      /\ data'[i] = <<>> /\ fd'[w] = i /\ offset'[w] = 0 /\ pc'[w] = "write"
  BY <1>1, <1>2, <1>3 DEF IInv, TypeOK, NeverMissing, Name
<1>5. TypeOK' /\ NeverMissing'
  BY TypeStep DEF IInv, Next
<1>6. KeysSafe'
  BY <1>3, <1>4 DEF IInv, KeysSafe, Safe, Latest
<1>7. TmpApart'
  BY <1>2, <1>3, <1>4 DEF IInv, TmpApart
<1>8. OpenApart(w)' /\ InPlace(w)'
  BY <1>2, <1>3, <1>4 DEF OpenApart, InPlace
<1>9. Written_so_far(w)'
  BY <1>4, PartEmpty DEF Written_so_far
<1>10. OutIsNew(w)'
  BY <1>3, <1>4 DEF IInv, OutIsNew, UnderWay
<1> QED
  BY <1>3, <1>5, <1>6, <1>7, <1>8, <1>9, <1>10, OnlyWriter DEF IInv, OneWriter

\* The next piece goes to the temporary file, behind those before it.
LEMMA WriteStep ==
    ASSUME IInv, NEW w \in Writer, Write(w)
    PROVE  IInv'
<1>1. /\ pc[w] = "write" /\ offset[w] \in 0 .. Chunks /\ offset[w] < Chunks
      /\ out[w] \in Version
      /\ data' = [data EXCEPT ![fd[w]] =
             Written(data[fd[w]], offset[w], [version |-> out[w], at |-> offset[w] + 1])]
      /\ offset' = [offset EXCEPT ![w] = offset[w] + 1]
      /\ UNCHANGED <<dir, diskDir, diskData, pc, fd, out, updates, edits, acked, quiet>>
  BY DEF Write, IInv, TypeOK
<1>2. /\ fd[w] \in Inode /\ fd[w] # dir["keys"] /\ fd[w] # diskDir["keys"]
      /\ data[fd[w]] = Part(out[w], offset[w])
  BY <1>1 DEF IInv, OpenApart, Written_so_far
<1>3. data'[fd[w]] = Part(out[w], offset[w] + 1) /\ offset'[w] = offset[w] + 1
  <2>1. Written(data[fd[w]], offset[w], [version |-> out[w], at |-> offset[w] + 1])
        = Part(out[w], offset[w] + 1)
    BY <1>1, <1>2, PartGrows
  <2> QED
    BY <1>1, <1>2, <2>1 DEF IInv, TypeOK
<1>4. /\ data'[dir["keys"]] = data[dir["keys"]]
      /\ data'[diskDir["keys"]] = data[diskDir["keys"]]
  BY <1>1, <1>2 DEF IInv, TypeOK, NeverMissing, Name
<1>5. TypeOK' /\ NeverMissing'
  BY TypeStep DEF IInv, Next
<1>6. KeysSafe' /\ TmpApart'
  BY <1>1, <1>4 DEF IInv, KeysSafe, Safe, Latest, TmpApart
<1>7. OpenApart(w)' /\ InPlace(w)' /\ OutIsNew(w)'
  BY <1>1 DEF IInv, OpenApart, InPlace, OutIsNew, UnderWay
<1>8. Written_so_far(w)'
  BY <1>1, <1>3 DEF Written_so_far
<1> QED
  BY <1>1, <1>5, <1>6, <1>7, <1>8, OnlyWriter DEF IInv, OneWriter

\* The whole version is on the disk before it is renamed.
LEMMA SyncFileStep ==
    ASSUME IInv, NEW w \in Writer, SyncFile(w)
    PROVE  IInv'
<1>1. /\ pc[w] = "write" /\ offset[w] = Chunks
      /\ diskData' = [diskData EXCEPT ![fd[w]] = data[fd[w]]]
      /\ pc' = [pc EXCEPT ![w] = "rename"] /\ pc'[w] = "rename"
      /\ UNCHANGED <<dir, diskDir, data, fd, out, updates, edits, acked, quiet>>
  BY DEF SyncFile, IInv, TypeOK
<1>2. /\ fd[w] \in Inode /\ fd[w] # dir["keys"] /\ fd[w] # diskDir["keys"]
      /\ data[fd[w]] = Whole(out[w])
  BY <1>1 DEF IInv, OpenApart, Written_so_far, Part, Whole
<1>3. /\ diskData'[fd[w]] = data[fd[w]]
      /\ diskData'[dir["keys"]] = diskData[dir["keys"]]
      /\ diskData'[diskDir["keys"]] = diskData[diskDir["keys"]]
  BY <1>1, <1>2 DEF IInv, TypeOK, NeverMissing, Name
<1>4. TypeOK' /\ NeverMissing'
  BY TypeStep DEF IInv, Next
<1>5. KeysSafe' /\ TmpApart'
  BY <1>1, <1>3 DEF IInv, KeysSafe, Safe, Latest, TmpApart
<1>6. OpenApart(w)' /\ InPlace(w)' /\ OutIsNew(w)' /\ Written_so_far(w)'
  BY <1>1, <1>2, <1>3 DEF IInv, OpenApart, InPlace, OutIsNew, UnderWay, Written_so_far
<1> QED
  BY <1>1, <1>4, <1>5, <1>6, OnlyWriter DEF IInv, OneWriter

\* What becomes authorized_keys is whole, synced and the newest.
LEMMA RenameStep ==
    ASSUME IInv, NEW w \in Writer, Rename(w)
    PROVE  IInv'
<1>1. /\ pc[w] = "rename" /\ dir["tmp"] # NoInode
      /\ dir' = [dir EXCEPT !["keys"] = dir["tmp"], !["tmp"] = NoInode]
      /\ pc' = [pc EXCEPT ![w] = "sync_dir"] /\ pc'[w] = "sync_dir"
      /\ UNCHANGED <<diskDir, data, diskData, fd, out, updates, edits, acked, quiet>>
  BY DEF Rename, IInv, TypeOK
<1>2. /\ dir["tmp"] = fd[w] /\ out[w] \in Version
      /\ data[fd[w]] = Whole(out[w]) /\ diskData[fd[w]] = data[fd[w]]
      /\ out[w].update >= acked /\ out[w].edit >= quiet
  BY <1>1 DEF IInv, OpenApart, Written_so_far, OutIsNew, UnderWay, TypeOK
<1>3. dir'["keys"] = fd[w] /\ dir'["tmp"] = NoInode
  BY <1>1, <1>2 DEF IInv, TypeOK, Name
<1>4. TypeOK' /\ NeverMissing'
  BY TypeStep DEF IInv, Next
<1>5. KeysSafe'
  BY <1>1, <1>2, <1>3 DEF IInv, KeysSafe, Safe, Latest
<1>6. TmpApart'
  BY <1>1, <1>3, <1>4 DEF IInv, TmpApart, NeverMissing
<1>7. InPlace(w)'
  <2>1. out[w].update >= out[w].update
    BY <1>2, BoundAssumption DEF Version
  <2>2. Has(fd[w], out[w].update)
    BY <1>2, <2>1 DEF Has
  <2>3. Has(dir["keys"], out[w].update)'
    BY <1>1, <1>3, <2>2 DEF Has
  <2> QED
    BY <1>1, <2>3 DEF InPlace
<1>8. OpenApart(w)' /\ OutIsNew(w)' /\ Written_so_far(w)'
  BY <1>1 DEF IInv, OpenApart, OutIsNew, UnderWay, Written_so_far
<1> QED
  BY <1>1, <1>4, <1>5, <1>6, <1>7, <1>8, OnlyWriter DEF IInv, OneWriter

\* From here on the disk names the new file.
LEMMA SyncDirStep ==
    ASSUME IInv, NEW w \in Writer, SyncDir(w)
    PROVE  IInv'
<1>1. /\ pc[w] = "sync_dir" /\ diskDir' = dir
      /\ pc' = [pc EXCEPT ![w] = "chmod"] /\ pc'[w] = "chmod"
      /\ UNCHANGED <<dir, data, diskData, fd, out, updates, edits, acked, quiet>>
  BY DEF SyncDir, IInv, TypeOK
<1>2. TypeOK' /\ NeverMissing'
  BY TypeStep DEF IInv, Next
<1>3. KeysSafe' /\ TmpApart'
  BY <1>1 DEF IInv, KeysSafe, Safe, Latest, TmpApart
<1>4. OpenApart(w)' /\ OutIsNew(w)' /\ Written_so_far(w)'
  BY <1>1 DEF IInv, OpenApart, OutIsNew, UnderWay, Written_so_far
<1>5. InPlace(w)'
  BY <1>1 DEF IInv, InPlace, Has
<1> QED
  BY <1>1, <1>2, <1>3, <1>4, <1>5, OnlyWriter DEF IInv, OneWriter

\* What an update that is in place leaves is the latest once it is acknowledged.
LEMMA AckedIsLatest ==
    ASSUME NEW i, Latest(data[i]), NEW n, Has(i, n)
    PROVE  \E v \in Version : /\ data[i] = Whole(v) /\ v.update >= n
                              /\ v.update >= acked /\ v.edit >= quiet
BY SameVersion DEF Latest, Has

\* The acknowledged update is in the file, here and on the disk.
LEMMA ChmodStep ==
    ASSUME IInv, NEW w \in Writer, Chmod(w)
    PROVE  IInv'
<1>1. /\ pc[w] = "chmod" /\ (acked' = acked \/ acked' = out[w].update)
      /\ pc' = [pc EXCEPT ![w] = "idle"] /\ pc'[w] = "idle"
      /\ UNCHANGED <<dir, diskDir, data, diskData, out, offset, updates, edits, quiet>>
  BY DEF Chmod, Ok, IInv, TypeOK
<1>2. Has(dir["keys"], out[w].update) /\ Has(diskDir["keys"], out[w].update)
  BY <1>1 DEF IInv, InPlace
<1>3. TypeOK' /\ NeverMissing'
  BY TypeStep DEF IInv, Next
<1>4. Latest(data[dir["keys"]])' /\ Latest(data[diskDir["keys"]])'
  <2>1. Latest(data[dir["keys"]]) /\ Latest(data[diskDir["keys"]])
    BY DEF IInv, KeysSafe, Safe
  <2>2. PICK v \in Version : /\ data[dir["keys"]] = Whole(v) /\ v.update >= out[w].update
                             /\ v.update >= acked /\ v.edit >= quiet
    BY <1>2, <2>1, AckedIsLatest
  <2>3. PICK u \in Version : /\ data[diskDir["keys"]] = Whole(u) /\ u.update >= out[w].update
                             /\ u.update >= acked /\ u.edit >= quiet
    BY <1>2, <2>1, AckedIsLatest
  <2> QED
    BY <1>1, <2>2, <2>3 DEF Latest
<1>5. KeysSafe' /\ TmpApart'
  BY <1>1, <1>4 DEF IInv, KeysSafe, Safe, TmpApart
<1>6. OpenApart(w)' /\ OutIsNew(w)' /\ Written_so_far(w)' /\ InPlace(w)'
  BY <1>1 DEF IInv, OpenApart, OutIsNew, UnderWay, Written_so_far, InPlace
<1>7. acked' <= updates' /\ quiet' <= edits'
  BY <1>1 DEF IInv, OutIsNew
<1> QED
  BY <1>3, <1>5, <1>6, <1>7, OnlyWriter DEF IInv, OneWriter

\* An update that ends early leaves only a temporary file behind.
LEMMA StopStep ==
    ASSUME IInv, NEW w \in Writer, Stop(w)
    PROVE  IInv'
<1>1. /\ pc'[w] = "idle"
      /\ UNCHANGED <<dir, diskDir, data, diskData, out, offset, updates, edits, acked, quiet>>
  BY DEF Stop, IInv, TypeOK
<1>2. TypeOK' /\ NeverMissing'
  BY TypeStop DEF IInv
<1>3. KeysSafe' /\ TmpApart'
  BY <1>1 DEF IInv, KeysSafe, Safe, Latest, TmpApart
<1>4. OpenApart(w)' /\ OutIsNew(w)' /\ Written_so_far(w)' /\ InPlace(w)'
  BY <1>1 DEF IInv, OpenApart, OutIsNew, UnderWay, Written_so_far, InPlace
<1> QED
  BY <1>1, <1>2, <1>3, <1>4, OnlyWriter DEF IInv, OneWriter

\* The owner's version has the update of the one it replaces.
LEMMA OwnerEditStep ==
    ASSUME IInv, OwnerEdit
    PROVE  IInv'
<1>1. PICK v \in Version : /\ data[dir["keys"]] = Whole(v)
                           /\ v.update >= acked /\ v.edit >= quiet
  BY DEF IInv, KeysSafe, Safe, Latest
<1>2. VersionIn(data[dir["keys"]]) = v
  BY <1>1, WholeIsUnique
<1> DEFINE e == [edit |-> edits + 1, update |-> v.update]
<1>3. /\ edits \in Nat /\ quiet \in Nat /\ quiet <= edits
      /\ edits + 1 \in 0 .. MaxEdits /\ v.update \in 0 .. MaxUpdates
  BY BoundAssumption DEF OwnerEdit, IInv, TypeOK, Version
<1>4. e \in Version /\ e.update = v.update /\ e.edit = edits + 1
  BY <1>3 DEF Version
<1> HIDE DEF e
<1>5. PICK i \in Free :
        /\ dir' = [dir EXCEPT !["keys"] = i]
        /\ diskDir' = [diskDir EXCEPT !["keys"] = i]
        /\ data' = [data EXCEPT ![i] = Whole(e)]
        /\ diskData' = [diskData EXCEPT ![i] = Whole(e)]
  BY <1>2 DEF OwnerEdit, e
<1>6. /\ i \in Inode /\ i # dir["tmp"] /\ i # diskDir["tmp"]
      /\ \A w \in Writer : i # fd[w]
  BY <1>5 DEF Free, Name
<1>7. /\ dir'["keys"] = i /\ diskDir'["keys"] = i
      /\ dir'["tmp"] = dir["tmp"] /\ diskDir'["tmp"] = diskDir["tmp"]
      /\ data'[i] = Whole(e) /\ diskData'[i] = Whole(e)
  BY <1>5, <1>6 DEF IInv, TypeOK, Name
<1>8. /\ edits' = edits + 1
      /\ quiet' = IF \E w \in Writer : UnderWay(w) THEN quiet ELSE edits + 1
      /\ UNCHANGED <<pc, fd, out, offset, updates, acked>>
  BY DEF OwnerEdit
<1>9. TypeOK' /\ NeverMissing'
  BY TypeStep DEF IInv, Next
<1>10. e.edit >= quiet' /\ e.update >= acked' /\ quiet' <= edits'
  BY <1>1, <1>3, <1>4, <1>8
<1>11. KeysSafe'
  BY <1>4, <1>7, <1>10 DEF KeysSafe, Safe, Latest
<1>12. TmpApart'
  BY <1>6, <1>7 DEF TmpApart
<1>13. ASSUME NEW w \in Writer
       PROVE  OpenApart(w)' /\ Written_so_far(w)' /\ OutIsNew(w)' /\ InPlace(w)'
  <2>1. OpenApart(w)'
    BY <1>6, <1>7, <1>8 DEF IInv, OpenApart
  <2>2. Written_so_far(w)'
    <3>1. pc[w] \in {"write", "rename"} =>
            data'[fd[w]] = data[fd[w]] /\ diskData'[fd[w]] = diskData[fd[w]]
      BY <1>5, <1>6 DEF IInv, OpenApart, TypeOK
    <3> QED
      BY <1>8, <3>1 DEF IInv, Written_so_far
  <2>3. OutIsNew(w)'
    BY <1>8 DEF IInv, OutIsNew, UnderWay
  <2>4. InPlace(w)'
    <3>1. pc[w] \in {"sync_dir", "chmod"} => v.update >= out[w].update
      BY <1>1, SameVersion DEF IInv, InPlace, Has
    <3>2. pc[w] \in {"sync_dir", "chmod"} => e.update >= out[w].update
      BY <1>4, <3>1
    <3> QED
      BY <1>4, <1>7, <1>8, <3>2 DEF InPlace, Has
  <2> QED
    BY <2>1, <2>2, <2>3, <2>4
<1> QED
  BY <1>8, <1>9, <1>10, <1>11, <1>12, <1>13 DEF IInv, OneWriter

\* Without its temporary file an update can only fail.
LEMMA OwnerRemovesTmpStep ==
    ASSUME IInv, OwnerRemovesTmp
    PROVE  IInv'
<1>1. /\ dir'["keys"] = dir["keys"] /\ dir'["tmp"] = NoInode
      /\ UNCHANGED <<diskDir, data, diskData, pc, fd, out, offset, updates, edits, acked, quiet>>
  BY DEF OwnerRemovesTmp, IInv, TypeOK, Name
<1>2. TypeOK' /\ NeverMissing'
  BY TypeStep DEF IInv, Next
<1>3. KeysSafe' /\ TmpApart'
  BY <1>1, <1>2 DEF IInv, KeysSafe, Safe, Latest, TmpApart, NeverMissing
<1>4. ASSUME NEW w \in Writer
      PROVE  OpenApart(w)' /\ Written_so_far(w)' /\ OutIsNew(w)' /\ InPlace(w)'
  BY <1>1 DEF IInv, OpenApart, Written_so_far, OutIsNew, UnderWay, InPlace, Has
<1> QED
  BY <1>1, <1>2, <1>3, <1>4 DEF IInv, OneWriter

\* What the directory names is safe on the disk already.
LEMMA WriteBackDirStep ==
    ASSUME IInv, WriteBackDir
    PROVE  IInv'
<1>1. /\ diskDir' = dir
      /\ UNCHANGED <<dir, data, diskData, pc, fd, out, offset, updates, edits, acked, quiet>>
  BY DEF WriteBackDir
<1>2. TypeOK' /\ NeverMissing'
  BY TypeStep DEF IInv, Next
<1>3. KeysSafe' /\ TmpApart'
  BY <1>1 DEF IInv, KeysSafe, Safe, Latest, TmpApart
<1>4. ASSUME NEW w \in Writer
      PROVE  OpenApart(w)' /\ Written_so_far(w)' /\ OutIsNew(w)' /\ InPlace(w)'
  BY <1>1 DEF IInv, OpenApart, Written_so_far, OutIsNew, UnderWay, InPlace, Has
<1> QED
  BY <1>1, <1>2, <1>3, <1>4 DEF IInv, OneWriter

\* The file that the disk names loses nothing.
LEMMA PowerFailureStep ==
    ASSUME IInv, PowerFailure
    PROVE  IInv'
<1>1. /\ dir' = diskDir /\ diskDir' = diskDir /\ diskData' = data'
      /\ \A w \in Writer : pc'[w] = "idle"
      /\ UNCHANGED <<out, updates, edits, acked, quiet>>
  BY DEF PowerFailure
<1>2. data'[diskDir["keys"]] = data[diskDir["keys"]]
  <2>1. diskDir["keys"] \in Inode /\ diskDir["keys"] \notin Dirty
    BY DEF IInv, TypeOK, NeverMissing, Name, KeysSafe, Safe, Dirty
  <2> QED
    BY <2>1 DEF PowerFailure
<1>3. TypeOK' /\ NeverMissing'
  BY TypeStep DEF IInv, Next
<1>4. KeysSafe' /\ TmpApart'
  BY <1>1, <1>2 DEF IInv, KeysSafe, Safe, Latest, TmpApart
<1>5. ASSUME NEW w \in Writer
      PROVE  OpenApart(w)' /\ Written_so_far(w)' /\ OutIsNew(w)' /\ InPlace(w)'
  BY <1>1 DEF IInv, OpenApart, Written_so_far, OutIsNew, UnderWay, InPlace
<1> QED
  BY <1>1, <1>3, <1>4, <1>5 DEF IInv, OneWriter

\* Every step keeps the invariant.
LEMMA InvStep == IInv /\ [Next]_vars => IInv'
<1> SUFFICES ASSUME IInv, [Next]_vars PROVE IInv'
  OBVIOUS
<1>1. CASE UNCHANGED vars
  BY <1>1 DEF vars, IInv, OneWriter, TypeOK, NeverMissing, KeysSafe, Safe, Latest, TmpApart,
              OpenApart, Written_so_far, OutIsNew, UnderWay, InPlace, Has
<1>2. ASSUME NEW w \in Writer, RenameFails(w) \/ Abandon(w) PROVE IInv'
  BY <1>2, StopStep DEF RenameFails, Abandon
<1> QED
  BY <1>1, <1>2, ReadStep, OpenStep, WriteStep, SyncFileStep, RenameStep, SyncDirStep,
     ChmodStep, OwnerEditStep, OwnerRemovesTmpStep, WriteBackDirStep, PowerFailureStep
     DEF Next

\* The three promises follow from the invariant.
LEMMA InvIsSafe == IInv => NeverTorn /\ AckedSurvives /\ EditsKept
<1> SUFFICES ASSUME IInv PROVE NeverTorn /\ AckedSurvives /\ EditsKept
  OBVIOUS
<1>1. PICK u \in Version : data[dir["keys"]] = Whole(u) /\ u.update >= acked /\ u.edit >= quiet
  BY DEF IInv, KeysSafe, Safe, Latest
<1>2. PICK v \in Version : /\ diskData[diskDir["keys"]] = Whole(v)
                           /\ v.update >= acked /\ v.edit >= quiet
  BY DEF IInv, KeysSafe, Safe, Latest
<1> QED
  BY <1>1, <1>2, WholeIsUnique DEF NeverTorn, AckedSurvives, EditsKept

\* With one writer the invariant always holds.
LEMMA AlwaysInv == OneWriter /\ Spec => []IInv
<1>1. OneWriter /\ Init => IInv
  BY InvInit
<1>2. IInv /\ [Next]_vars => IInv'
  BY InvStep
<1> QED
  BY <1>1, <1>2, PTL DEF Spec

\* As long as one process at a time updates the file (authorized_keys.rs takes
\* no lock, so nothing but the number of processes ensures it), the write,
\* sync, rename, sync sequence of atomic_write never shows a reader anything
\* but a whole version, whatever dies or fails in between.
THEOREM OneWriterNeverTears == OneWriter /\ Spec => []NeverTorn
BY AlwaysInv, InvIsSafe, PTL

\* Then an update for which apply_managed_block_to_file returned Ok is in the
\* file ever after, also behind power failures.
THEOREM OneWriterIsDurable == OneWriter /\ Spec => []AckedSurvives
BY AlwaysInv, InvIsSafe, PTL

\* And so is what the owner saved between two updates: every update reads the
\* file anew before it replaces it.
THEOREM OneWriterKeepsEdits == OneWriter /\ Spec => []EditsKept
BY AlwaysInv, InvIsSafe, PTL

-----------------------------------------------------------------------------
(* The refinement of AtomicFile, for one writer                            *)

\* The mapping gives the whole versions that a reader finds and that are on
\* the disk.
Mapped ==
    /\ Current \in Version /\ data[dir["keys"]] = Whole(Current)
    /\ OnDisk \in Version /\ diskData[diskDir["keys"]] = Whole(OnDisk)

\* With the invariant both are there.
LEMMA MappingIsWhole == IInv => Mapped
<1> SUFFICES ASSUME IInv PROVE Mapped
  OBVIOUS
<1>1. PICK u \in Version : data[dir["keys"]] = Whole(u)
  BY DEF IInv, KeysSafe, Safe, Latest
<1>2. PICK v \in Version : diskData[diskDir["keys"]] = Whole(v)
  BY DEF IInv, KeysSafe, Safe, Latest
<1>3. Current = u
  BY <1>1, WholeIsUnique DEF Current, NeverTorn
<1>4. OnDisk = v
  BY <1>2, WholeIsUnique DEF OnDisk
<1> QED
  BY <1>1, <1>2, <1>3, <1>4 DEF Mapped

\* The steps of an update before its rename and after the directory's sync
\* touch neither of them.
LEMMA WriterKeeps ==
    ASSUME IInv, NEW w \in Writer,
           \/ Read(w) \/ OpenTmp(w) \/ Write(w) \/ SyncFile(w) \/ Chmod(w)
           \/ RenameFails(w) \/ Abandon(w)
    PROVE  /\ data'[dir'["keys"]] = data[dir["keys"]]
           /\ diskData'[diskDir'["keys"]] = diskData[diskDir["keys"]]
<1>1. CASE Read(w)
  BY <1>1 DEF Read
<1>2. CASE OpenTmp(w)
  <2>1. PICK i \in IF dir["tmp"] = NoInode THEN Free ELSE {dir["tmp"]} :
            /\ dir' = [dir EXCEPT !["tmp"] = i]
            /\ data' = [data EXCEPT ![i] = <<>>]
    BY <1>2 DEF OpenTmp
  <2>2. i # dir["keys"]
    BY <2>1 DEF Free, IInv, TmpApart, Name
  <2> QED
    BY <1>2, <2>1, <2>2 DEF OpenTmp, IInv, TypeOK, NeverMissing, Name
<1>3. CASE Write(w)
  <2>1. fd[w] # dir["keys"]
    BY <1>3 DEF Write, IInv, OpenApart
  <2> QED
    BY <1>3, <2>1 DEF Write, IInv, TypeOK, NeverMissing, Name
<1>4. CASE SyncFile(w)
  <2>1. fd[w] # diskDir["keys"]
    BY <1>4 DEF SyncFile, IInv, OpenApart
  <2> QED
    BY <1>4, <2>1 DEF SyncFile, IInv, TypeOK, NeverMissing, Name
<1>5. CASE Chmod(w)
  BY <1>5 DEF Chmod, Ok
<1>6. CASE RenameFails(w) \/ Abandon(w)
  BY <1>6 DEF RenameFails, Abandon, Stop
<1> QED
  BY <1>1, <1>2, <1>3, <1>4, <1>5, <1>6

\* A step that touches neither is a stutter of AtomicFile.
LEMMA Stutters ==
    ASSUME data'[dir'["keys"]] = data[dir["keys"]],
           diskData'[diskDir'["keys"]] = diskData[diskDir["keys"]]
    PROVE  UNCHANGED File!vars
<1>1. Current' = Current
  BY DEF Current, NeverTorn, Torn, IsWhole, VersionIn
<1>2. OnDisk' = OnDisk
  BY DEF OnDisk, Torn, IsWhole, VersionIn
<1> QED
  BY <1>1, <1>2 DEF File!vars

\* An initial state is one of AtomicFile.
LEMMA RefinedInit == IInv /\ Init => File!Init
<1> SUFFICES ASSUME IInv, Init PROVE File!Init
  OBVIOUS
<1>1. data[dir["keys"]] = diskData[diskDir["keys"]]
  BY DEF Init
<1>2. Current = OnDisk
  BY <1>1, MappingIsWhole, SameVersion DEF Mapped
<1> QED
  BY <1>2, MappingIsWhole DEF Mapped, File!Init

\* Renames and edits replace the version, syncs of the directory persist it.
LEMMA RefinedStep == IInv /\ Mapped /\ Mapped' /\ [Next]_vars => [File!Next]_(File!vars)
<1> SUFFICES ASSUME IInv, Mapped, Mapped', [Next]_vars PROVE File!Next \/ UNCHANGED File!vars
  OBVIOUS
<1>m. /\ Current \in Version /\ data[dir["keys"]] = Whole(Current)
      /\ OnDisk \in Version /\ diskData[diskDir["keys"]] = Whole(OnDisk)
  BY DEF Mapped
<1>n. /\ Current' \in Version /\ data'[dir'["keys"]] = Whole(Current')
      /\ OnDisk' \in Version /\ diskData'[diskDir'["keys"]] = Whole(OnDisk')
  BY DEF Mapped
<1>1. ASSUME NEW w \in Writer, Rename(w) PROVE File!Next
  <2>1. OnDisk' = OnDisk
    <3>1. diskData'[diskDir'["keys"]] = diskData[diskDir["keys"]]
      BY <1>1 DEF Rename
    <3> QED
      BY <1>m, <1>n, <3>1, SameVersion
  <2> QED
    BY <1>n, <2>1 DEF File!Next, File!Replace
<1>2. ASSUME (\E w \in Writer : SyncDir(w)) \/ WriteBackDir PROVE File!Next
  <2>1. diskDir' = dir /\ UNCHANGED <<dir, data, diskData>>
    BY <1>2 DEF SyncDir, WriteBackDir
  <2>2. diskData[dir["keys"]] = data[dir["keys"]]
    BY DEF IInv, KeysSafe, Safe
  <2>3. Current' = Current /\ OnDisk' = Current
    BY <1>m, <1>n, <2>1, <2>2, SameVersion
  <2> QED
    BY <2>3 DEF File!Next, File!Persist
<1>3. CASE OwnerEdit
  <2>1. data'[dir'["keys"]] = diskData'[diskDir'["keys"]]
    BY <1>3 DEF OwnerEdit, Free, IInv, TypeOK, Name
  <2>2. OnDisk' = Current'
    BY <1>n, <2>1, SameVersion
  <2> QED
    BY <1>n, <2>2 DEF File!Next, File!Replace
<1>4. CASE PowerFailure
  <2>1. dir' = diskDir /\ diskDir' = diskDir /\ diskData' = data'
    BY <1>4 DEF PowerFailure
  <2>2. diskDir["keys"] \in Inode /\ diskDir["keys"] \notin Dirty
    BY DEF IInv, TypeOK, NeverMissing, Name, KeysSafe, Safe, Dirty
  <2>3. data'[diskDir["keys"]] = data[diskDir["keys"]]
    BY <1>4, <2>2 DEF PowerFailure
  <2>4. data[diskDir["keys"]] = diskData[diskDir["keys"]]
    BY DEF IInv, KeysSafe, Safe
  <2>5. Current' = OnDisk /\ OnDisk' = Current'
    BY <1>m, <1>n, <2>1, <2>3, <2>4, SameVersion
  <2> QED
    BY <2>5 DEF File!Next, File!PowerFailure
<1>5. CASE OwnerRemovesTmp
  <2>1. dir'["keys"] = dir["keys"] /\ UNCHANGED <<diskDir, data, diskData>>
    BY <1>5 DEF OwnerRemovesTmp, IInv, TypeOK, Name
  <2> QED
    BY <2>1, Stutters
<1>6. CASE UNCHANGED vars
  BY <1>6, Stutters DEF vars
<1> QED
  BY <1>1, <1>2, <1>3, <1>4, <1>5, <1>6, WriterKeeps, Stutters DEF Next

\* With one process updating the file, the system calls of atomic_write, the
\* owner's edits, deaths of processes and power failures implement AtomicFile,
\* whatever the number of pieces a version is written in.
THEOREM OneWriterIsAtomic == OneWriter /\ Spec => ImplementsAtomicFile
<1>1. IInv /\ Init => File!Init
  BY RefinedInit
<1>2. IInv /\ Mapped /\ Mapped' /\ [Next]_vars => [File!Next]_(File!vars)
  BY RefinedStep
<1> QED
  BY <1>1, <1>2, AlwaysInv, MappingIsWhole, PTL DEF Spec, ImplementsAtomicFile, File!Spec
-----------------------------------------------------------------------------
(* The mode of the file, for one writer.  AckedPrivate needs to know that  *)
(* what replaces the file is newer than every acknowledged update.         *)

\* The update under way has not been acknowledged.
Fresh(w) == UnderWay(w) => out[w].update > acked

\* The mode of an acknowledged update is set, whichever whole version is in
\* the file.
ModeSet ==
    failures = 0 =>
        \A v \in Version :
            (data[dir["keys"]] = Whole(v) /\ v.update = acked /\ acked > 0)
            => dir["keys"] \in private

ModeInv == ModeSet /\ \A w \in Writer : Fresh(w)

\* Nothing is under way, and nothing acknowledged, at the start.
LEMMA ModeInit == Init => ModeInv
<1> SUFFICES ASSUME Init PROVE ModeInv
  OBVIOUS
<1>1. ModeSet
  BY DEF Init, ModeSet
<1> QED
  BY <1>1 DEF Init, ModeInv, Fresh, UnderWay

\* A step that leaves the file, its mode and what is acknowledged alone keeps
\* the mode set.
LEMMA ModeKept ==
    ASSUME ModeSet, failures' = failures, acked' = acked, dir'["keys"] = dir["keys"],
           data'[dir["keys"]] = data[dir["keys"]],
           dir["keys"] \in private => dir["keys"] \in private'
    PROVE  ModeSet'
BY DEF ModeSet

\* The steps of an update up to its rename and its last one keep the mode.
LEMMA ModeWriter ==
    ASSUME IInv, ModeInv, NEW w \in Writer,
           \/ Read(w) \/ OpenTmp(w) \/ Write(w) \/ SyncFile(w) \/ Rename(w)
           \/ SyncDir(w) \/ Chmod(w) \/ RenameFails(w) \/ Abandon(w)
    PROVE  ModeInv'
<1>t. /\ updates \in Nat /\ acked \in Nat /\ acked <= updates
      /\ dir["keys"] \in Inode /\ out[w] \in Version /\ out[w].update \in Nat
      /\ \A v \in Writer : v = w
  BY BoundAssumption DEF IInv, TypeOK, NeverMissing, Name, Version, OneWriter
<1>1. CASE Read(w)
  <2>1. out'[w].update = updates + 1 /\ acked' = acked
    BY <1>1 DEF Read, IInv, TypeOK
  <2>2. ModeSet'
    BY <1>1, ModeKept DEF Read, ModeInv
  <2>3. Fresh(w)'
    BY <1>t, <2>1 DEF Fresh
  <2> QED
    BY <1>t, <2>2, <2>3 DEF ModeInv
<1>2. CASE OpenTmp(w)
  <2>1. PICK i \in IF dir["tmp"] = NoInode THEN Free ELSE {dir["tmp"]} :
            /\ dir' = [dir EXCEPT !["tmp"] = i]
            /\ data' = [data EXCEPT ![i] = <<>>]
            /\ private' = IF dir["tmp"] = NoInode THEN private \ {i} ELSE private
    BY <1>2 DEF OpenTmp
  <2>2. i # dir["keys"]
    BY <2>1 DEF Free, IInv, TmpApart, Name
  <2>3. /\ dir'["keys"] = dir["keys"] /\ data'[dir["keys"]] = data[dir["keys"]]
        /\ dir["keys"] \in private => dir["keys"] \in private'
    BY <1>t, <2>1, <2>2 DEF IInv, TypeOK, Name
  <2>4. ModeSet'
    BY <1>2, <2>3, ModeKept DEF OpenTmp, ModeInv
  <2> QED
    BY <1>2, <1>t, <2>4 DEF OpenTmp, ModeInv, Fresh, UnderWay
<1>3. CASE Write(w) \/ SyncFile(w)
  <2>1. /\ dir' = dir /\ data'[dir["keys"]] = data[dir["keys"]]
        /\ UNCHANGED <<failures, acked, private, out>>
    BY <1>3, WriterKeeps DEF Write, SyncFile
  <2>2. ModeSet'
    BY <2>1, ModeKept DEF ModeInv
  <2> QED
    BY <1>3, <1>t, <2>1, <2>2 DEF Write, SyncFile, ModeInv, Fresh, UnderWay
<1>4. CASE Rename(w)
  <2>1. /\ pc[w] = "rename" /\ dir["tmp"] = fd[w] /\ data[fd[w]] = Whole(out[w])
        /\ out[w].update > acked
    BY <1>4 DEF Rename, IInv, OpenApart, Written_so_far, ModeInv, Fresh, UnderWay
  <2>2. dir'["keys"] = fd[w] /\ UNCHANGED <<data, acked, out>> /\ pc'[w] = "sync_dir"
    BY <1>4, <2>1 DEF Rename, IInv, TypeOK, Name
  <2>3. \A v \in Version : data'[dir'["keys"]] = Whole(v) => v.update > acked'
    BY <1>t, <2>1, <2>2, SameVersion
  <2>4. ModeSet'
    BY <1>t, <2>2, <2>3 DEF ModeSet, Version
  <2> QED
    BY <1>t, <2>2, <2>4 DEF ModeInv, Fresh, UnderWay
<1>5. CASE SyncDir(w) \/ RenameFails(w) \/ Abandon(w)
  <2>1. /\ UNCHANGED <<dir, data, failures, acked, private>>
        /\ pc'[w] \in {"chmod", "idle"}
    BY <1>5 DEF SyncDir, RenameFails, Abandon, Stop, IInv, TypeOK
  <2>2. ModeSet'
    BY <2>1, ModeKept DEF ModeInv
  <2> QED
    BY <1>t, <2>1, <2>2 DEF ModeInv, Fresh, UnderWay
<1>6. CASE Chmod(w)
  <2>1. dir'["keys"] \in private' /\ pc'[w] = "idle"
    BY <1>6 DEF Chmod, Ok, IInv, TypeOK
  <2> QED
    BY <1>t, <2>1 DEF ModeInv, ModeSet, Fresh, UnderWay
<1> QED
  BY <1>1, <1>2, <1>3, <1>4, <1>5, <1>6

\* So does the owner's editor, which gives its file the mode of the old one.
LEMMA ModeOwner ==
    ASSUME IInv, ModeInv, OwnerEdit
    PROVE  ModeInv'
<1>1. PICK v \in Version : data[dir["keys"]] = Whole(v)
  BY DEF IInv, KeysSafe, Safe, Latest
<1> DEFINE e == [edit |-> edits + 1, update |-> v.update]
<1>2. edits + 1 \in 0 .. MaxEdits /\ v.update \in 0 .. MaxUpdates
  BY BoundAssumption DEF OwnerEdit, IInv, TypeOK, Version
<1>3. e \in Version /\ e.update = v.update
  BY <1>2 DEF Version
<1>4. VersionIn(data[dir["keys"]]) = v
  BY <1>1, WholeIsUnique
<1> HIDE DEF e
<1>5. PICK i \in Free :
        /\ dir' = [dir EXCEPT !["keys"] = i]
        /\ data' = [data EXCEPT ![i] = Whole(e)]
        /\ private' = IF dir["keys"] \in private THEN private \cup {i} ELSE private \ {i}
  BY <1>4 DEF OwnerEdit, e
<1>6. /\ dir'["keys"] = i /\ data'[i] = Whole(e)
      /\ dir["keys"] \in private => i \in private'
  BY <1>5 DEF Free, IInv, TypeOK, Name
<1>7. UNCHANGED <<pc, out, acked, failures>>
  BY DEF OwnerEdit
<1>8. \A u \in Version : data'[dir'["keys"]] = Whole(u) => u.update = v.update
  BY <1>3, <1>6, SameVersion
<1>9. ModeSet'
  BY <1>1, <1>6, <1>7, <1>8 DEF ModeInv, ModeSet
<1> QED
  BY <1>7, <1>9 DEF ModeInv, Fresh, UnderWay

\* Every step keeps the mode set.
LEMMA ModeStep == IInv /\ ModeInv /\ [Next]_vars => ModeInv'
<1> SUFFICES ASSUME IInv, ModeInv, [Next]_vars PROVE ModeInv'
  OBVIOUS
<1>1. CASE OwnerRemovesTmp \/ WriteBackDir \/ UNCHANGED vars
  <2>1. dir'["keys"] = dir["keys"] /\ UNCHANGED <<data, failures, acked, private, out, pc>>
    BY <1>1 DEF OwnerRemovesTmp, WriteBackDir, vars, IInv, TypeOK, Name
  <2>2. ModeSet'
    BY <2>1, ModeKept DEF ModeInv
  <2> QED
    BY <2>1, <2>2 DEF ModeInv, Fresh, UnderWay
<1>2. CASE PowerFailure
  <2>1. failures' # 0 /\ \A w \in Writer : pc'[w] = "idle"
    BY <1>2 DEF PowerFailure, IInv, TypeOK
  <2> QED
    BY <2>1 DEF ModeInv, ModeSet, Fresh, UnderWay
<1> QED
  BY <1>1, <1>2, ModeWriter, ModeOwner DEF Next

\* As long as one process at a time updates the file and the power does not
\* fail, the file with the latest acknowledged update has mode 600, although
\* it was made from a temporary file of another mode: the update returns Ok
\* only behind set_authorized_keys_permissions, the next one is renamed as a
\* newer version, and the owner's editor keeps the mode.
THEOREM OneWriterIsPrivate == OneWriter /\ Spec => []AckedPrivate
<1>1. IInv /\ ModeInv => AckedPrivate
  <2> SUFFICES ASSUME IInv, ModeInv PROVE AckedPrivate
    OBVIOUS
  <2>1. PICK v \in Version : data[dir["keys"]] = Whole(v)
    BY DEF IInv, KeysSafe, Safe, Latest
  <2> QED
    BY <2>1, WholeIsUnique DEF ModeInv, ModeSet, AckedPrivate
<1>2. Init => ModeInv
  BY ModeInit
<1>3. IInv /\ ModeInv /\ [Next]_vars => ModeInv'
  BY ModeStep
<1> QED
  BY <1>1, <1>2, <1>3, AlwaysInv, PTL DEF Spec

=============================================================================
