---------------------------- MODULE S3Temp_proofs ---------------------------
(***************************************************************************)
(* Proofs about S3Temp, for all sets of buffers, values, readers, keys and *)
(* goroutines and every bound on the number of writes.                     *)
(***************************************************************************)
EXTENDS S3Temp, TLAPS

-----------------------------------------------------------------------------
(***************************************************************************)
(* Lemmas about the buffer, which only ever grows at its end.              *)
(***************************************************************************)

\* Appending leaves what was there (tempfs.go:29-34).
LEMMA AppendGrows ==
    ASSUME NEW s \in Seq(Value), NEW v \in Value
    PROVE  /\ Append(s, v) \in Seq(Value)
           /\ Len(Append(s, v)) = Len(s) + 1
           /\ \A i \in 1..Len(s) : Append(s, v)[i] = s[i]
OBVIOUS

\* A prefix of a buffer stays one when the buffer grows.
LEMMA PrefixGrows ==
    ASSUME NEW s \in Seq(Value), NEW t \in Seq(Value), NEW v \in Value,
           IsPrefixOf(s, t)
    PROVE  IsPrefixOf(s, Append(t, v))
BY AppendGrows DEF IsPrefixOf

\* A snapshot is a prefix of the buffer it was taken from (tempfs.go:59-65).
LEMMA PrefixSelf ==
    ASSUME NEW s \in Seq(Value)
    PROVE  IsPrefixOf(s, s)
BY DEF IsPrefixOf

\* What one Read copies out of the buffer (tempfs.go:39-49).
LEMMA CopyOut ==
    ASSUME NEW s \in Seq(Value), NEW p \in Nat, NEW n \in 1..(Len(s) - p)
    PROVE  /\ SubSeq(s, p + 1, p + n) \in Seq(Value)
           /\ Len(SubSeq(s, p + 1, p + n)) = n
           /\ \A i \in 1..n : SubSeq(s, p + 1, p + n)[i] = s[p + i]
<1>1. n \in Nat /\ Len(s) \in Nat /\ p + n <= Len(s) /\ p + n \in Nat
  OBVIOUS
<1>2. Len(SubSeq(s, p + 1, p + n)) = n
  BY <1>1
<1>3. ASSUME NEW i \in 1..n PROVE SubSeq(s, p + 1, p + n)[i] = s[p + i]
  BY <1>1
<1>4. SubSeq(s, p + 1, p + n) \in Seq(Value)
  BY <1>1
<1> QED
  BY <1>2, <1>3, <1>4

\* Concatenation, by its elements.
LEMMA ConcatElements ==
    ASSUME NEW s \in Seq(Value), NEW t \in Seq(Value)
    PROVE  /\ s \o t \in Seq(Value)
           /\ Len(s \o t) = Len(s) + Len(t)
           /\ \A i \in 1..Len(s) : (s \o t)[i] = s[i]
           /\ \A i \in 1..Len(t) : (s \o t)[Len(s) + i] = t[i]
OBVIOUS

\* What a reader has, continued by what lies behind it in the buffer, is still
\* one stretch of the buffer.
LEMMA StretchGrows ==
    ASSUME NEW s \in Seq(Value), NEW g \in Seq(Value), NEW c \in Seq(Value),
           NEW from \in Nat,
           \A i \in 1..Len(g) : g[i] = s[from + i],
           \A i \in 1..Len(c) : c[i] = s[(from + Len(g)) + i]
    PROVE  \A i \in 1..Len(g \o c) : (g \o c)[i] = s[from + i]
<1> SUFFICES ASSUME NEW i \in 1..Len(g \o c)
             PROVE  (g \o c)[i] = s[from + i]
  OBVIOUS
<1>1. CASE i <= Len(g)
  BY <1>1, ConcatElements
<1>2. CASE i > Len(g)
  <2> DEFINE j == i - Len(g)
  <2>0. Len(g \o c) = Len(g) + Len(c)
    BY ConcatElements
  <2>1. j \in 1..Len(c) /\ i = Len(g) + j
    BY <1>2, <2>0
  <2> HIDE DEF j
  <2>2. (g \o c)[i] = c[j]
    BY <2>1, ConcatElements
  <2>3. (from + Len(g)) + j = from + i
    BY <2>1
  <2> QED
    BY <2>2, <2>3
<1> QED
  BY <1>1, <1>2, ConcatElements

\* One Read extends the stretch by n.
LEMMA ReadStretch ==
    ASSUME NEW s \in Seq(Value), NEW g \in Seq(Value), NEW from \in Nat,
           NEW p \in Nat, p = from + Len(g),
           NEW n \in 1..(Len(s) - p),
           \A i \in 1..Len(g) : g[i] = s[from + i],
           NEW h, h = g \o SubSeq(s, p + 1, p + n)
    PROVE  /\ Len(h) = Len(g) + n
           /\ \A i \in 1..Len(h) : h[i] = s[from + i]
<1>1. PICK c : c = SubSeq(s, p + 1, p + n)
  OBVIOUS
<1>2. c \in Seq(Value) /\ Len(c) = n /\ \A i \in 1..n : c[i] = s[p + i]
  BY <1>1, CopyOut
<1>3. Len(g \o c) = Len(g) + n
  BY <1>2, ConcatElements
<1>4. \A i \in 1..Len(g \o c) : (g \o c)[i] = s[from + i]
  BY <1>2, StretchGrows
<1> QED
  BY <1>1, <1>3, <1>4

-----------------------------------------------------------------------------
USE TempAssumption

\* Every step keeps the types of the variables.
LEMMA TypeStep ==
    ASSUME TypeOK, HoldersExclusive, [Next]_vars
    PROVE  TypeOK'
<1> USE DEF TypeOK
<1>1. ASSUME NEW b \in Buf, TempFile(b) \/ CloseWriter(b) \/ RemoveTemp(b)
      PROVE  TypeOK'
  BY <1>1 DEF TempFile, CloseWriter, RemoveTemp, readVars, procVars, bucketVars,
              history
<1>2. ASSUME NEW b \in Buf, NEW v \in Value, Write(b, v)
      PROVE  TypeOK'
  BY <1>2 DEF Write, readVars, procVars, bucketVars, history
<1>3. ASSUME NEW r \in Reader, NEW b \in Buf, OpenTemp(r, b)
      PROVE  TypeOK'
  BY <1>3 DEF OpenTemp, procVars, bucketVars, history
<1>4. ASSUME NEW r \in Reader, Read(r)
      PROVE  TypeOK'
  <2>1. rbuf[r] \in Buf /\ rpos[r] \in Nat
    BY <1>4 DEF Read
  <2>2. PICK n \in 1..(Len(data[rbuf[r]]) - rpos[r]) :
          /\ rgot' = [rgot EXCEPT ![r] =
                        @ \o SubSeq(data[rbuf[r]], rpos[r] + 1, rpos[r] + n)]
          /\ rpos' = [rpos EXCEPT ![r] = @ + n]
    BY <1>4 DEF Read
  <2>3. SubSeq(data[rbuf[r]], rpos[r] + 1, rpos[r] + n) \in Seq(Value)
    BY <2>1, CopyOut
  <2>4. rgot[r] \o SubSeq(data[rbuf[r]], rpos[r] + 1, rpos[r] + n) \in Seq(Value)
    BY <2>3, ConcatElements
  <2>5. rgot' \in [Reader -> Seq(Value)]
    BY <2>2, <2>4
  <2>6. rpos' \in [Reader -> Int]
    BY <2>2
  <2> QED
    BY <1>4, <2>5, <2>6 DEF Read, procVars, bucketVars, history
<1>5. ASSUME NEW r \in Reader, NEW off \in Offsets, Seek(r, off)
      PROVE  TypeOK'
  BY <1>5 DEF Seek, Offsets, procVars, bucketVars, history
<1>6. ASSUME NEW r \in Reader, CloseReader(r)
      PROVE  TypeOK'
  BY <1>6 DEF CloseReader, procVars, bucketVars, history
<1>7. ASSUME NEW p \in Proc, NEW b \in Buf, NEW k \in Key, RenameDetach(p, b, k)
      PROVE  TypeOK'
  BY <1>7 DEF RenameDetach, readVars, bucketVars, history
<1>8. ASSUME NEW p \in Proc,
             RenameSnapshot(p) \/ RenamePut(p) \/ RenamePutFails(p)
      PROVE  TypeOK'
  <2>1. pbuf[p] \in Buf
    BY <1>8 DEF HoldersExclusive, Active, RenameSnapshot, RenamePut,
                RenamePutFails
  <2>2. CASE RenameSnapshot(p)
    BY <2>1, <2>2 DEF RenameSnapshot, readVars, bucketVars, history
  <2>3. CASE RenamePut(p)
    BY <2>1, <2>3 DEF RenamePut, readVars
  <2>4. CASE RenamePutFails(p)
    BY <2>4 DEF RenamePutFails, readVars, bucketVars, history
  <2> QED
    BY <1>8, <2>2, <2>3, <2>4
<1>9. ASSUME NEW k \in Key, RemoveObject(k)
      PROVE  TypeOK'
  BY <1>9 DEF RemoveObject, readVars, procVars, history
<1>10. CASE UNCHANGED vars
  BY <1>10 DEF vars, readVars, procVars, bucketVars, history
<1> QED
  BY <1>1, <1>2, <1>3, <1>4, <1>5, <1>6, <1>7, <1>8, <1>9, <1>10
     DEF Next, WriterStep, ReaderStep, ProcStep

\* The readers' steps and the ones that change no handle leave the registry,
\* the writers, the Rename calls and the history alone.
LEMMA HoldersStep ==
    ASSUME TypeOK, HoldersExclusive, OneTaker, [Next]_vars
    PROVE  HoldersExclusive' /\ OneTaker'
<1> USE DEF TypeOK, HoldersExclusive, OneTaker, Untouched, Active
<1>1. ASSUME NEW b \in Buf, TempFile(b)
      PROVE  HoldersExclusive' /\ OneTaker'
  BY <1>1 DEF TempFile, procVars, history
<1>2. ASSUME NEW b \in Buf, CloseWriter(b)
      PROVE  HoldersExclusive' /\ OneTaker'
  BY <1>2 DEF CloseWriter, procVars, history
<1>3. ASSUME NEW b \in Buf, RemoveTemp(b)
      PROVE  HoldersExclusive' /\ OneTaker'
  BY <1>3 DEF RemoveTemp, procVars
<1>4. ASSUME NEW p \in Proc, NEW b \in Buf, NEW k \in Key, RenameDetach(p, b, k)
      PROVE  HoldersExclusive' /\ OneTaker'
  BY <1>4 DEF RenameDetach, history
<1>5. ASSUME NEW p \in Proc, RenameSnapshot(p)
      PROVE  HoldersExclusive' /\ OneTaker'
  BY <1>5 DEF RenameSnapshot, history
<1>6. ASSUME NEW p \in Proc, RenamePut(p)
      PROVE  HoldersExclusive' /\ OneTaker'
  BY <1>6 DEF RenamePut
<1>7. ASSUME NEW p \in Proc, RenamePutFails(p)
      PROVE  HoldersExclusive' /\ OneTaker'
  BY <1>7 DEF RenamePutFails, history
<1>8. CASE UNCHANGED <<temps, writer, procVars, history>>
  BY <1>8 DEF procVars, history
<1>9. ASSUME NEW b \in Buf, NEW v \in Value, Write(b, v)
      PROVE  UNCHANGED <<temps, writer, procVars, history>>
  BY <1>9 DEF Write
<1>10. ASSUME NEW r \in Reader, ReaderStep(r)
       PROVE  UNCHANGED <<temps, writer, procVars, history>>
  BY <1>10 DEF ReaderStep, OpenTemp, Read, Seek, CloseReader
<1>11. ASSUME NEW k \in Key, RemoveObject(k)
       PROVE  UNCHANGED <<temps, writer, procVars, history>>
  BY <1>11 DEF RemoveObject
<1> QED
  BY <1>1, <1>2, <1>3, <1>4, <1>5, <1>6, <1>7, <1>8, <1>9, <1>10, <1>11
     DEF Next, WriterStep, ProcStep, vars

\* Writes reach the snapshot of a Rename and the uploaded objects only as
\* growth of the buffer they came from, and not at all once it is closed.
LEMMA WrittenStep ==
    ASSUME TypeOK, HoldersExclusive, SnapshotsWritten, ObjectsWritten,
           [Next]_vars
    PROVE  SnapshotsWritten' /\ ObjectsWritten'
<1> USE DEF TypeOK
<1>1. ASSUME NEW b \in Buf, NEW v \in Value, Write(b, v)
      PROVE  SnapshotsWritten' /\ ObjectsWritten'
  <2>1. /\ writer[b] = "open" /\ data' = [data EXCEPT ![b] = Append(@, v)]
        /\ UNCHANGED <<writer, pc, pbuf, pdata, psealed, obuf, odata, osealed>>
    BY <1>1 DEF Write, procVars, bucketVars
  <2>2. ASSUME NEW s \in Seq(Value), NEW c \in Buf, IsPrefixOf(s, data[c])
        PROVE  IsPrefixOf(s, data'[c])
    BY <2>1, <2>2, PrefixGrows
  <2>3. \A c \in Buf : writer[c] = "closed" => data'[c] = data[c]
    BY <2>1
  <2>4. SnapshotsWritten'
    BY <2>1, <2>2, <2>3 DEF SnapshotsWritten, HoldersExclusive, Active
  <2>5. ObjectsWritten'
    BY <2>1, <2>2, <2>3 DEF ObjectsWritten
  <2> QED
    BY <2>4, <2>5
<1>2. ASSUME NEW b \in Buf, TempFile(b) \/ CloseWriter(b) \/ RemoveTemp(b)
      PROVE  SnapshotsWritten' /\ ObjectsWritten'
  <2>1. /\ UNCHANGED <<data, pc, pbuf, pdata, psealed, obuf, odata, osealed>>
        /\ \A c \in Buf : writer[c] = "closed" => writer'[c] = "closed"
    BY <1>2 DEF TempFile, CloseWriter, RemoveTemp, procVars, bucketVars
  <2> QED
    BY <2>1 DEF SnapshotsWritten, ObjectsWritten, HoldersExclusive, Active
<1>3. ASSUME NEW p \in Proc, NEW b \in Buf, NEW k \in Key, RenameDetach(p, b, k)
      PROVE  SnapshotsWritten' /\ ObjectsWritten'
  BY <1>3 DEF RenameDetach, bucketVars, SnapshotsWritten, ObjectsWritten
<1>4. ASSUME NEW p \in Proc, RenameSnapshot(p)
      PROVE  SnapshotsWritten' /\ ObjectsWritten'
  <2>1. pbuf[p] \in Buf
    BY <1>4 DEF RenameSnapshot, HoldersExclusive, Active
  <2>2. IsPrefixOf(data[pbuf[p]], data[pbuf[p]])
    BY <2>1, PrefixSelf
  <2> QED
    BY <1>4, <2>1, <2>2
       DEF RenameSnapshot, bucketVars, SnapshotsWritten, ObjectsWritten
<1>5. ASSUME NEW p \in Proc, RenamePut(p)
      PROVE  SnapshotsWritten' /\ ObjectsWritten'
  BY <1>5 DEF RenamePut, SnapshotsWritten, ObjectsWritten
<1>6. ASSUME NEW p \in Proc, RenamePutFails(p)
      PROVE  SnapshotsWritten' /\ ObjectsWritten'
  BY <1>6 DEF RenamePutFails, bucketVars, SnapshotsWritten, ObjectsWritten
<1>7. ASSUME NEW k \in Key, RemoveObject(k)
      PROVE  SnapshotsWritten' /\ ObjectsWritten'
  BY <1>7 DEF RemoveObject, procVars, SnapshotsWritten, ObjectsWritten
<1>8. CASE UNCHANGED <<data, writer, procVars, bucketVars>>
  BY <1>8 DEF procVars, bucketVars, SnapshotsWritten, ObjectsWritten
<1>9. ASSUME NEW r \in Reader, ReaderStep(r)
      PROVE  UNCHANGED <<data, writer, procVars, bucketVars>>
  BY <1>9 DEF ReaderStep, OpenTemp, Read, Seek, CloseReader
<1> QED
  BY <1>1, <1>2, <1>3, <1>4, <1>5, <1>6, <1>7, <1>8, <1>9
     DEF Next, WriterStep, ProcStep, vars

-----------------------------------------------------------------------------
\* What one reader has been given, as ReaderSeesBuffer says it.
Seen(r) ==
    rbuf[r] # NoBuf =>
        /\ rpos[r] = rfrom[r] + Len(rgot[r])
        /\ rgot[r] # <<>> => rfrom[r] >= 0 /\ rpos[r] <= Len(data[rbuf[r]])
        /\ \A i \in 1..Len(rgot[r]) : rgot[r][i] = data[rbuf[r]][rfrom[r] + i]

\* Neither a Read nor a Write in the middle of a reader's work makes it skip
\* or repeat anything (tempfs.go:39-49, 124-155).
LEMMA ReaderStepSees ==
    ASSUME TypeOK, ReaderSeesBuffer, [Next]_vars
    PROVE  ReaderSeesBuffer'
<1> USE DEF TypeOK
<1> SUFFICES ASSUME NEW q \in Reader, Seen(q)
             PROVE  Seen(q)'
  BY DEF ReaderSeesBuffer, Seen
<1>1. ASSUME NEW b \in Buf, NEW v \in Value, Write(b, v)
      PROVE  Seen(q)'
  <2>1. data' = [data EXCEPT ![b] = Append(@, v)] /\ UNCHANGED readVars
    BY <1>1 DEF Write
  <2>2. CASE rbuf[q] \in Buf
    <3> DEFINE s == data[rbuf[q]]
               t == data'[rbuf[q]]
    <3>1. /\ Len(t) >= Len(s) /\ Len(s) \in Nat /\ Len(t) \in Nat
          /\ \A i \in 1..Len(s) : t[i] = s[i]
      BY <2>1, <2>2, AppendGrows
    <3>2. \A i \in 1..Len(rgot[q]) : rfrom[q] + i \in 1..Len(s)
      BY <2>2 DEF Seen
    <3> QED
      BY <2>1, <2>2, <3>1, <3>2 DEF Seen, readVars
  <2> QED
    BY <2>1, <2>2 DEF Seen, readVars
<1>2. ASSUME NEW r \in Reader, Read(r)
      PROVE  Seen(q)'
  <2>1. rbuf[r] \in Buf /\ rpos[r] \in Nat
    BY <1>2 DEF Read
  <2>2. PICK n \in 1..(Len(data[rbuf[r]]) - rpos[r]) :
          /\ rgot' = [rgot EXCEPT ![r] =
                        @ \o SubSeq(data[rbuf[r]], rpos[r] + 1, rpos[r] + n)]
          /\ rpos' = [rpos EXCEPT ![r] = @ + n]
    BY <1>2 DEF Read
  <2>3. UNCHANGED <<data, rbuf, rfrom>>
    BY <1>2 DEF Read
  <2>4. CASE q # r
    BY <2>2, <2>3, <2>4 DEF Seen
  <2>5. CASE q = r
    <3>1. /\ rpos[r] = rfrom[r] + Len(rgot[r])
          /\ \A i \in 1..Len(rgot[r]) : rgot[r][i] = data[rbuf[r]][rfrom[r] + i]
          /\ rgot[r] # <<>> => rfrom[r] >= 0
      BY <2>1, <2>5 DEF Seen
    <3>2. rfrom[r] \in Nat /\ rpos[r] + n <= Len(data[rbuf[r]])
      BY <2>1, <3>1
    <3>3. /\ Len(rgot'[r]) = Len(rgot[r]) + n
          /\ \A i \in 1..Len(rgot'[r]) : rgot'[r][i] = data[rbuf[r]][rfrom[r] + i]
      <4>1. PICK s, g, h, f, p :
              /\ s = data[rbuf[r]] /\ g = rgot[r] /\ h = rgot'[r]
              /\ f = rfrom[r] /\ p = rpos[r]
        OBVIOUS
      <4>2. s \in Seq(Value) /\ g \in Seq(Value) /\ f \in Nat /\ p \in Nat
        BY <2>1, <3>2, <4>1
      <4>3. /\ n \in 1..(Len(s) - p) /\ p = f + Len(g)
            /\ \A i \in 1..Len(g) : g[i] = s[f + i]
        BY <3>1, <4>1
      <4>4. h = g \o SubSeq(s, p + 1, p + n)
        BY <2>2, <4>1
      <4> HIDE DEF TypeOK
      <4>5. Len(h) = Len(g) + n /\ \A i \in 1..Len(h) : h[i] = s[f + i]
        BY <4>2, <4>3, <4>4, ReadStretch
      <4> QED
        BY <4>1, <4>5
    <3>4. rpos'[r] = rpos[r] + n
      BY <2>2
    <3> QED
      BY <2>3, <2>5, <3>1, <3>2, <3>3, <3>4 DEF Seen
  <2> QED
    BY <2>4, <2>5
<1>3. ASSUME NEW r \in Reader, NEW b \in Buf, OpenTemp(r, b)
      PROVE  Seen(q)'
  BY <1>3 DEF OpenTemp, Seen
<1>4. ASSUME NEW r \in Reader, NEW off \in Offsets, Seek(r, off)
      PROVE  Seen(q)'
  BY <1>4 DEF Seek, Seen, Offsets
<1>5. ASSUME NEW r \in Reader, CloseReader(r)
      PROVE  Seen(q)'
  BY <1>5 DEF CloseReader, Seen
<1>6. CASE UNCHANGED <<data, readVars>>
  BY <1>6 DEF readVars, Seen
<1>7. ASSUME NEW b \in Buf, TempFile(b) \/ CloseWriter(b) \/ RemoveTemp(b)
      PROVE  UNCHANGED <<data, readVars>>
  BY <1>7 DEF TempFile, CloseWriter, RemoveTemp
<1>8. ASSUME NEW p \in Proc, ProcStep(p)
      PROVE  UNCHANGED <<data, readVars>>
  BY <1>8 DEF ProcStep, RenameDetach, RenameSnapshot, RenamePut, RenamePutFails
<1>9. ASSUME NEW k \in Key, RemoveObject(k)
      PROVE  UNCHANGED <<data, readVars>>
  BY <1>9 DEF RemoveObject
<1> QED
  BY <1>1, <1>2, <1>3, <1>4, <1>5, <1>6, <1>7, <1>8, <1>9
     DEF Next, WriterStep, ReaderStep, vars

-----------------------------------------------------------------------------
(***************************************************************************)
(* TempInv is inductive: one holder per buffer, snapshots and objects that *)
(* are what was written, readers that see the buffer (tempfs.go,           *)
(* basic.go:178-218).                                                      *)
(***************************************************************************)
THEOREM TempInvariant == Spec => []TempInv
<1>1. Init => TempInv
  BY DEF Init, TempInv, TypeOK, HoldersExclusive, OneTaker, SnapshotsWritten,
         ObjectsWritten, ReaderSeesBuffer, Untouched, Active
<1>2. TempInv /\ [Next]_vars => TempInv'
  BY TypeStep, HoldersStep, WrittenStep, ReaderStepSees DEF TempInv
<1> QED
  BY <1>1, <1>2, PTL DEF Spec

\* The variables keep their types.
THEOREM TempTypeOK == Spec => []TypeOK
<1>1. TempInv => TypeOK
  BY DEF TempInv
<1> QED
  BY <1>1, TempInvariant, PTL

\* A reader of a temp file gets exactly the stretch of the buffer it moved
\* over, while the writer is still writing it (tempfs.go:124-155).
THEOREM ReaderIsExact == Spec => []ReaderSeesBuffer
<1>1. TempInv => ReaderSeesBuffer
  BY DEF TempInv
<1> QED
  BY <1>1, TempInvariant, PTL

\* What Rename uploads is what was written, all of it when the writer was
\* closed first (basic.go:184-195).
THEOREM PublishedIsExact == Spec => []PublishedIsWritten
<1>1. TempInv => PublishedIsWritten
  BY DEF TempInv, ObjectsWritten, PublishedIsWritten
<1> QED
  BY <1>1, TempInvariant, PTL

\* Rename and Remove never both get one buffer, nor two Renames
\* (tempfs.go:198-207).
THEOREM TakenOnce == Spec => []OneTaker
<1>1. TempInv => OneTaker
  BY DEF TempInv
<1> QED
  BY <1>1, TempInvariant, PTL
=============================================================================
