------------------------------- MODULE S3Temp -------------------------------
(***************************************************************************)
(* Temporary files of s3fs: s3fs/tempfile.go, s3fs/tempfs.go and the parts *)
(* of OpenFile, Rename and Remove (s3fs/basic.go) that look at the temp    *)
(* registry.                                                               *)
(*                                                                         *)
(* A TempFile is a buffer in memory under a fresh random name.  One writer *)
(* appends to it while readers that opened the same name read it back;     *)
(* Rename takes it out of the registry and uploads a snapshot, Remove      *)
(* takes it out and forgets it.  All of this may happen at the same time   *)
(* on different goroutines; a buffer's mutex and tempMu make each step     *)
(* below atomic.  A buffer stands for its random name as well.             *)
(*                                                                         *)
(* The bucket is external: PutObject and DeleteObject may fail, before or  *)
(* after they have taken effect.                                           *)
(***************************************************************************)
EXTENDS Integers, Sequences

CONSTANTS
    Buf,         \* the buffers TempFile can create, with their names
    Value,       \* what a Write can append
    Reader,      \* tempReadFile handles
    Proc,        \* goroutines that call Rename
    Key,         \* final paths
    NoBuf,       \* no buffer
    MaxWrites    \* most writes to one buffer

ASSUME TempAssumption == NoBuf \notin Buf /\ MaxWrites \in Nat

VARIABLES
    temps,       \* the registry: names that still map to their buffer
    data,        \* content of each buffer
    writer,      \* state of each tempWriteFile
    rbuf, rpos,  \* readers: buffer (NoBuf when not open) and cursor
    rfrom, rgot, \* history: cursor after the last Seek, and what Read gave since
    pc, pbuf, pkey, pdata, psealed,   \* Rename calls in flight
    obuf, odata, osealed,             \* the bucket: origin and content of keys
    puts, removed                     \* history: uploads of, Removes of a buffer

readVars == <<rbuf, rpos, rfrom, rgot>>
procVars == <<pc, pbuf, pkey, pdata, psealed>>
bucketVars == <<obuf, odata, osealed>>
history == <<puts, removed>>
vars == <<temps, data, writer, readVars, procVars, bucketVars, history>>

Offsets == -1..(MaxWrites + 1)

TypeOK ==
    /\ temps \subseteq Buf
    /\ data \in [Buf -> Seq(Value)]
    /\ writer \in [Buf -> {"none", "open", "closed"}]
    /\ rbuf \in [Reader -> Buf \cup {NoBuf}]
    /\ rpos \in [Reader -> Int] /\ rfrom \in [Reader -> Int]
    /\ rgot \in [Reader -> Seq(Value)]
    /\ pc \in [Proc -> {"idle", "snapshot", "put"}]
    /\ pbuf \in [Proc -> Buf \cup {NoBuf}]
    /\ pkey \in [Proc -> Key]
    /\ pdata \in [Proc -> Seq(Value)]
    /\ psealed \in [Proc -> BOOLEAN]
    /\ obuf \in [Key -> Buf \cup {NoBuf}]
    /\ odata \in [Key -> Seq(Value)]
    /\ osealed \in [Key -> BOOLEAN]
    /\ puts \in [Buf -> Nat]
    /\ removed \subseteq Buf

Init ==
    /\ temps = {}
    /\ data = [b \in Buf |-> <<>>]
    /\ writer = [b \in Buf |-> "none"]
    /\ rbuf = [r \in Reader |-> NoBuf]
    /\ rpos = [r \in Reader |-> 0] /\ rfrom = [r \in Reader |-> 0]
    /\ rgot = [r \in Reader |-> <<>>]
    /\ pc = [p \in Proc |-> "idle"]
    /\ pbuf = [p \in Proc |-> NoBuf]
    /\ pkey \in [Proc -> Key]
    /\ pdata = [p \in Proc |-> <<>>]
    /\ psealed = [p \in Proc |-> FALSE]
    /\ obuf = [k \in Key |-> NoBuf]
    /\ odata = [k \in Key |-> <<>>]
    /\ osealed = [k \in Key |-> FALSE]
    /\ puts = [b \in Buf |-> 0]
    /\ removed = {}

-----------------------------------------------------------------------------
(***************************************************************************)
(* The writer.                                                             *)
(***************************************************************************)
TempFile(b) ==
    /\ writer[b] = "none"
    /\ temps' = temps \cup {b}
    /\ writer' = [writer EXCEPT ![b] = "open"]
    /\ UNCHANGED <<data, readVars, procVars, bucketVars, history>>

\* Mutant: the closed handle still writes.
Write_AfterClose(b, v) ==
    /\ writer[b] # "none" /\ Len(data[b]) < MaxWrites
    /\ data' = [data EXCEPT ![b] = Append(@, v)]
    /\ UNCHANGED <<temps, writer, readVars, procVars, bucketVars, history>>

\* tempWriteFile.Write: a closed handle gives ErrFileClosed.  The handle keeps
\* its buffer, so writing goes on after Rename or Remove.
Write(b, v) ==
    /\ writer[b] = "open" /\ Len(data[b]) < MaxWrites
    /\ data' = [data EXCEPT ![b] = Append(@, v)]
    /\ UNCHANGED <<temps, writer, readVars, procVars, bucketVars, history>>

CloseWriter(b) ==
    /\ writer[b] = "open"
    /\ writer' = [writer EXCEPT ![b] = "closed"]
    /\ UNCHANGED <<temps, data, readVars, procVars, bucketVars, history>>

-----------------------------------------------------------------------------
(***************************************************************************)
(* Readers.                                                                *)
(***************************************************************************)
\* OpenFile(O_RDONLY) of a registered name: lookupTemp succeeds.
OpenTemp(r, b) ==
    /\ rbuf[r] = NoBuf /\ b \in temps
    /\ rbuf' = [rbuf EXCEPT ![r] = b]
    /\ rpos' = [rpos EXCEPT ![r] = 0]
    /\ rfrom' = [rfrom EXCEPT ![r] = 0]
    /\ rgot' = [rgot EXCEPT ![r] = <<>>]
    /\ UNCHANGED <<temps, data, writer, procVars, bucketVars, history>>

\* Mutant: the cursor is set to the end of the buffer after a read.
Read_ToEnd(r) ==
    /\ rbuf[r] # NoBuf /\ rpos[r] >= 0
    /\ \E n \in 1..(Len(data[rbuf[r]]) - rpos[r]) :
          /\ rgot' = [rgot EXCEPT ![r] =
                        @ \o SubSeq(data[rbuf[r]], rpos[r] + 1, rpos[r] + n)]
          /\ rpos' = [rpos EXCEPT ![r] = Len(data[rbuf[r]])]
    /\ UNCHANGED <<temps, data, writer, rbuf, rfrom, procVars, bucketVars,
                   history>>

\* Read with room for n values; at the current end it gives io.EOF and changes
\* nothing, before the start it fails.
Read(r) ==
    /\ rbuf[r] # NoBuf /\ rpos[r] >= 0
    /\ \E n \in 1..(Len(data[rbuf[r]]) - rpos[r]) :
          /\ rgot' = [rgot EXCEPT ![r] =
                        @ \o SubSeq(data[rbuf[r]], rpos[r] + 1, rpos[r] + n)]
          /\ rpos' = [rpos EXCEPT ![r] = @ + n]
    /\ UNCHANGED <<temps, data, writer, rbuf, rfrom, procVars, bucketVars,
                   history>>

\* Seek from the start, the cursor or the end: any offset, unchecked.
Seek(r, off) ==
    /\ rbuf[r] # NoBuf
    /\ rpos' = [rpos EXCEPT ![r] = off]
    /\ rfrom' = [rfrom EXCEPT ![r] = off]
    /\ rgot' = [rgot EXCEPT ![r] = <<>>]
    /\ UNCHANGED <<temps, data, writer, rbuf, procVars, bucketVars, history>>

CloseReader(r) ==
    /\ rbuf[r] # NoBuf
    /\ rbuf' = [rbuf EXCEPT ![r] = NoBuf]
    /\ UNCHANGED <<temps, data, writer, rpos, rfrom, rgot, procVars, bucketVars,
                   history>>

-----------------------------------------------------------------------------
(***************************************************************************)
(* Rename and Remove.                                                      *)
(***************************************************************************)
\* Mutant: Rename looks the buffer up and leaves it registered.
RenameDetach_Lookup(p, b, k) ==
    /\ pc[p] = "idle" /\ b \in temps
    /\ pc' = [pc EXCEPT ![p] = "snapshot"]
    /\ pbuf' = [pbuf EXCEPT ![p] = b]
    /\ pkey' = [pkey EXCEPT ![p] = k]
    /\ UNCHANGED <<temps, data, writer, readVars, pdata, psealed, bucketVars,
                   history>>

\* Rename: detachTemp(oldpath).
RenameDetach(p, b, k) ==
    /\ pc[p] = "idle" /\ b \in temps
    /\ temps' = temps \ {b}
    /\ pc' = [pc EXCEPT ![p] = "snapshot"]
    /\ pbuf' = [pbuf EXCEPT ![p] = b]
    /\ pkey' = [pkey EXCEPT ![p] = k]
    /\ UNCHANGED <<data, writer, readVars, pdata, psealed, bucketVars, history>>

\* Mutant: the copy is sized before the last write is in.
RenameSnapshot_Short(p) ==
    /\ pc[p] = "snapshot"
    /\ LET d == data[pbuf[p]]
       IN  pdata' = [pdata EXCEPT ![p] = SubSeq(d, 1, Len(d) - 1)]
    /\ psealed' = [psealed EXCEPT ![p] = (writer[pbuf[p]] = "closed")]
    /\ pc' = [pc EXCEPT ![p] = "put"]
    /\ UNCHANGED <<temps, data, writer, readVars, pbuf, pkey, bucketVars,
                   history>>

\* Rename: buf.snapshot().
RenameSnapshot(p) ==
    /\ pc[p] = "snapshot"
    /\ pdata' = [pdata EXCEPT ![p] = data[pbuf[p]]]
    /\ psealed' = [psealed EXCEPT ![p] = (writer[pbuf[p]] = "closed")]
    /\ pc' = [pc EXCEPT ![p] = "put"]
    /\ UNCHANGED <<temps, data, writer, readVars, pbuf, pkey, bucketVars,
                   history>>

\* Rename: PutObject takes effect (even if its answer is lost).
RenamePut(p) ==
    /\ pc[p] = "put"
    /\ obuf' = [obuf EXCEPT ![pkey[p]] = pbuf[p]]
    /\ odata' = [odata EXCEPT ![pkey[p]] = pdata[p]]
    /\ osealed' = [osealed EXCEPT ![pkey[p]] = psealed[p]]
    /\ puts' = [puts EXCEPT ![pbuf[p]] = @ + 1]
    /\ pc' = [pc EXCEPT ![p] = "idle"]
    /\ pbuf' = [pbuf EXCEPT ![p] = NoBuf]
    /\ UNCHANGED <<temps, data, writer, readVars, pkey, pdata, psealed, removed>>

\* Rename: PutObject fails; the buffer is not registered again.
RenamePutFails(p) ==
    /\ pc[p] = "put"
    /\ pc' = [pc EXCEPT ![p] = "idle"]
    /\ pbuf' = [pbuf EXCEPT ![p] = NoBuf]
    /\ UNCHANGED <<temps, data, writer, readVars, pkey, pdata, psealed,
                   bucketVars, history>>

\* Remove of a registered name.
RemoveTemp(b) ==
    /\ b \in temps
    /\ temps' = temps \ {b}
    /\ removed' = removed \cup {b}
    /\ UNCHANGED <<data, writer, readVars, procVars, bucketVars, puts>>

\* Remove of a path in the bucket.
RemoveObject(k) ==
    /\ obuf[k] # NoBuf
    /\ obuf' = [obuf EXCEPT ![k] = NoBuf]
    /\ UNCHANGED <<temps, data, writer, readVars, procVars, odata, osealed,
                   history>>

-----------------------------------------------------------------------------
WriterStep(b) == TempFile(b) \/ (\E v \in Value : Write(b, v)) \/ CloseWriter(b)

ReaderStep(r) ==
    \/ \E b \in Buf : OpenTemp(r, b)
    \/ Read(r) \/ CloseReader(r)
    \/ \E off \in Offsets : Seek(r, off)

ProcStep(p) ==
    \/ \E b \in Buf, k \in Key : RenameDetach(p, b, k)
    \/ RenameSnapshot(p) \/ RenamePut(p) \/ RenamePutFails(p)

Next ==
    \/ \E b \in Buf : WriterStep(b) \/ RemoveTemp(b)
    \/ \E r \in Reader : ReaderStep(r)
    \/ \E p \in Proc : ProcStep(p)
    \/ \E k \in Key : RemoveObject(k)

Spec == Init /\ [][Next]_vars

-----------------------------------------------------------------------------
IsPrefixOf(s, t) == Len(s) <= Len(t) /\ \A i \in 1..Len(s) : s[i] = t[i]

Active(p) == pc[p] # "idle"

(***************************************************************************)
(* What a reader gets between two Seeks is exactly the stretch of the      *)
(* buffer it has moved over: it never skips, repeats or invents bytes,     *)
(* however writes, Rename and Remove interleave with its reads, and        *)
(* wherever it sought to (tempfs.go:124-155).                              *)
(***************************************************************************)
ReaderSeesBuffer ==
    \A r \in Reader : rbuf[r] # NoBuf =>
        /\ rpos[r] = rfrom[r] + Len(rgot[r])
        /\ rgot[r] # <<>> => rfrom[r] >= 0 /\ rpos[r] <= Len(data[rbuf[r]])
        /\ \A i \in 1..Len(rgot[r]) : rgot[r][i] = data[rbuf[r]][rfrom[r] + i]

(***************************************************************************)
(* The object that Rename uploads is what the buffer held at one moment, a *)
(* prefix of what was written, and all of it when the writer was closed    *)
(* before Rename took its snapshot (basic.go:184-195, tempfs.go:57-65).    *)
(***************************************************************************)
PublishedIsWritten ==
    \A k \in Key : obuf[k] # NoBuf =>
        /\ IsPrefixOf(odata[k], data[obuf[k]])
        /\ osealed[k] => odata[k] = data[obuf[k]]

(***************************************************************************)
(* Rename and Remove of one name race for its buffer and only one of them  *)
(* gets it: no buffer is uploaded twice, none is uploaded after a Remove   *)
(* of it has returned (tempfs.go:198-207).                                 *)
(***************************************************************************)
OneTaker ==
    \A b \in Buf : puts[b] <= 1 /\ (b \in removed => puts[b] = 0)

(***************************************************************************)
(* tempfile.go:17-19: the buffer is uploaded when the caller renames it,   *)
(* and Remove discards it.  A temp file that was not removed is            *)
(* registered, on its way to the bucket, or was uploaded.                  *)
(***************************************************************************)
OnlyRemoveDiscards ==
    \A b \in Buf :
        writer[b] # "none" =>
            \/ b \in temps \cup removed
            \/ puts[b] > 0
            \/ \E p \in Proc : Active(p) /\ pbuf[p] = b

(***************************************************************************)
(* The inductive invariant: a buffer that no call has finished with has    *)
(* one holder, the registry or one Rename; a snapshot in flight has the    *)
(* properties of an uploaded object (tempfs.go:178-207, basic.go:178-195). *)
(***************************************************************************)
Untouched(b) == puts[b] = 0 /\ b \notin removed

HoldersExclusive ==
    /\ \A b \in Buf : b \in temps \/ writer[b] = "none" =>
          Untouched(b) /\ \A p \in Proc : Active(p) => pbuf[p] # b
    /\ \A b \in temps : writer[b] # "none"
    /\ \A p \in Proc : Active(p) => pbuf[p] \in Buf /\ Untouched(pbuf[p])
    /\ \A p, q \in Proc : Active(p) /\ Active(q) /\ p # q => pbuf[p] # pbuf[q]

SnapshotsWritten ==
    \A p \in Proc : pc[p] = "put" =>
        /\ IsPrefixOf(pdata[p], data[pbuf[p]])
        /\ psealed[p] => pdata[p] = data[pbuf[p]] /\ writer[pbuf[p]] = "closed"

ObjectsWritten ==
    \A k \in Key : obuf[k] # NoBuf =>
        /\ IsPrefixOf(odata[k], data[obuf[k]])
        /\ osealed[k] => odata[k] = data[obuf[k]] /\ writer[obuf[k]] = "closed"

TempInv ==
    /\ TypeOK
    /\ HoldersExclusive
    /\ OneTaker
    /\ SnapshotsWritten
    /\ ObjectsWritten
    /\ ReaderSeesBuffer
=============================================================================
