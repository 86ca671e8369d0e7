------------------------------ MODULE S3Files ------------------------------
(***************************************************************************)
(* Files and directories of s3fs: OpenFile, Stat, Rename and Remove        *)
(* (s3fs/basic.go), the file handles (s3fs/file.go), ReadDir and MkdirAll  *)
(* (s3fs/dir.go) and the keys of a chroot (s3fs/filesystem.go, chroot.go). *)
(* Temporary files have a module of their own, S3Temp.                     *)
(*                                                                         *)
(* Goroutines of a session, and sessions on one bucket, call at the same   *)
(* time.  A call that makes one request is one step; Stat, Open and        *)
(* ReadDir make several and other calls come in between.  The bucket is    *)
(* external: a request may fail, before or after it has taken effect.      *)
(*                                                                         *)
(* A key is the sequence of the names between its slashes, a name is a     *)
(* number that gives its place in S3's listing order.  NoName is the empty *)
(* name: the key <<a, NoName>> is the placeholder object "a/".  Paths have *)
(* no "..": registry.Resolve has removed it.  Contents are sequences of    *)
(* values, one for each Write.                                             *)
(***************************************************************************)
EXTENDS Integers, Sequences, FiniteSets, SequencesExt

CONSTANTS
    Proc,        \* goroutines
    Key,         \* keys that are used
    Value,       \* what a Write can add
    May,         \* the operations each goroutine calls
    PageSize,    \* entries in one answer to ListObjectsV2
    MaxCalls,    \* most calls of each goroutine
    MaxLen,      \* most Writes to a handle
    NoName,      \* the empty name
    Absent,      \* no object
    NoDraft      \* no file is being written

Ops == {"Chroot", "Stat", "Open", "ReadDir", "Create", "Multipart", "Remove",
        "Rename", "MkdirAll"}

ASSUME FilesAssumption ==
    /\ Key \subseteq Seq(Nat) \ {<<>>} /\ IsFiniteSet(Key)
    /\ May \in [Proc -> SUBSET Ops]
    /\ PageSize \in Nat \ {0} /\ MaxCalls \in [Proc -> Nat]
    /\ MaxLen \in Nat
    /\ NoName = 0
    /\ Absent \notin Seq(Value)

VARIABLES
    bucket,      \* content of each key
    root,        \* root of the file system each goroutine uses
    pc,          \* next request of the call in flight
    at,          \* key of the last Stat, Open or ReadDir
    ans,         \* answer of the last Stat, Open or ReadDir
    h,           \* the handle of each goroutine; the next one takes its place
    ct,          \* ReadDir: continuation token
    dirs, files, \* ReadDir: what it has collected
    calls,       \* calls begun
    acked,       \* history: values whose Write returned nil
    ever, always \* history: entries seen at some, at every moment of the call

callVars == <<pc, at, ans>>
listVars == <<ct, dirs, files>>
seen == <<ever, always>>
vars == <<bucket, root, callVars, h, listVars, calls, acked, seen>>

-----------------------------------------------------------------------------
\* key: root-joined.
KeyOf(p, n) == root[p] \o n

\* Ends of keys, and the paths of a goroutine: those that give a key.
Ends == (UNION {Suffixes(k) : k \in Key}) \ {<<>>}
Path(p) == {n \in Ends : KeyOf(p, n) \in Key /\ Last(n) # NoName}

\* What ListObjectsV2 with a delimiter finds under the prefix k + "/": objects,
\* and common prefixes of objects further down.
Entry == [name : Nat, dir : BOOLEAN]
Folder == {<<>>} \cup UNION {Prefixes(k) : k \in Key}
Below == [k \in Folder |-> {m \in Key : IsStrictPrefix(k, m)}]
Items(b, k) ==
    {[name |-> l[Len(k) + 1], dir |-> Len(l) > Len(k) + 1] :
        l \in {m \in Below[k] : b[m] # Absent}}

\* Listing order: "a" is before "a/".
Rank(e) == 2 * e.name + (IF e.dir THEN 1 ELSE 0)
Listed(S) ==
    CHOOSE s \in [1..Cardinality(S) -> S] :
        /\ ToSet(s) = S
        /\ \A i, j \in 1..Cardinality(S) : i < j => Rank(s[i]) < Rank(s[j])

\* What is left to list after the token, and the first page of it.
Rest(k, token) == {e \in Items(bucket, k) : Rank(e) > token}
Page(k, token) ==
    LET rest == Rest(k, token)
    IN  {e \in rest : Cardinality({f \in rest : Rank(f) < Rank(e)}) < PageSize}

\* The entries of a directory: the placeholder of the directory is none.
Entries(b, k) == {e \in Items(b, k) : e.name # NoName}

Handle(kind, k, data) == [kind |-> kind, key |-> k, data |-> data, n |-> 1]
NoHandle == Handle("none", <<>>, <<>>)
HandleType == [kind : {"none", "read", "dir", "write", "multi"},
               key : Key \cup {<<>>},
               data : Seq(Value), n : Nat]

\* Calls that ask for an object.
Asking == {"statHead", "statList", "openHead", "openGet", "openList"}

TypeOK ==
    /\ bucket \in [Key -> Seq(Value) \cup {Absent}]
    /\ pc \in [Proc -> Asking \cup {"idle", "list"}]
    /\ root \in [Proc -> Key \cup {<<>>}]
    /\ at \in [Proc -> Key \cup {<<>>}]
    /\ ans \in [Proc -> {"", "file", "dir", "none", "error", "listed"}]
    /\ h \in [Proc -> HandleType]
    /\ ct \in [Proc -> Int]
    /\ dirs \in [Proc -> Seq(Entry)] /\ files \in [Proc -> Seq(Entry)]
    /\ calls \in [Proc -> Nat]
    /\ acked \in [Proc -> Seq(Value)]
    /\ ever \in [Proc -> SUBSET Entry] /\ always \in [Proc -> SUBSET Entry]

Init ==
    /\ bucket \in [Key -> {<<>>, Absent}]
    /\ pc = [p \in Proc |-> "idle"]
    /\ root = [p \in Proc |-> <<>>]
    /\ at = [p \in Proc |-> <<>>]
    /\ ans = [p \in Proc |-> ""]
    /\ h = [p \in Proc |-> NoHandle]
    /\ ct = [p \in Proc |-> -1]
    /\ dirs = [p \in Proc |-> <<>>] /\ files = [p \in Proc |-> <<>>]
    /\ calls = [p \in Proc |-> 0]
    /\ acked = [p \in Proc |-> <<>>]
    /\ ever = [p \in Proc |-> {}] /\ always = [p \in Proc |-> {}]

-----------------------------------------------------------------------------
Call(p, op) ==
    /\ pc[p] = "idle" /\ op \in May[p] /\ calls[p] < MaxCalls[p]
    /\ calls' = [calls EXCEPT ![p] = @ + 1]

Goto(p, l) == pc' = [pc EXCEPT ![p] = l] /\ UNCHANGED <<at, ans>>
Return(p, a) ==
    /\ pc' = [pc EXCEPT ![p] = "idle"]
    /\ ans' = [ans EXCEPT ![p] = a]
    /\ UNCHANGED at

\* A call begins with the request l, or is answered at once.
Start(p, n, l, a) ==
    /\ at' = [at EXCEPT ![p] = KeyOf(p, n)]
    /\ ans' = [ans EXCEPT ![p] = a]
    /\ pc' = [pc EXCEPT ![p] = l]
    /\ UNCHANGED <<bucket, root, acked>>

\* A request that is to change the bucket to b.  It may fail, before or after it
\* took effect; the caller gets the error, and no call does anything about it.
Change(b) == bucket' \in {b, bucket} /\ UNCHANGED callVars

\* Chroot asks nobody whether the directory is there.
Chroot(p, n) ==
    /\ Call(p, "Chroot")
    /\ root' = [root EXCEPT ![p] = KeyOf(p, n)]
    /\ UNCHANGED <<bucket, callVars, h, listVars, acked>>

(***************************************************************************)
(* Stat, and Lstat, which is the same (symlink.go:14-19).                  *)
(***************************************************************************)
Stat(p, n) ==
    /\ Call(p, "Stat")
    /\ IF KeyOf(p, n) = <<>> THEN Start(p, n, "idle", "dir")
       ELSE Start(p, n, "statHead", "")
    /\ UNCHANGED <<h, listVars>>

\* Mutant: an object that is not there is the answer, prefixes are not probed.
StatHead_NoProbe(p) ==
    /\ pc[p] = "statHead"
    /\ \/ bucket[at[p]] # Absent /\ Return(p, "file")
       \/ bucket[at[p]] = Absent /\ Return(p, "none")
       \/ Return(p, "error")
    /\ UNCHANGED <<bucket, root, h, listVars, calls, acked>>

StatHead(p) ==
    /\ pc[p] = "statHead"
    /\ \/ bucket[at[p]] # Absent /\ Return(p, "file")
       \/ bucket[at[p]] = Absent /\ Goto(p, "statList")
       \/ Return(p, "error")
    /\ UNCHANGED <<bucket, root, h, listVars, calls, acked>>

StatList(p) ==
    /\ pc[p] = "statList"
    /\ \/ Return(p, IF Items(bucket, at[p]) # {} THEN "dir" ELSE "none")
       \/ Return(p, "error")
    /\ UNCHANGED <<bucket, root, h, listVars, calls, acked>>

(***************************************************************************)
(* OpenFile with O_RDONLY.  The object is loaded whole; a path without an  *)
(* object, also one that goes away between the two requests, is probed for *)
(* a directory.                                                            *)
(***************************************************************************)
Open(p, n) ==
    /\ Call(p, "Open")
    /\ IF KeyOf(p, n) = <<>>
       THEN /\ Start(p, n, "idle", "dir")
            /\ h' = [h EXCEPT ![p] = Handle("dir", <<>>, <<>>)]
       ELSE Start(p, n, "openHead", "") /\ UNCHANGED h
    /\ UNCHANGED listVars

OpenHead(p) ==
    /\ pc[p] = "openHead"
    /\ \/ bucket[at[p]] # Absent /\ Goto(p, "openGet")
       \/ bucket[at[p]] = Absent /\ Goto(p, "openList")
       \/ Return(p, "error")
    /\ UNCHANGED <<bucket, root, h, listVars, calls, acked>>

\* Mutant: an object that has gone since HeadObject is not expected.
OpenGet_Gone(p) ==
    /\ pc[p] = "openGet"
    /\ h' = [h EXCEPT ![p] = Handle("read", at[p], bucket[at[p]])]
    /\ Return(p, "file")
    /\ UNCHANGED <<bucket, root, listVars, calls, acked>>

OpenGet(p) ==
    /\ pc[p] = "openGet"
    /\ \/ /\ bucket[at[p]] # Absent
          /\ h' = [h EXCEPT ![p] = Handle("read", at[p], bucket[at[p]])]
          /\ Return(p, "file")
       \/ bucket[at[p]] = Absent /\ Goto(p, "openList") /\ UNCHANGED h
       \/ Return(p, "error") /\ UNCHANGED h
    /\ UNCHANGED <<bucket, root, listVars, calls, acked>>

OpenList(p) ==
    /\ pc[p] = "openList"
    /\ \/ /\ Items(bucket, at[p]) # {}
          /\ h' = [h EXCEPT ![p] = Handle("dir", at[p], <<>>)]
          /\ Return(p, "dir")
       \/ Items(bucket, at[p]) = {} /\ Return(p, "none") /\ UNCHANGED h
       \/ Return(p, "error") /\ UNCHANGED h
    /\ UNCHANGED <<bucket, root, listVars, calls, acked>>

(***************************************************************************)
(* ReadDir: page after page, directories and files apart.                  *)
(***************************************************************************)
ReadDir(p, n) ==
    /\ Call(p, "ReadDir")
    /\ Start(p, n, "list", "")
    /\ ct' = [ct EXCEPT ![p] = -1]
    /\ dirs' = [dirs EXCEPT ![p] = <<>>] /\ files' = [files EXCEPT ![p] = <<>>]
    /\ UNCHANGED h

\* Mutant: the listing stops after the first page.
ReadDirPage_One(p) ==
    /\ pc[p] = "list"
    /\ LET named == {e \in Page(at[p], ct[p]) : e.name # NoName}
       IN  /\ dirs' = [dirs EXCEPT ![p] = @ \o Listed({e \in named : e.dir})]
           /\ files' = [files EXCEPT ![p] = @ \o Listed({e \in named : ~e.dir})]
           /\ Return(p, "listed")
    /\ UNCHANGED <<bucket, root, h, ct, calls, acked>>

\* Mutant: after a truncated answer the same page is asked for again.
ReadDirPage_Again(p) ==
    /\ pc[p] = "list"
    /\ Page(at[p], ct[p]) = Rest(at[p], ct[p])
    /\ LET named == {e \in Page(at[p], ct[p]) : e.name # NoName}
       IN  /\ dirs' = [dirs EXCEPT ![p] = Listed({e \in named : e.dir})]
           /\ files' = [files EXCEPT ![p] = Listed({e \in named : ~e.dir})]
    /\ Return(p, "listed")
    /\ UNCHANGED <<bucket, root, h, ct, calls, acked>>

ReadDirPage(p) ==
    /\ pc[p] = "list"
    /\ \/ LET page == Page(at[p], ct[p])
              named == {e \in page : e.name # NoName}
          IN  /\ dirs' = [dirs EXCEPT ![p] = @ \o Listed({e \in named : e.dir})]
              /\ files' = [files EXCEPT ![p] = @ \o Listed({e \in named : ~e.dir})]
              /\ IF page = Rest(at[p], ct[p])
                 THEN Return(p, "listed") /\ UNCHANGED ct
                 ELSE /\ ct' = [ct EXCEPT ![p] = Rank(Last(Listed(page)))]
                      /\ UNCHANGED callVars
       \/ Return(p, "error") /\ UNCHANGED listVars
    /\ UNCHANGED <<bucket, root, h, calls, acked>>

(***************************************************************************)
(* Write handles.  A handle of Create is a buffer that Close uploads; a    *)
(* handle of a multipart upload sends each Write as a part.                *)
(***************************************************************************)
Create(p, n) ==
    /\ Call(p, "Create")
    /\ h' = [h EXCEPT ![p] = Handle("write", KeyOf(p, n), <<>>)]
    /\ acked' = [acked EXCEPT ![p] = <<>>]
    /\ UNCHANGED <<bucket, root, callVars, listVars>>

CreateMultipart(p, n) ==
    /\ Call(p, "Multipart")
    /\ \/ /\ h' = [h EXCEPT ![p] = Handle("multi", KeyOf(p, n), <<>>)]
          /\ acked' = [acked EXCEPT ![p] = <<>>]
       \/ UNCHANGED <<h, acked>>
    /\ UNCHANGED <<bucket, root, callVars, listVars>>

\* Mutant: each Write is uploaded at once.
Write_Through(p, v) ==
    /\ pc[p] = "idle" /\ h[p].kind = "write"
    /\ Len(h[p].data) < MaxLen
    /\ h' = [h EXCEPT ![p].data = Append(@, v)]
    /\ acked' = [acked EXCEPT ![p] = Append(@, v)]
    /\ bucket' = [bucket EXCEPT ![h[p].key] = h[p].data \o <<v>>]
    /\ UNCHANGED <<root, callVars, listVars, calls>>

Write(p, v) ==
    /\ pc[p] = "idle" /\ h[p].kind = "write"
    /\ Len(h[p].data) < MaxLen
    /\ h' = [h EXCEPT ![p].data = Append(@, v)]
    /\ acked' = [acked EXCEPT ![p] = Append(@, v)]
    /\ UNCHANGED <<bucket, root, callVars, listVars, calls>>

\* Mutant: the part counter goes on after a Write that failed.
UploadPart_Counts(p, v) ==
    /\ pc[p] = "idle" /\ h[p].kind = "multi" /\ h[p].n <= MaxLen
    /\ LET parts == Append(SubSeq(h[p].data, 1, h[p].n - 1), v)
       IN  h' = [h EXCEPT ![p].data = parts, ![p].n = @ + 1]
    /\ acked' \in {acked, [acked EXCEPT ![p] = Append(@, v)]}
    /\ UNCHANGED <<bucket, root, callVars, listVars, calls>>

\* Part n is sent, and sent again by the Write after one that failed.
UploadPart(p, v) ==
    /\ pc[p] = "idle" /\ h[p].kind = "multi" /\ h[p].n <= MaxLen
    /\ LET parts == Append(SubSeq(h[p].data, 1, h[p].n - 1), v)
       IN  \/ /\ h' = [h EXCEPT ![p].data = parts, ![p].n = @ + 1]
              /\ acked' = [acked EXCEPT ![p] = Append(@, v)]
           \/ h' \in {h, [h EXCEPT ![p].data = parts]} /\ UNCHANGED acked
    /\ UNCHANGED <<bucket, root, callVars, listVars, calls>>

\* Close of any handle; only a write handle has something to upload, and only
\* once: the handle is closed before the request (file.go:238-239, 386-387).  A
\* closed handle is of no more use: Close and Write refuse it, and a part sent
\* after Close belongs to an upload that nobody can complete.
Close(p) ==
    /\ pc[p] = "idle" /\ h[p].kind # "none"
    /\ h' = [h EXCEPT ![p] = NoHandle]
    /\ acked' = [acked EXCEPT ![p] = <<>>]
    /\ IF h[p].kind \in {"write", "multi"}
       THEN Change([bucket EXCEPT ![h[p].key] = h[p].data])
       ELSE UNCHANGED <<bucket, callVars>>
    /\ UNCHANGED <<root, listVars, calls>>

(***************************************************************************)
(* Calls of one request.                                                   *)
(***************************************************************************)
RemoveFile(p, n) ==
    /\ Call(p, "Remove")
    /\ Change([bucket EXCEPT ![KeyOf(p, n)] = Absent])
    /\ UNCHANGED <<root, h, listVars, acked>>

Rename(p, n, m) ==
    /\ Call(p, "Rename")
    /\ LET src == KeyOf(p, n)
           dst == KeyOf(p, m)
       IN  IF bucket[src] = Absent THEN UNCHANGED <<bucket, callVars>>
           ELSE Change([[bucket EXCEPT ![src] = Absent] EXCEPT ![dst] = bucket[src]])
    /\ UNCHANGED <<root, h, listVars, acked>>

\* The key is the path as it is, whatever the root (dir.go:85).
MkdirAll(p, n) ==
    /\ Call(p, "MkdirAll")
    /\ Change([bucket EXCEPT ![n] = <<>>])
    /\ UNCHANGED <<root, h, listVars, acked>>

-----------------------------------------------------------------------------
\* The directory whose entries a call is about.
Watched(p) == IF pc[p] = "list" \/ at[p] = <<>> THEN at[p] ELSE Front(at[p])

\* What the bucket held while a call was in flight.
Observe ==
    LET now == [p \in Proc |-> IF pc'[p] = "idle" THEN {}
                               ELSE Entries(bucket', Watched(p)')]
    IN  /\ ever' = [p \in Proc |->
              IF pc'[p] = "idle" THEN ever[p]
              ELSE now[p] \cup (IF pc[p] = "idle" THEN {} ELSE ever[p])]
        /\ always' = [p \in Proc |->
              IF pc'[p] = "idle" THEN always[p]
              ELSE now[p] \cap (IF pc[p] = "idle" THEN now[p] ELSE always[p])]

Begin(p) ==
    \/ \E n \in Path(p) \cup {<<>>} : Stat(p, n) \/ Open(p, n) \/ ReadDir(p, n)
    \/ \E n \in Path(p) :
          \/ Chroot(p, n)
          \/ Create(p, n) \/ CreateMultipart(p, n) \/ RemoveFile(p, n)
          \/ n \in Key /\ MkdirAll(p, n)
          \/ \E m \in Path(p) : Rename(p, n, m)

Use(p) == Close(p) \/ \E v \in Value : Write(p, v) \/ UploadPart(p, v)

Request(p) == StatHead(p) \/ StatList(p) \/ OpenHead(p) \/ OpenGet(p)
              \/ OpenList(p) \/ ReadDirPage(p)

Next == \E p \in Proc : (Begin(p) \/ Use(p) \/ Request(p)) /\ Observe

Spec == Init /\ [][Next]_vars

\* Requests are answered: the SDK gives up after its retries.  An answer that is
\* made use of changes pc or ct.
FairSpec == Spec /\ \A p \in Proc : WF_<<pc, ct>>(Request(p))

-----------------------------------------------------------------------------
(***************************************************************************)
(* Stat and Open ask for the object, then for the prefix, and the bucket   *)
(* may change in between (basic.go:77-109, 137-170).  "File" and           *)
(* "directory" were true at some moment of the call; "not there" is said   *)
(* only when neither the file nor the directory was there all the time.    *)
(***************************************************************************)
StatTruth ==
    \A p \in Proc : pc[p] = "idle" /\ at[p] # <<>> =>
        LET as(dir) == [name |-> Last(at[p]), dir |-> dir]
        IN  /\ ans[p] = "file" => as(FALSE) \in ever[p]
            /\ ans[p] = "dir" => as(TRUE) \in ever[p]
            /\ ans[p] = "none" => {as(TRUE), as(FALSE)} \cap always[p] = {}

(***************************************************************************)
(* A listing that takes several requests while others write and rename     *)
(* (dir.go:31-75) has every entry that was there all the time, no entry    *)
(* that was never there, and none twice.                                   *)
(***************************************************************************)
ListingTruth ==
    \A p \in Proc : pc[p] = "idle" /\ ans[p] = "listed" =>
        LET got == dirs[p] \o files[p]
        IN  /\ always[p] \subseteq ToSet(got) /\ ToSet(got) \subseteq ever[p]
            /\ Cardinality(ToSet(got)) = Len(got)

(***************************************************************************)
(* Every call comes back, ReadDir too, however the directory changes while *)
(* it pages (dir.go:31-73).                                                *)
(***************************************************************************)
CallsReturn == \A p \in Proc : pc[p] # "idle" ~> pc[p] = "idle"

\* The draft of an open write handle: confirmed values, and a part that was sent
\* by a Write that failed.
DraftOf(p) ==
    IF h[p].kind \in {"write", "multi"}
    THEN [key |-> h[p].key, sure |-> acked[p],
          doubt |-> SubSeq(h[p].data, Len(acked[p]) + 1, Len(h[p].data))]
    ELSE NoDraft

\* The value an open upload holds beyond the confirmed ones, at most.
HandleAcked(p) ==
    /\ h[p].kind = "write" => h[p].data = acked[p]
    /\ h[p].kind = "multi" =>
          /\ h[p].n = Len(acked[p]) + 1
          /\ Len(h[p].data) \in {Len(acked[p]), Len(acked[p]) + 1}
          /\ SubSeq(h[p].data, 1, Len(acked[p])) = acked[p]

(***************************************************************************)
(* What a handle will upload is what was confirmed to its writer, plus at  *)
(* most one part that was stored by a Write that failed: the part counter  *)
(* follows the confirmed Writes (file.go:205-211, 328-358).  A call that   *)
(* asks for an object has its key (basic.go:58-68, 124-127).               *)
(***************************************************************************)
FilesInv ==
    /\ pc \in [Proc -> Asking \cup {"idle", "list"}]
    /\ bucket \in [Key -> Seq(Value) \cup {Absent}]
    /\ root \in [Proc -> Key \cup {<<>>}]
    /\ at \in [Proc -> Key \cup {<<>>}]
    /\ h \in [Proc -> HandleType]
    /\ acked \in [Proc -> Seq(Value)]
    /\ \A p \in Proc :
          /\ pc[p] \in Asking => at[p] \in Key
          /\ h[p].kind \in {"write", "multi"} => h[p].key \in Key
          /\ HandleAcked(p)

Store == INSTANCE FileStore WITH
    Writer <- Proc, store <- bucket, draft <- [p \in Proc |-> DraftOf(p)]

ASSUME DraftAssumption == NoDraft \notin Store!Draft

(***************************************************************************)
(* Write and multipart handles implement FileStore (file.go:205-260,       *)
(* 328-404): an object appears in one step, whole, with every confirmed    *)
(* value in order, also when requests fail after they have taken effect.   *)
(***************************************************************************)
FilesAreWhole == Store!FSpec

=============================================================================
