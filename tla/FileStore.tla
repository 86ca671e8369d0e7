----------------------------- MODULE FileStore -----------------------------
(***************************************************************************)
(* What a user of s3fs may expect of files, whatever requests the package  *)
(* makes: a path holds nothing or one whole content.  A writer collects a  *)
(* draft that nobody sees; the draft appears under its path in one step or *)
(* never.  When a Write fails its value is in doubt: the file may end with *)
(* it or not, but nothing that was confirmed is missing or out of order.   *)
(***************************************************************************)
EXTENDS Naturals, Sequences

CONSTANTS
    Writer,      \* who may have a draft
    Key,         \* where contents can be
    Value,       \* what one Write adds
    Absent,      \* no content
    NoDraft      \* no draft

VARIABLES store, draft

svars == <<store, draft>>

Draft == [key : Key, sure : Seq(Value),
          doubt : {t \in Seq(Value) : Len(t) <= 1}]

FInit ==
    /\ store \in [Key -> Seq(Value) \cup {Absent}]
    /\ draft = [w \in Writer |-> NoDraft]

\* A draft is begun, goes on, or is given up: the store stays as it is.
Draw(w) ==
    /\ draft' = [draft EXCEPT ![w] = draft'[w]]
    /\ LET d == draft'[w]
       IN  \/ d = NoDraft
           \/ d \in Draft /\ d.sure = <<>> /\ d.doubt = <<>>
           \/ /\ draft[w] # NoDraft /\ d \in Draft /\ d.key = draft[w].key
              /\ \/ d.sure = draft[w].sure
                 \/ \E v \in Value : d.sure = Append(draft[w].sure, v)
    /\ UNCHANGED store

Publish(w) ==
    /\ draft[w] # NoDraft
    /\ \E end \in {<<>>, draft[w].doubt} :
          store' = [store EXCEPT ![draft[w].key] = draft[w].sure \o end]
    /\ draft' = [draft EXCEPT ![w] = NoDraft]

Delete(k) == store' = [store EXCEPT ![k] = Absent] /\ UNCHANGED draft

Move(k, l) ==
    /\ store[k] # Absent
    /\ store' = [[store EXCEPT ![k] = Absent] EXCEPT ![l] = store[k]]
    /\ UNCHANGED draft

\* An empty file takes the place of whatever was there.
Empty(k) == store' = [store EXCEPT ![k] = <<>>] /\ UNCHANGED draft

FNext ==
    \/ \E w \in Writer : Draw(w) \/ Publish(w)
    \/ \E k \in Key : Delete(k) \/ Empty(k) \/ \E l \in Key : Move(k, l)

FSpec == FInit /\ [][FNext]_svars
=============================================================================
