---------------------------- MODULE ImageKeeping ----------------------------
(***************************************************************************)
(* What the request-image subsystem promises: a submission is recorded at  *)
(* most once, its images are in the object store when it is recorded, and  *)
(* from then on an object leaves the store only if no recorded submission  *)
(* refers to it.  Who uploads, who retries, who crashes and who sweeps is  *)
(* not said here; RequestImages is the detailed specification.             *)
(***************************************************************************)
CONSTANTS Submissions, Contents, Keys, NoContent

VARIABLES
    request,    \* [Submissions -> what is recorded for a submission]
    store       \* the keys of the objects in the store

keeping == <<request, store>>

Nothing == [content |-> NoContent, images |-> {}]

\* The keys some recorded submission refers to.
Referenced == UNION {request[s].images : s \in Submissions}

Init ==
    /\ request = [s \in Submissions |-> Nothing]
    /\ store = {}

\* An object arrives: an upload landed.
Arrive(k) ==
    /\ k \notin store
    /\ store' = store \cup {k}
    /\ UNCHANGED request

\* A submission is recorded, once, with images that are all in the store.
Record(s, c, ks) ==
    /\ request[s] = Nothing
    /\ ks \subseteq store
    /\ request' = [request EXCEPT ![s] = [content |-> c, images |-> ks]]
    /\ UNCHANGED store

\* Some objects go; none of them belongs to a recorded submission.
Drop(ks) ==
    /\ ks \cap Referenced = {}
    /\ store' = store \ ks
    /\ UNCHANGED request

Next ==
    \/ \E k \in Keys : Arrive(k)
    \/ \E s \in Submissions, c \in Contents, ks \in SUBSET Keys : Record(s, c, ks)
    \/ \E ks \in SUBSET Keys : Drop(ks)

Spec == Init /\ [][Next]_keeping

=============================================================================
