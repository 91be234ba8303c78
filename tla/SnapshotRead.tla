---------------------------- MODULE SnapshotRead ----------------------------
(***************************************************************************)
(* What a GET of a collection promises its client: everything the answer   *)
(* shows was in the table at some moment between the request and the       *)
(* answer.  A full list is the table of one moment; a page of it may tell  *)
(* the number of objects of one moment and show the rows of another.       *)
(***************************************************************************)
EXTENDS Naturals

CONSTANTS Clients, Kinds, None

VARIABLES
    version,  \* the table, as the number of changes it has seen
    asked,    \* what each client has asked for and not been told, or None
    since,    \* the version when it asked
    answer    \* the versions it was told last, or None

svars == <<version, asked, since, answer>>

SInit ==
    /\ version = 0
    /\ asked = [c \in Clients |-> None]
    /\ since = [c \in Clients |-> 0]
    /\ answer = [c \in Clients |-> None]

SAsk(c) ==
    /\ asked[c] = None
    /\ \E k \in Kinds : asked' = [asked EXCEPT ![c] = k]
    /\ since' = [since EXCEPT ![c] = version]
    /\ answer' = [answer EXCEPT ![c] = None]
    /\ UNCHANGED version

SAnswer(c) ==
    /\ asked[c] # None
    /\ \E n, rows \in since[c]..version :
          /\ ~asked[c].paged => n = rows
          /\ answer' = [answer EXCEPT ![c] = [count |-> n, rows |-> rows]]
    /\ asked' = [asked EXCEPT ![c] = None]
    /\ UNCHANGED <<version, since>>

SChange ==
    /\ version' = version + 1
    /\ UNCHANGED <<asked, since, answer>>

SNext == (\E c \in Clients : SAsk(c) \/ SAnswer(c)) \/ SChange

SSpec == SInit /\ [][SNext]_svars
=============================================================================
