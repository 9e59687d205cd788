----------------------------- MODULE FileDownload -----------------------------
(***************************************************************************)
(* What a read request promises its client: the file arrives in order,     *)
(* part by part, nothing twice and nothing of another file, and the client *)
(* calls the download complete only when it has the whole file.  It may    *)
(* fail at any time, or never end.                                         *)
(***************************************************************************)
EXTENDS Naturals, Sequences

CONSTANTS
    Clients,    \* client endpoints
    Names,      \* what they may ask for
    FileBlocks, \* stored file -> number of full blocks
    None

VARIABLE download

\* A file is its full blocks and the short one that ends it.
Content(name) == [i \in 1 .. FileBlocks[name] + 1 |-> <<name, i>>]

Init == download = [c \in Clients |->
    [status |-> "idle", name |-> None, got |-> <<>>]]

Request(c, name) ==
    /\ download[c].status = "idle"
    /\ download' = [download EXCEPT
           ![c].status = "waiting", ![c].name = name]

Receive(c) ==
    LET d == download[c]
        got == Append(d.got, <<d.name, Len(d.got) + 1>>)
    IN  /\ d.status = "waiting"
        /\ d.name \in DOMAIN FileBlocks
        /\ Len(d.got) <= FileBlocks[d.name]
        /\ download' = [download EXCEPT
               ![c].got = got,
               ![c].status = IF got = Content(d.name)
                             THEN "complete" ELSE "waiting"]

Fail(c) ==
    /\ download[c].status = "waiting"
    /\ download' = [download EXCEPT ![c].status = "failed"]

Next == \E c \in Clients :
    \/ \E name \in Names : Request(c, name)
    \/ Receive(c)
    \/ Fail(c)

Spec == Init /\ [][Next]_download
=============================================================================
