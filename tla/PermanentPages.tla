----------------------------- MODULE PermanentPages -----------------------------
(***************************************************************************)
(* The permanent list: the pages a pool server serves under                *)
(* /permanent/<page>.json (permanent_assets and permanent_pages in         *)
(* PoolDatabase, the handlers of PoolServer) and the clients that walk     *)
(* them upwards and pin what they list (mctrivia::permanentFetcherTask).   *)
(*                                                                         *)
(* Every database call holds the pool's mutex, so one call is one step;    *)
(* an addition is a call for the page and then one call per CID, and a     *)
(* client's visit is a fetch, the pins, and the page it writes to          *)
(* config.cfg.  A definition whose comment says "Mutant" is a mutant of    *)
(* the one after it.                                                       *)
(***************************************************************************)
EXTENDS Integers, FiniteSets, FiniteSetsExt

CONSTANTS
    Cids,           \* rows of permanent_assets: asset, transaction and CID
    Adders,         \* request threads of /permanent/add, and peerSyncLoop
    Clients,        \* nodes that walk the list
    Batches,        \* the sets of CIDs an addition carries
    Removals,       \* the sets of CIDs a /permanent/remove names
    Imported,       \* [SUBSET Cids -> pages]: rows firstRunSnapshot left
    ImportedDone,   \* pages it left done
    PinFails,       \* CIDs whose pin() may throw
    Faults,         \* the pool's statements that can fail: "mark", "read"
    StartPage,      \* psp1permanentpage's default: 23
    PageCap,        \* PAGE_CAP
    MaxPage,        \* bound on the pages
    MaxRestarts     \* bound on the restarts of clients

ASSUME PagesConstants ==
    /\ Batches \subseteq (SUBSET Cids) \ {{}} /\ Removals \subseteq SUBSET Cids
    /\ DOMAIN Imported \subseteq Cids /\ PinFails \subseteq Cids /\ PageCap \in Nat \ {0}
    /\ {StartPage, MaxPage, MaxRestarts} \subseteq Nat /\ StartPage <= MaxPage
    /\ \A c \in DOMAIN Imported : Imported[c] \in 0 .. MaxPage
    /\ ImportedDone \subseteq 0 .. MaxPage /\ Faults \subseteq {"mark", "read"}

VARIABLES
    pageOf,     \* permanent_assets: the page of every row, Unlisted without one
    done,       \* permanent_pages: the pages marked done
    adder,      \* [Adders -> the page it was given and the CIDs left to insert]
    client,     \* [Clients -> the page it is on and the body it works through]
    saved,      \* [Clients -> permanentpage in config.cfg]
    pinned,     \* [Clients -> CIDs with a durable pin job]
    restarts

vars == <<pageOf, done, adder, client, saved, pinned, restarts>>

Unlisted == -1
Resting == [page |-> Unlisted, todo |-> {}]
NoBody == [cids |-> {}, done |-> FALSE]

On(page) == {c \in Cids : pageOf[c] = page}

Init ==
    /\ pageOf = [c \in Cids |-> IF c \in DOMAIN Imported THEN Imported[c] ELSE Unlisted]
    /\ done = ImportedDone
    /\ adder = [a \in Adders |-> Resting]
    /\ client = [n \in Clients |-> [page |-> StartPage, body |-> NoBody]]
    /\ saved = [n \in Clients |-> StartPage]
    /\ pinned = [n \in Clients |-> {}]
    /\ restarts = 0

-----------------------------------------------------------------------------
(* The pool.                                                                *)

\* The highest page that holds a row, -1 when the list is empty.
TopPage == Max({Unlisted} \cup {pageOf[c] : c \in Cids})

Full(page) == Cardinality(On(page)) >= PageCap

\* Mutant: a page that is full is marked done and still handed out.
FullPageAgain ==
    CASE TopPage = Unlisted -> StartPage
      [] TopPage # Unlisted /\ TopPage \in done -> TopPage + 1
      [] OTHER -> TopPage

getWritablePage ==
    CASE TopPage = Unlisted -> StartPage
      [] TopPage # Unlisted /\ (TopPage \in done \/ Full(TopPage)) -> TopPage + 1
      [] OTHER -> TopPage

\* What the same call marks done.
FinishedPages == IF TopPage # Unlisted /\ Full(TopPage) THEN {TopPage} ELSE {}

\* The outcomes of the call.  The page is handed out whether or not the full one
\* could be marked; a SELECT that fails looks like an empty list, or like a
\* highest page that is neither done nor full.
PageChoices ==
    {[page |-> getWritablePage, marks |-> FinishedPages]}
        \cup {[page |-> getWritablePage, marks |-> {}] : f \in Faults \cap {"mark"}}
        \cup {[page |-> p, marks |-> {}] :
                p \in IF "read" \in Faults THEN {StartPage, TopPage} \ {Unlisted} ELSE {}}

\* handlePermanentAdd and the mirror of peerSyncLoop: first the page ...
BeginAdd(a) ==
    /\ adder[a].todo = {}
    /\ \E choice \in PageChoices : \E batch \in Batches :
        /\ choice.page <= MaxPage
        /\ adder' = [adder EXCEPT ![a] = [page |-> choice.page, todo |-> batch]]
        /\ done' = done \cup choice.marks
    /\ UNCHANGED <<pageOf, client, saved, pinned, restarts>>

\* ... and then an INSERT OR IGNORE per CID, whose failure is passed over.
insertPermanentAsset(a) ==
    /\ \E c \in adder[a].todo :
        /\ \/ pageOf' = [pageOf EXCEPT ![c] = IF @ = Unlisted THEN adder[a].page ELSE @]
           \/ pageOf' = pageOf
        /\ adder' = [adder EXCEPT ![a] =
                        IF @.todo = {c} THEN Resting
                        ELSE [page |-> @.page, todo |-> @.todo \ {c}]]
    /\ UNCHANGED <<done, client, saved, pinned, restarts>>

\* handlePermanentRemove, by CID or by the sweep for malformed ones.
removePermanentCids ==
    /\ \E gone \in Removals :
            pageOf' = [c \in Cids |-> IF c \in gone THEN Unlisted ELSE pageOf[c]]
    /\ UNCHANGED <<done, adder, client, saved, pinned, restarts>>

\* Mutant: no page is ever served as done.
PageNeverDone(page) == [cids |-> On(page), done |-> FALSE]

\* Metadata and rows are read under one lock.
buildPermanentPageJson(page) == [cids |-> On(page), done |-> page \in done]

\* The bodies a client may get: a SELECT that fails leaves out "done" or, when it
\* breaks off, rows.
Bodies(page) ==
    {buildPermanentPageJson(page)} \cup
        IF "read" \in Faults
        THEN [cids : (SUBSET On(page)) \ {{}}, done : {FALSE, (page \in done)}] ELSE {}

-----------------------------------------------------------------------------
(* A client: fetchAndPinPermanentPage and permanentFetcherTask.              *)

\* A page without rows is answered with the error envelope: the client stays.
\* A failed fetch is a step that changes nothing.
Fetch(n) ==
    /\ client[n].body = NoBody /\ On(client[n].page) # {}
    /\ \E body \in Bodies(client[n].page) : client' = [client EXCEPT ![n].body = body]
    /\ UNCHANGED <<pageOf, done, adder, saved, pinned, restarts>>

\* The page after a visit.
Advanced(n) == IF client[n].body.done THEN client[n].page + 1 ELSE client[n].page

\* Every CID of the body is pinned, a failure is only counted, then the page is
\* left if it was done; a config.cfg that cannot be written is not an error.
PinPage(n) ==
    /\ client[n].body # NoBody
    /\ \E failed \in SUBSET (client[n].body.cids \cap PinFails) :
            pinned' = [pinned EXCEPT ![n] = @ \cup (client[n].body.cids \ failed)]
    /\ client' = [client EXCEPT ![n] = [page |-> Advanced(n), body |-> NoBody]]
    /\ \E page \in {saved[n], Advanced(n)} : saved' = [saved EXCEPT ![n] = page]
    /\ UNCHANGED <<pageOf, done, adder, restarts>>

\* The node ends during a visit: some of its pins are queued, the page is not left.
Restart(n) ==
    /\ restarts < MaxRestarts
    /\ restarts' = restarts + 1
    /\ \E some \in SUBSET client[n].body.cids :
            pinned' = [pinned EXCEPT ![n] = @ \cup some]
    /\ client' = [client EXCEPT ![n] = [page |-> saved[n], body |-> NoBody]]
    /\ UNCHANGED <<pageOf, done, adder, saved>>

Next ==
    \/ \E a \in Adders : BeginAdd(a) \/ insertPermanentAsset(a)
    \/ removePermanentCids
    \/ \E n \in Clients : Fetch(n) \/ PinPage(n) \/ Restart(n)

Spec == Init /\ [][Next]_vars

\* The walker comes by every ten minutes and reaches the pool again and again.
FairSpec == Spec /\ \A n \in Clients : WF_vars(Fetch(n)) /\ WF_vars(PinPage(n))

-----------------------------------------------------------------------------
(* Properties.                                                              *)

\* Rows, pages and bodies keep their shapes, and a client works on the page it
\* would start on again.
TypeOK ==
    /\ pageOf \in [Cids -> Unlisted .. MaxPage]
    /\ done \subseteq 0 .. MaxPage
    /\ \A a \in Adders : adder[a].todo \subseteq Cids /\ adder[a].page \in Unlisted .. MaxPage
    /\ \A n \in Clients : /\ client[n].page \in StartPage .. MaxPage + 1
                          /\ saved[n] \in StartPage .. client[n].page
                          /\ client[n].body.cids \subseteq Cids
                          /\ pinned[n] \subseteq Cids

\* What a client has walked past it has pinned: no listed row lies on a page
\* below the client's that it never saw, although rows are added and removed
\* while it walks (getWritablePage's promise to the walkers).
NothingBehind ==
    \A n \in Clients : \A c \in Cids :
        pageOf[c] \in StartPage .. client[n].page - 1 => c \in pinned[n]

\* The walker stands still on this page: the list goes on above it, and the page
\* is not left because it was never marked done or has lost its rows.
Parked(page) == TopPage > page /\ (page \notin done \/ On(page) = {})

\* Every row that stays on the list is pinned by every client in the end, unless
\* the client comes to stand on a page getWritablePage went past without marking
\* it done, or on one handlePermanentRemove has emptied below the row.
PinnedInTheEnd ==
    \A n \in Clients : \A c \in Cids :
        pageOf[c] >= StartPage ~> \/ c \in pinned[n] \/ pageOf[c] = Unlisted
                                 \/ Parked(client[n].page)
=================================================================================
