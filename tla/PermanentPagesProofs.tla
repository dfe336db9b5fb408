-------------------------- MODULE PermanentPagesProofs --------------------------
(***************************************************************************)
(* Proofs about the permanent list, for any number of rows, pages and      *)
(* walkers and any page size: a walker leaves nothing behind as long as    *)
(* one thread adds, pins do not throw, and no removal empties the done     *)
(* pages at the top of the list.                                           *)
(***************************************************************************)
EXTENDS PermanentPages, WellFoundedInduction, TLAPS

\* What getWritablePage() takes for granted when it looks at the highest page with rows
\* only: no page above that one is done already.  handlePermanentRemove can break it (see
\* the README).
DonePagesHeld == \A p \in done : p >= StartPage => p <= TopPage

\* The values the variables take.
Shape ==
    /\ pageOf \in [Cids -> Unlisted .. MaxPage]
    /\ done \subseteq 0 .. MaxPage
    /\ adder \in [Adders -> [page : Unlisted .. MaxPage, todo : SUBSET Cids]]
    /\ client \in [Clients -> [page : Nat, body : [cids : SUBSET Cids, done : BOOLEAN]]]
    /\ saved \in [Clients -> Nat]
    /\ pinned \in [Clients -> SUBSET Cids]

\* What is still to be inserted goes above every page a walker may have left.
AddsAhead ==
    \A a \in Adders : adder[a].todo # {} =>
        \A p \in done : p >= StartPage => p < adder[a].page

\* A walker has left done pages only, and the page in config.cfg is not ahead of it.
LeftDone ==
    \A n \in Clients :
        /\ StartPage <= saved[n] /\ saved[n] <= client[n].page
        /\ StartPage .. client[n].page - 1 \subseteq done

\* A body that says done was read from a done page, and lacks no row the page has now.
BodyWhole ==
    \A n \in Clients : client[n].body.done =>
        client[n].page \in done /\ On(client[n].page) \subseteq client[n].body.cids

WalkInv == Shape /\ AddsAhead /\ LeftDone /\ BodyWhole /\ NothingBehind

-----------------------------------------------------------------------------
(* The highest page. *)

\* A set of numbers has a least one.
LEMMA LeastNumber ==
    ASSUME NEW T \in SUBSET Nat, T # {}
    PROVE  \E t \in T : \A u \in T : t <= u
<1>1. PICK t \in T : \A u \in T : ~(<<u, t>> \in OpToRel(<, Nat))
  BY NatLessThanWellFounded, WFMin
<1>2. ASSUME NEW u \in T
      PROVE  t <= u
  <2>1. u \in Nat /\ t \in Nat
    OBVIOUS
  <2>2. u < t => <<u, t>> \in OpToRel(<, Nat)
    BY <2>1 DEF OpToRel
  <2>3. ~(u < t)
    BY <1>1, <2>2, Zenon
  <2> QED
    BY <2>1, <2>3
<1> QED
  BY <1>2

\* A set of integers with a bound has a greatest one, which is what Max() returns.
LEMMA MaxProps ==
    ASSUME NEW bound \in Int, NEW S \in SUBSET Int, S # {}, \A x \in S : x <= bound
    PROVE  Max(S) \in S /\ \A x \in S : x <= Max(S)
<1> DEFINE T == {bound - x : x \in S}
<1>1. T \in SUBSET Nat /\ T # {}
  <2>1. \A x \in S : bound - x \in Nat
    OBVIOUS
  <2> QED BY <2>1
<1>2. PICK t \in T : \A u \in T : t <= u
  BY <1>1, LeastNumber
<1>3. PICK m \in S : t = bound - m
  OBVIOUS
<1>4. ASSUME NEW x \in S
      PROVE  m >= x
  <2>1. bound - x \in T
    OBVIOUS
  <2>2. bound - m <= bound - x
    BY <1>2, <1>3, <2>1
  <2> QED BY <2>2
<1>5. Max(S) \in S /\ \A x \in S : Max(S) >= x
  BY <1>4 DEF Max
<1> QED BY <1>5

\* SELECT COALESCE(MAX(page), -1): the highest page that holds a row.
LEMMA HighestPage ==
    ASSUME NEW f \in [Cids -> Unlisted .. MaxPage], NEW top,
           top = Max({Unlisted} \cup {f[c] : c \in Cids})
    PROVE  /\ top \in Unlisted .. MaxPage
           /\ \A c \in Cids : f[c] <= top
           /\ top = Unlisted \/ \E c \in Cids : top = f[c]
<1> DEFINE S == {Unlisted} \cup {f[c] : c \in Cids}
<1>1. MaxPage \in Nat
  BY PagesConstants
<1>2. S \in SUBSET Int /\ S # {} /\ (\A x \in S : x \in Unlisted .. MaxPage)
  BY <1>1 DEF Unlisted
<1>3. \A x \in S : x <= MaxPage
  BY <1>1, <1>2 DEF Unlisted
<1> HIDE DEF S
<1>4. Max(S) \in S /\ \A x \in S : x <= Max(S)
  <2>1. MaxPage \in Int
    BY <1>1
  <2> QED BY <1>2, <1>3, <2>1, MaxProps, Zenon
<1>5. top = Max(S)
  BY DEF S
<1> QED BY <1>2, <1>4, <1>5 DEF S

LEMMA TopPageProps ==
    ASSUME pageOf \in [Cids -> Unlisted .. MaxPage]
    PROVE  /\ TopPage \in Unlisted .. MaxPage
           /\ \A c \in Cids : pageOf[c] <= TopPage
           /\ TopPage = Unlisted \/ \E c \in Cids : TopPage = pageOf[c]
  BY HighestPage DEF TopPage

\* The page that is handed out lies above every done page a walker may have left, the one
\* marked done by the same call included.
LEMMA WritableIsAhead ==
    ASSUME Shape, DonePagesHeld
    PROVE  \A p \in done \cup FinishedPages : p >= StartPage => p < getWritablePage
<1>1. /\ TopPage \in Int /\ StartPage \in Nat
      /\ done \cup FinishedPages \subseteq Int
      /\ \A p \in done \cup FinishedPages : p >= StartPage => p <= TopPage
  <2>1. TopPage \in Unlisted .. MaxPage
    BY TopPageProps DEF Shape
  <2>2. StartPage \in Nat /\ MaxPage \in Nat
    BY PagesConstants
  <2> QED BY <2>1, <2>2 DEF FinishedPages, DonePagesHeld, Shape, Unlisted
<1>2. CASE TopPage = Unlisted
  BY <1>1, <1>2 DEF Unlisted
<1>3. CASE TopPage # Unlisted /\ (TopPage \in done \/ Full(TopPage))
  <2>1. getWritablePage = TopPage + 1
    BY <1>3 DEF getWritablePage
  <2> QED BY <1>1, <2>1
<1>4. CASE TopPage # Unlisted /\ ~(TopPage \in done \/ Full(TopPage))
  <2>1. getWritablePage = TopPage /\ FinishedPages = {}
    BY <1>4 DEF getWritablePage, FinishedPages
  <2> QED BY <1>1, <1>4, <2>1
<1> QED BY <1>2, <1>3, <1>4

\* getWritablePage() returns a page, and marks one done that exists.
LEMMA WritableShape ==
    ASSUME Shape
    PROVE  /\ getWritablePage \in Nat
           /\ FinishedPages \subseteq 0 .. MaxPage
<1>1. TopPage \in Unlisted .. MaxPage
  BY TopPageProps DEF Shape
<1>2. StartPage \in Nat /\ MaxPage \in Nat
  BY PagesConstants
<1>3. TopPage # Unlisted => TopPage \in 0 .. MaxPage
  BY <1>1, <1>2 DEF Unlisted
<1>4. getWritablePage \in {StartPage} \cup {TopPage + 1} \cup {TopPage}
      /\ (TopPage = Unlisted => getWritablePage = StartPage)
  BY DEF getWritablePage
<1> QED BY <1>2, <1>3, <1>4 DEF FinishedPages

\* An addition gets a page that is ahead, whether or not the full one could be marked, as
\* long as the SELECTs of getWritablePage() do not fail.
LEMMA ChoiceIsAhead ==
    ASSUME Shape, DonePagesHeld, "read" \notin Faults, NEW choice \in PageChoices
    PROVE  /\ choice.page \in Nat /\ choice.marks \subseteq 0 .. MaxPage
           /\ \A p \in done \cup choice.marks : p >= StartPage => p < choice.page
<1>1. choice.page = getWritablePage /\ choice.marks \subseteq FinishedPages
  BY DEF PageChoices
<1> QED BY <1>1, WritableIsAhead, WritableShape

-----------------------------------------------------------------------------
(* The invariant holds of every step. *)

LEMMA WalkInit == ASSUME Init PROVE WalkInv
<1>1. StartPage \in Nat /\ MaxPage \in Nat /\ ImportedDone \subseteq 0 .. MaxPage
      /\ (\A c \in DOMAIN Imported : Imported[c] \in 0 .. MaxPage)
  BY PagesConstants
<1>2. pageOf \in [Cids -> Unlisted .. MaxPage]
  BY <1>1 DEF Init, Unlisted
<1>3. Shape
  BY <1>1, <1>2 DEF Init, Shape, Resting, NoBody, Unlisted
<1>4. AddsAhead /\ BodyWhole
  BY DEF Init, AddsAhead, BodyWhole, Resting, NoBody
<1>5. \A n \in Clients : client[n].page = StartPage /\ saved[n] = StartPage
  BY DEF Init
<1>6. LeftDone /\ NothingBehind
  <2>1. StartPage .. StartPage - 1 = {}
    BY <1>1
  <2> QED BY <1>1, <1>5, <2>1 DEF LeftDone, NothingBehind
<1> QED BY <1>3, <1>4, <1>6 DEF WalkInv

\* A page is handed out: it is ahead, and no row has moved.
LEMMA BeginAddStep ==
    ASSUME WalkInv, DonePagesHeld, "read" \notin Faults, \A a, b \in Adders : a = b,
           NEW a \in Adders, BeginAdd(a)
    PROVE  WalkInv'
<1>1. Shape /\ AddsAhead /\ LeftDone /\ BodyWhole /\ NothingBehind
  BY DEF WalkInv
<1>2. PICK choice \in PageChoices, batch \in Batches :
         /\ choice.page <= MaxPage
         /\ adder' = [adder EXCEPT ![a] = [page |-> choice.page, todo |-> batch]]
         /\ done' = done \cup choice.marks
  BY DEF BeginAdd
<1>3. /\ pageOf' = pageOf /\ client' = client /\ saved' = saved /\ pinned' = pinned
  BY DEF BeginAdd
<1>4. /\ choice.page \in Nat /\ choice.marks \subseteq 0 .. MaxPage
      /\ \A p \in done \cup choice.marks : p >= StartPage => p < choice.page
  BY <1>1, ChoiceIsAhead
<1>5. Shape'
  <2>1. choice.page \in Unlisted .. MaxPage /\ batch \in SUBSET Cids
    BY <1>2, <1>4, PagesConstants DEF Unlisted
  <2>2. done' \subseteq 0 .. MaxPage
    BY <1>1, <1>2, <1>4 DEF Shape
  <2> QED BY <1>1, <1>2, <1>3, <2>1, <2>2 DEF Shape
<1>6. AddsAhead'
  <2>1. \A b \in Adders : adder'[b].page = choice.page
    BY <1>1, <1>2 DEF Shape
  <2> QED BY <1>2, <1>4, <2>1 DEF AddsAhead
<1>7. LeftDone' /\ BodyWhole' /\ NothingBehind'
  BY <1>1, <1>2, <1>3 DEF LeftDone, BodyWhole, NothingBehind, On
<1> QED BY <1>5, <1>6, <1>7 DEF WalkInv

\* An addition goes on to its next row with the page it was given, or is over.
LEMMA NextRow ==
    ASSUME adder \in [Adders -> [page : Unlisted .. MaxPage, todo : SUBSET Cids]],
           NEW a \in Adders, NEW c \in adder[a].todo,
           adder' = [adder EXCEPT ![a] =
                        IF @.todo = {c} THEN Resting
                        ELSE [page |-> @.page, todo |-> @.todo \ {c}]]
    PROVE  /\ adder' \in [Adders -> [page : Unlisted .. MaxPage, todo : SUBSET Cids]]
           /\ \A b \in Adders : adder'[b].todo # {} =>
                 adder[b].todo # {} /\ adder'[b].page = adder[b].page
<1> DEFINE rest == [page |-> adder[a].page, todo |-> adder[a].todo \ {c}]
<1>1. MaxPage \in Nat
  BY PagesConstants
<1>2. Resting \in [page : Unlisted .. MaxPage, todo : SUBSET Cids] /\ Resting.todo = {}
  BY <1>1 DEF Resting, Unlisted
<1>3. adder[a] \in [page : Unlisted .. MaxPage, todo : SUBSET Cids]
  OBVIOUS
<1>4. /\ rest \in [page : Unlisted .. MaxPage, todo : SUBSET Cids]
      /\ rest.page = adder[a].page
  BY <1>3
<1> HIDE DEF rest
<1>5. CASE adder[a].todo = {c}
  <2>1. adder' = [adder EXCEPT ![a] = Resting]
    BY <1>5
  <2> QED BY <1>2, <2>1
<1>6. CASE adder[a].todo # {c}
  <2>1. adder' = [adder EXCEPT ![a] = rest]
    BY <1>6 DEF rest
  <2> QED BY <1>4, <2>1
<1> QED BY <1>5, <1>6

\* A row is inserted: not on a page a walker has left or is about to leave.
LEMMA InsertStep ==
    ASSUME WalkInv, NEW a \in Adders, insertPermanentAsset(a)
    PROVE  WalkInv'
<1>1. Shape /\ AddsAhead /\ LeftDone /\ BodyWhole /\ NothingBehind
  BY DEF WalkInv
<1>2. PICK c \in adder[a].todo :
         /\ \/ pageOf' = [pageOf EXCEPT ![c] = IF @ = Unlisted THEN adder[a].page ELSE @]
            \/ pageOf' = pageOf
         /\ adder' = [adder EXCEPT ![a] =
                        IF @.todo = {c} THEN Resting
                        ELSE [page |-> @.page, todo |-> @.todo \ {c}]]
  BY DEF insertPermanentAsset
<1>3. done' = done /\ client' = client /\ saved' = saved /\ pinned' = pinned
  BY DEF insertPermanentAsset
<1>4. c \in Cids /\ adder[a].page \in Unlisted .. MaxPage /\ MaxPage \in Nat /\ StartPage \in Nat
  BY <1>1, PagesConstants DEF Shape
<1>5. pageOf' \in [Cids -> Unlisted .. MaxPage]
  BY <1>1, <1>2, <1>4 DEF Shape
<1>6. \A d \in Cids : pageOf'[d] = pageOf[d] \/ pageOf'[d] = adder[a].page
  BY <1>1, <1>2, <1>4 DEF Shape
<1>7. /\ adder' \in [Adders -> [page : Unlisted .. MaxPage, todo : SUBSET Cids]]
      /\ \A b \in Adders : adder'[b].todo # {} =>
            adder[b].todo # {} /\ adder'[b].page = adder[b].page
  BY <1>1, <1>2, NextRow DEF Shape
<1>8. Shape'
  BY <1>1, <1>3, <1>5, <1>7 DEF Shape
<1>9. AddsAhead' /\ LeftDone'
  BY <1>1, <1>3, <1>7 DEF AddsAhead, LeftDone
<1>10. \A p \in done : p >= StartPage => p # adder[a].page
  <2>1. \A p \in done : p >= StartPage => p < adder[a].page
    BY <1>1, <1>2 DEF AddsAhead
  <2> QED BY <1>1, <1>4, <2>1 DEF Shape, Unlisted
<1>11. BodyWhole'
  <2> SUFFICES ASSUME NEW n \in Clients, client[n].body.done
               PROVE  /\ client[n].page \in done
                      /\ \A d \in Cids : pageOf'[d] = client[n].page => d \in client[n].body.cids
    BY <1>3 DEF BodyWhole, On
  <2>1. client[n].page \in done /\ client[n].page >= StartPage
    BY <1>1, <1>4 DEF BodyWhole, LeftDone, Shape
  <2>2. \A d \in Cids : pageOf[d] = client[n].page => d \in client[n].body.cids
    BY <1>1 DEF BodyWhole, On
  <2> QED BY <1>6, <1>10, <2>1, <2>2
<1>12. NothingBehind'
  <2> SUFFICES ASSUME NEW n \in Clients, NEW d \in Cids,
                      pageOf'[d] \in StartPage .. client[n].page - 1
               PROVE  d \in pinned[n]
    BY <1>3 DEF NothingBehind
  <2>1. pageOf'[d] \in done /\ pageOf'[d] >= StartPage
    BY <1>1, <1>4 DEF LeftDone, Shape
  <2>2. pageOf'[d] = pageOf[d]
    BY <1>6, <1>10, <2>1
  <2> QED BY <1>1, <2>2 DEF NothingBehind
<1> QED BY <1>8, <1>9, <1>11, <1>12 DEF WalkInv

\* Rows go: no row is on a page where it was not before.
LEMMA RemoveStep ==
    ASSUME WalkInv, removePermanentCids
    PROVE  WalkInv'
<1>1. Shape /\ AddsAhead /\ LeftDone /\ BodyWhole /\ NothingBehind
  BY DEF WalkInv
<1>2. PICK gone \in Removals :
         pageOf' = [c \in Cids |-> IF c \in gone THEN Unlisted ELSE pageOf[c]]
  BY DEF removePermanentCids
<1>3. /\ done' = done /\ adder' = adder /\ client' = client
      /\ saved' = saved /\ pinned' = pinned
  BY DEF removePermanentCids
<1>4. MaxPage \in Nat /\ StartPage \in Nat
  BY PagesConstants
<1>5. pageOf' \in [Cids -> Unlisted .. MaxPage]
  BY <1>1, <1>2, <1>4 DEF Shape, Unlisted
<1>6. \A c \in Cids : pageOf'[c] = pageOf[c] \/ pageOf'[c] = Unlisted
  BY <1>2
<1>7. Shape' /\ AddsAhead' /\ LeftDone'
  BY <1>1, <1>3, <1>5 DEF Shape, AddsAhead, LeftDone
<1>8. \A n \in Clients, c \in Cids : pageOf'[c] = client[n].page => pageOf'[c] = pageOf[c]
  BY <1>1, <1>6 DEF Shape, Unlisted
<1>9. BodyWhole'
  BY <1>1, <1>3, <1>8 DEF BodyWhole, On
<1>10. NothingBehind'
  <2> SUFFICES ASSUME NEW n \in Clients, NEW c \in Cids,
                      pageOf'[c] \in StartPage .. client[n].page - 1
               PROVE  c \in pinned[n]
    BY <1>3 DEF NothingBehind
  <2>1. pageOf'[c] = pageOf[c]
    BY <1>1, <1>4, <1>6 DEF Shape, Unlisted
  <2> QED BY <1>1, <2>1 DEF NothingBehind
<1> QED BY <1>7, <1>9, <1>10 DEF WalkInv

\* A page is fetched: metadata and rows are read under one lock.
LEMMA FetchStep ==
    ASSUME WalkInv, "read" \notin Faults, NEW n \in Clients, Fetch(n)
    PROVE  WalkInv'
<1>1. Shape /\ AddsAhead /\ LeftDone /\ BodyWhole /\ NothingBehind
  BY DEF WalkInv
<1> DEFINE B == buildPermanentPageJson(client[n].page)
<1>2. B.cids = On(client[n].page) /\ B.done = (client[n].page \in done)
      /\ B \in [cids : SUBSET Cids, done : BOOLEAN]
  BY DEF buildPermanentPageJson, On
<1> HIDE DEF B
<1>3. /\ client' = [client EXCEPT ![n].body = B]
      /\ pageOf' = pageOf /\ done' = done /\ adder' = adder /\ saved' = saved /\ pinned' = pinned
  BY DEF Fetch, Bodies, B
<1>4. client[n] \in [page : Nat, body : [cids : SUBSET Cids, done : BOOLEAN]]
  BY <1>1 DEF Shape
<1>5. client'[n].page = client[n].page /\ client'[n].body = B
      /\ client'[n] \in [page : Nat, body : [cids : SUBSET Cids, done : BOOLEAN]]
  BY <1>1, <1>2, <1>3, <1>4 DEF Shape
<1>6. \A m \in Clients : m # n => client'[m] = client[m]
  BY <1>1, <1>3 DEF Shape
<1>7. Shape'
  BY <1>1, <1>3, <1>5, <1>6 DEF Shape
<1>8. \A m \in Clients : client'[m].page = client[m].page
  BY <1>5, <1>6
<1>9. AddsAhead' /\ LeftDone' /\ NothingBehind'
  BY <1>1, <1>3, <1>8 DEF AddsAhead, LeftDone, NothingBehind
<1>10. BodyWhole'
  BY <1>1, <1>2, <1>3, <1>5, <1>6 DEF BodyWhole, On
<1> QED BY <1>7, <1>9, <1>10 DEF WalkInv

\* A visit ends: a page that is left was done, and all its rows were in the body.
LEMMA PinPageStep ==
    ASSUME WalkInv, PinFails = {}, NEW n \in Clients, PinPage(n)
    PROVE  WalkInv'
<1>1. Shape /\ AddsAhead /\ LeftDone /\ BodyWhole /\ NothingBehind
  BY DEF WalkInv
<1>2. pinned' = [pinned EXCEPT ![n] = @ \cup client[n].body.cids]
  <2>1. PICK failed \in SUBSET (client[n].body.cids \cap PinFails) :
           pinned' = [pinned EXCEPT ![n] = @ \cup (client[n].body.cids \ failed)]
    BY DEF PinPage
  <2>2. failed = {}
    OBVIOUS
  <2>3. client[n].body.cids \ failed = client[n].body.cids
    BY <2>2
  <2> QED BY <2>1, <2>3
<1>3. /\ client' = [client EXCEPT ![n] = [page |-> Advanced(n), body |-> NoBody]]
      /\ pageOf' = pageOf /\ done' = done /\ adder' = adder
  BY DEF PinPage
<1>4. PICK page \in {saved[n], Advanced(n)} : saved' = [saved EXCEPT ![n] = page]
  BY DEF PinPage
<1>5. /\ client[n].page \in Nat /\ client[n].body.cids \in SUBSET Cids /\ saved[n] \in Nat
      /\ StartPage \in Nat /\ StartPage <= saved[n] /\ saved[n] <= client[n].page
      /\ StartPage .. client[n].page - 1 \subseteq done
  BY <1>1, PagesConstants DEF Shape, LeftDone
<1>6. \/ Advanced(n) = client[n].page + 1 /\ client[n].body.done
      \/ Advanced(n) = client[n].page
  BY DEF Advanced
<1>7. NoBody \in [cids : SUBSET Cids, done : BOOLEAN] /\ ~NoBody.done
  BY DEF NoBody
<1>8. \A m \in Clients : m # n => client'[m] = client[m] /\ saved'[m] = saved[m]
                                  /\ pinned'[m] = pinned[m]
  BY <1>1, <1>2, <1>3, <1>4 DEF Shape
<1>9. /\ client'[n] = [page |-> Advanced(n), body |-> NoBody]
      /\ saved'[n] = page /\ pinned'[n] = pinned[n] \cup client[n].body.cids
  BY <1>1, <1>2, <1>3, <1>4 DEF Shape
<1>10. Advanced(n) \in Nat /\ page \in Nat /\ StartPage <= page /\ page <= Advanced(n)
  BY <1>5, <1>6
<1>11. Shape'
  <2>1. client' \in [Clients -> [page : Nat, body : [cids : SUBSET Cids, done : BOOLEAN]]]
    BY <1>1, <1>3, <1>7, <1>10 DEF Shape
  <2>2. saved' \in [Clients -> Nat] /\ pinned' \in [Clients -> SUBSET Cids]
    BY <1>1, <1>2, <1>4, <1>5, <1>10 DEF Shape
  <2> QED BY <1>1, <1>3, <2>1, <2>2 DEF Shape
<1>12. StartPage .. Advanced(n) - 1 \subseteq done
  <2>1. client[n].body.done => client[n].page \in done
    BY <1>1 DEF BodyWhole
  <2> QED BY <1>5, <1>6, <2>1
<1>13. AddsAhead' /\ LeftDone'
  BY <1>1, <1>3, <1>8, <1>9, <1>10, <1>12 DEF AddsAhead, LeftDone
<1>14. BodyWhole'
  BY <1>1, <1>3, <1>7, <1>8, <1>9 DEF BodyWhole, On
<1>15. NothingBehind'
  <2>1. ASSUME NEW c \in Cids, pageOf[c] \in StartPage .. Advanced(n) - 1
        PROVE  c \in pinned[n] \cup client[n].body.cids
    <3>1. CASE pageOf[c] \in StartPage .. client[n].page - 1
      BY <1>1, <3>1 DEF NothingBehind
    <3>2. CASE pageOf[c] \notin StartPage .. client[n].page - 1
      <4>1. pageOf[c] = client[n].page /\ client[n].body.done
        BY <1>5, <1>6, <2>1, <3>2
      <4> QED BY <1>1, <4>1 DEF BodyWhole, On
    <3> QED BY <3>1, <3>2
  <2> QED BY <1>1, <1>3, <1>8, <1>9, <2>1 DEF NothingBehind
<1> QED BY <1>11, <1>13, <1>14, <1>15 DEF WalkInv

\* A node starts again on the page it had written down, which is not ahead.
LEMMA RestartStep ==
    ASSUME WalkInv, NEW n \in Clients, Restart(n)
    PROVE  WalkInv'
<1>1. Shape /\ AddsAhead /\ LeftDone /\ BodyWhole /\ NothingBehind
  BY DEF WalkInv
<1>2. PICK some \in SUBSET client[n].body.cids :
         pinned' = [pinned EXCEPT ![n] = @ \cup some]
  BY DEF Restart
<1>3. /\ client' = [client EXCEPT ![n] = [page |-> saved[n], body |-> NoBody]]
      /\ pageOf' = pageOf /\ done' = done /\ adder' = adder /\ saved' = saved
  BY DEF Restart
<1>4. /\ client[n].page \in Nat /\ client[n].body.cids \in SUBSET Cids /\ saved[n] \in Nat
      /\ StartPage \in Nat /\ StartPage <= saved[n] /\ saved[n] <= client[n].page
  BY <1>1, PagesConstants DEF Shape, LeftDone
<1>5. NoBody \in [cids : SUBSET Cids, done : BOOLEAN] /\ ~NoBody.done
  BY DEF NoBody
<1>6. /\ \A m \in Clients : m # n => client'[m] = client[m] /\ pinned'[m] = pinned[m]
      /\ client'[n] = [page |-> saved[n], body |-> NoBody] /\ pinned'[n] = pinned[n] \cup some
  BY <1>1, <1>2, <1>3 DEF Shape
<1>7. Shape'
  <2>1. client' \in [Clients -> [page : Nat, body : [cids : SUBSET Cids, done : BOOLEAN]]]
    BY <1>1, <1>3, <1>4, <1>5 DEF Shape
  <2>2. pinned' \in [Clients -> SUBSET Cids]
    BY <1>1, <1>2, <1>4 DEF Shape
  <2> QED BY <1>1, <1>3, <2>1, <2>2 DEF Shape
<1>8. StartPage .. saved[n] - 1 \subseteq StartPage .. client[n].page - 1
  BY <1>4
<1>9. AddsAhead' /\ LeftDone'
  BY <1>1, <1>3, <1>4, <1>6, <1>8 DEF AddsAhead, LeftDone
<1>10. BodyWhole'
  BY <1>1, <1>3, <1>5, <1>6 DEF BodyWhole, On
<1>11. NothingBehind'
  BY <1>1, <1>3, <1>6, <1>8 DEF NothingBehind
<1> QED BY <1>7, <1>9, <1>10, <1>11 DEF WalkInv

-----------------------------------------------------------------------------
(* The results. *)

\* A node that has walked past a page has pinned every row the page still lists, through
\* additions, removals, failed writes of config.cfg, pages that could not be marked done
\* and restarts in any order.  One thread adds, pins do not throw, the pool can read its
\* tables, and the done pages above the first one keep a row at or above them: each is
\* needed (getWritablePage, permanentFetcherTask).
THEOREM NothingLeftBehind ==
    ASSUME \A a, b \in Adders : a = b, PinFails = {}, "read" \notin Faults
    PROVE  Spec /\ []DonePagesHeld => []NothingBehind
<1>1. Init => WalkInv
  BY WalkInit
<1>2. WalkInv /\ DonePagesHeld /\ [Next]_vars => WalkInv'
  <2> SUFFICES ASSUME WalkInv, DonePagesHeld, [Next]_vars
               PROVE  WalkInv'
    OBVIOUS
  <2>1. CASE UNCHANGED vars
    BY <2>1 DEF vars, WalkInv, Shape, AddsAhead, LeftDone, BodyWhole, NothingBehind, On
  <2>2. CASE \E a \in Adders : BeginAdd(a) \/ insertPermanentAsset(a)
    BY <2>2, BeginAddStep, InsertStep
  <2>3. CASE removePermanentCids
    BY <2>3, RemoveStep
  <2>4. CASE \E n \in Clients : Fetch(n) \/ PinPage(n) \/ Restart(n)
    BY <2>4, FetchStep, PinPageStep, RestartStep
  <2> QED BY <2>1, <2>2, <2>3, <2>4 DEF Next
<1>3. WalkInv => NothingBehind
  BY DEF WalkInv
<1> QED BY <1>1, <1>2, <1>3, PTL DEF Spec

\* The last condition is met by a pool from which nothing is removed, when the snapshot
\* left no page done above the rows it brought: pages are marked done from below, by
\* whichever thread finds them full (getWritablePage).
THEOREM PagesAreHeldUntilRemoval ==
    ASSUME Removals = {},
           \A p \in ImportedDone : p >= StartPage => \E c \in DOMAIN Imported : p <= Imported[c]
    PROVE  Spec => []DonePagesHeld
<1> DEFINE Inv == pageOf \in [Cids -> Unlisted .. MaxPage] /\ done \subseteq 0 .. MaxPage
                  /\ adder \in [Adders -> [page : Unlisted .. MaxPage, todo : SUBSET Cids]]
                  /\ DonePagesHeld
<1>1. Init => Inv
  <2> SUFFICES ASSUME Init PROVE Inv
    OBVIOUS
  <2>1. Shape
    BY WalkInit DEF WalkInv
  <2>2. DonePagesHeld
    <3> SUFFICES ASSUME NEW p \in ImportedDone, p >= StartPage
                 PROVE  p <= TopPage
      BY DEF Init, DonePagesHeld
    <3>1. PICK c \in DOMAIN Imported : p <= Imported[c]
      OBVIOUS
    <3>2. c \in Cids /\ pageOf[c] = Imported[c]
      BY PagesConstants DEF Init
    <3>3. pageOf[c] <= TopPage /\ TopPage \in Unlisted .. MaxPage /\ pageOf[c] \in Unlisted .. MaxPage
      BY <2>1, <3>2, TopPageProps DEF Shape
    <3> QED BY <3>1, <3>2, <3>3, PagesConstants DEF Unlisted
  <2> QED BY <2>1, <2>2 DEF Shape
<1>2. Inv /\ [Next]_vars => Inv'
  <2> SUFFICES ASSUME Inv, [Next]_vars PROVE Inv'
    OBVIOUS
  <2>0. MaxPage \in Nat /\ StartPage \in Nat /\ Batches \subseteq SUBSET Cids
    BY PagesConstants
  <2>1. TopPage \in Unlisted .. MaxPage
    BY TopPageProps
  <2>2. ASSUME pageOf' = pageOf, done' = done, adder' = adder
        PROVE  Inv'
    BY <2>2 DEF DonePagesHeld, TopPage
  <2>3. CASE UNCHANGED vars
    BY <2>2, <2>3 DEF vars
  <2>4. CASE \E n \in Clients : Fetch(n) \/ PinPage(n) \/ Restart(n)
    BY <2>2, <2>4 DEF Fetch, PinPage, Restart
  <2>5. ASSUME NEW a \in Adders, BeginAdd(a)
        PROVE  Inv'
    <3>1. PICK choice \in PageChoices, batch \in Batches :
             /\ choice.page <= MaxPage
             /\ adder' = [adder EXCEPT ![a] = [page |-> choice.page, todo |-> batch]]
             /\ done' = done \cup choice.marks
      BY <2>5 DEF BeginAdd
    <3>2. pageOf' = pageOf
      BY <2>5 DEF BeginAdd
    <3>3. /\ choice.marks \subseteq FinishedPages
          /\ choice.page \in {getWritablePage, StartPage, TopPage}
      BY DEF PageChoices
    <3>4. getWritablePage \in Int /\ getWritablePage >= Unlisted /\ FinishedPages \subseteq 0 .. MaxPage
      BY <2>0, <2>1 DEF getWritablePage, FinishedPages, Unlisted
    <3>5. adder' \in [Adders -> [page : Unlisted .. MaxPage, todo : SUBSET Cids]]
      <4>1. choice.page \in Unlisted .. MaxPage
        BY <2>0, <2>1, <3>1, <3>3, <3>4 DEF Unlisted
      <4> QED BY <2>0, <3>1, <4>1
    <3>6. TopPage' = TopPage
      BY <3>2 DEF TopPage
    <3>7. DonePagesHeld'
      BY <2>0, <2>1, <3>1, <3>3, <3>6 DEF DonePagesHeld, FinishedPages, Unlisted
    <3> QED BY <3>1, <3>2, <3>3, <3>4, <3>5, <3>7
  <2>6. ASSUME NEW a \in Adders, insertPermanentAsset(a)
        PROVE  Inv'
    <3>1. PICK c \in adder[a].todo :
             /\ \/ pageOf' = [pageOf EXCEPT ![c] = IF @ = Unlisted THEN adder[a].page ELSE @]
                \/ pageOf' = pageOf
             /\ adder' = [adder EXCEPT ![a] =
                            IF @.todo = {c} THEN Resting
                            ELSE [page |-> @.page, todo |-> @.todo \ {c}]]
      BY <2>6 DEF insertPermanentAsset
    <3>2. done' = done
      BY <2>6 DEF insertPermanentAsset
    <3>3. c \in Cids /\ adder[a].page \in Unlisted .. MaxPage
          /\ adder[a] \in [page : Unlisted .. MaxPage, todo : SUBSET Cids]
      OBVIOUS
    <3>4. pageOf' \in [Cids -> Unlisted .. MaxPage]
      BY <3>1, <3>3
    <3>5. adder' \in [Adders -> [page : Unlisted .. MaxPage, todo : SUBSET Cids]]
      BY <3>1, NextRow
    <3>6. \A d \in Cids : pageOf[d] <= pageOf'[d]
      BY <2>0, <3>1, <3>3 DEF Unlisted
    <3>7. TopPage <= TopPage' /\ TopPage' \in Unlisted .. MaxPage
      <4>1. /\ TopPage' \in Unlisted .. MaxPage
            /\ \A d \in Cids : pageOf'[d] <= TopPage'
        BY <3>4, HighestPage DEF TopPage
      <4>2. CASE TopPage = Unlisted
        BY <2>0, <4>1, <4>2 DEF Unlisted
      <4>3. CASE \E d \in Cids : TopPage = pageOf[d]
        <5>1. PICK d \in Cids : TopPage = pageOf[d]
          BY <4>3
        <5>2. pageOf[d] <= pageOf'[d] /\ pageOf'[d] <= TopPage'
              /\ pageOf[d] \in Int /\ pageOf'[d] \in Int /\ TopPage' \in Int
          BY <3>4, <3>6, <4>1 DEF Unlisted
        <5> QED BY <4>1, <5>1, <5>2
      <4> QED BY <4>1, <4>2, <4>3, TopPageProps
    <3>8. DonePagesHeld'
      BY <2>0, <2>1, <3>2, <3>7 DEF DonePagesHeld, Unlisted
    <3> QED BY <3>2, <3>4, <3>5, <3>8
  <2>7. ~removePermanentCids
    BY DEF removePermanentCids
  <2> QED BY <2>3, <2>4, <2>5, <2>6, <2>7 DEF Next
<1> QED BY <1>1, <1>2, PTL DEF Spec
=================================================================================
