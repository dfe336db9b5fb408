----------------------------- MODULE MCIPFSJobs -----------------------------
(***************************************************************************)
(* Instances of the job queue for TLC.                                     *)
(***************************************************************************)
EXTENDS IPFSJobs

CONSTANTS w1, w2

Domain  == [sync |-> "domain", callback |-> "named", maxTime |-> None]
Pin     == [sync |-> "pin", callback |-> "", maxTime |-> None]
Unpin   == [sync |-> "unpin", callback |-> "", maxTime |-> None]
Wait    == [sync |-> "", callback |-> "promise", maxTime |-> 1]

NoBacklog        == << >>
DomainBacklog    == <<Domain, Domain>>
MixedBacklog     == <<Domain, Pin, Pin>>
Nothing          == {}
Domains          == {Domain}
Waits            == {Wait}
DomainsAndWaits  == {Domain, Wait}
=============================================================================
