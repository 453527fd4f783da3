--------------------------- MODULE TraversalProps ---------------------------
(***************************************************************************)
(* What reading a collection page by page promises.                        *)
(***************************************************************************)
EXTENDS Traversal

Errors == {"unavailable", "unauthenticated", "protocol_changed"}

(* Every variable stays in its domain. *)
TypeOK ==
  /\ method \in Methods
  /\ remote \in {"full", "short", "odd"}
  /\ collection \in Collections
  /\ pc \in {"request", "done"} \cup Errors
  /\ cursor \in Nat \cup {None, Blank}
  /\ got \in Seq(Items)
  /\ pages \in 0 .. MaxPages
  /\ seen \subseteq Nat \cup {Blank}
  /\ asked \in Seq(Nat \cup {None, Blank})

(* No truncated collection is returned as complete: of a remote that lists *)
(* in order, a successful read returns everything, once and in order,      *)
(* whatever the sizes of its pages; an error returns nothing               *)
(* (docs/CLI-PRODUCT-CONTRACT.md:951-956).                                 *)
WholeOrNothing ==
  /\ pc = "done" /\ remote # "odd" => got = collection
  /\ pc \in Errors => got = <<>>

(* Whatever the remote answers, contacts and guests are read with one      *)
(* request more than the data pages accepted, cohost requests with one     *)
(* alone, and no more items are kept than the pages hold.                  *)
WorkIsBounded ==
  /\ method \in {"GetContacts", "GetGuests"} =>
       Len(asked) <= MaxPages + 1 /\ Len(got) <= MaxCatalog
  /\ method = "GetCohostRequests" => Len(asked) <= 1 /\ Len(got) <= PageSize

(* Whatever the remote answers, contacts and guests never ask for a page   *)
(* again, which would repeat its items.                                    *)
NoPageTwice ==
  method \in {"GetContacts", "GetGuests"} =>
    \A i, j \in 1 .. Len(asked) : asked[i] = asked[j] => i = j

Fits ==
  \/ method = "ListDocuments"
  \/ method = "GetCohostRequests" /\ Len(collection) <= PageSize
  \/ method \in {"GetContacts", "GetGuests"} /\ Len(collection) <= MaxCatalog

(* The bounds refuse nothing that fits them, up to the last item: a remote *)
(* that fills its pages is never told that its protocol has changed.       *)
FitsIsTaken == remote = "full" /\ Fits => pc # "protocol_changed"

(* Every read of a remote that lists in order ends, that of Firestore      *)
(* documents too, which counts nothing: each token leads further.          *)
EveryReadEnds == remote # "odd" => <>(pc # "request")
=============================================================================
