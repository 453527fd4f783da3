----------------------------- MODULE Traversal -----------------------------
(***************************************************************************)
(* How a remote collection is read, page by page (internal/remote).  Four  *)
(* methods, four disciplines:                                              *)
(*   GetContacts        a page without a cursor ends the list and must be  *)
(*                      empty; three data pages at most (contacts.go)      *)
(*   GetGuests          the last page may hold data; twenty data pages at  *)
(*                      most (guests.go)                                   *)
(*   ListDocuments      Firestore page tokens, followed without a bound    *)
(*                      (firestore_list.go)                                *)
(*   GetCohostRequests  one page, which must be the only one (cohosts.go)  *)
(* The remote is full (full pages, the observed behaviour), short (pages   *)
(* of any size, in order) or odd (anything that parses).                   *)
(***************************************************************************)
EXTENDS Integers, Sequences

CONSTANTS
  Items,         \* what a page holds
  Collections,   \* what the remote collection may be
  PageSize,      \* the page size a method requests
  MaxPages,      \* the data pages a method accepts
  OddPages,      \* the pages of an odd remote
  OddCursors,    \* and its cursors
  MaxRequests,   \* the bound on the requests of ListDocuments
  None,          \* the first request's cursor
  Absent,        \* a page without a cursor
  Null,          \* a cursor that is null
  Blank          \* a cursor that is the empty string

ASSUME CollectionAssumption == Collections \subseteq Seq(Items)
ASSUME LimitAssumption == PageSize \in Nat \ {0} /\ MaxPages \in Nat \ {0}
ASSUME OddAssumption == OddPages \subseteq Seq(Items) /\ OddCursors \subseteq Nat \ {0}
ASSUME BoundAssumption == MaxRequests \in Nat
ASSUME CursorAssumption ==
  /\ None \notin Nat /\ Absent \notin Nat /\ Null \notin Nat /\ Blank \notin Nat
  /\ None \notin {Absent, Null, Blank} /\ Absent \notin {Null, Blank} /\ Null # Blank

Methods == {"GetContacts", "GetGuests", "ListDocuments", "GetCohostRequests"}
MaxCatalog == PageSize * MaxPages

VARIABLES
  method,       \* the method that reads
  remote,       \* "full", "short" or "odd"
  collection,   \* what the remote holds; it does not change meanwhile
  pc,           \* "request", "done" or the error
  cursor,       \* the cursor of the next request
  got,          \* the catalog so far; <<>> is returned with an error
  pages,        \* dataPageCount
  seen,         \* seenCursors
  asked         \* history: the cursors of the requests so far

vars == <<method, remote, collection, pc, cursor, got, pages, seen, asked>>

Init ==
  /\ method \in Methods
  /\ remote \in {"full", "short", "odd"}
  /\ collection \in Collections
  /\ pc = "request"
  /\ cursor = None
  /\ got = <<>>
  /\ pages = 0
  /\ seen = {}
  /\ asked = <<>>

-----------------------------------------------------------------------------
Least(a, b) == IF a < b THEN a ELSE b

(* How the remote says that nothing follows. *)
EndForms ==
  [GetContacts |-> {Absent}, GetGuests |-> {Absent, Null},
   ListDocuments |-> {Absent, Blank}, GetCohostRequests |-> {Absent, Blank}]

Position == IF cursor = None THEN 0 ELSE cursor
Rest == Len(collection) - Position
Sizes ==
  IF remote = "full" \/ Rest = 0 THEN {Least(PageSize, Rest)}
                                 ELSE 1 .. Least(PageSize, Rest)

(* The cursors after n items.  Contacts end with an empty page, guests and *)
(* documents with data or with an empty page, and a cohost list only has a *)
(* token when there is more.                                               *)
NextForms(n) ==
  LET goesOn == n < Rest \/ (n > 0 /\ method # "GetCohostRequests")
      ends == n = Rest /\ (n > 0 => method # "GetContacts")
  IN (IF goesOn THEN {Position + n} ELSE {}) \cup (IF ends THEN EndForms[method] ELSE {})

Answers ==
  IF remote = "odd"
  THEN [items: OddPages, next: OddCursors \cup {Absent, Null, Blank}]
  ELSE UNION {[items: {SubSeq(collection, Position + 1, Position + n)},
               next: NextForms(n)] : n \in Sizes}

-----------------------------------------------------------------------------
Fail(error) ==
  /\ pc' = error
  /\ got' = <<>>
  /\ UNCHANGED <<cursor, pages, seen>>

Return(items) ==
  /\ pc' = "done"
  /\ got' = got \o items
  /\ UNCHANGED <<cursor, pages, seen>>

Restart(answer) ==                                             \* mutant
  /\ got' = got \o answer.items
  /\ UNCHANGED <<pc, cursor, pages, seen>>
Follow(answer) ==
  /\ got' = got \o answer.items
  /\ cursor' = answer.next
  /\ UNCHANGED <<pc, pages, seen>>

CountAndFollow(answer) ==
  /\ got' = got \o answer.items
  /\ cursor' = answer.next
  /\ pages' = pages + 1
  /\ seen' = seen \cup {answer.next}
  /\ UNCHANGED pc

(* The traversal bounds: data pages and items. *)
LatePageBound == pages > MaxPages                              \* mutant
PageBound == pages + 1 > MaxPages

EarlyItemBound(items) == Len(items) >= MaxCatalog - Len(got)   \* mutant
ItemBound(items) == Len(items) > MaxCatalog - Len(got)

NeverRepeated(next) == FALSE                                   \* mutant
Repeated(next) == next \in seen

(* GetContacts, with decodeContactNextCursor: a null cursor is an error.   *)
TakeContacts(answer) ==
  LET data == answer.items # <<>>
      last == answer.next = Absent
      protocolChanged ==
        \/ answer.next = Null
        \/ last = data
        \/ ~last /\ (PageBound \/ ItemBound(answer.items) \/ Repeated(answer.next))
  IN
  /\ method = "GetContacts"
  /\ \/ protocolChanged /\ Fail("protocol_changed")
     \/ ~protocolChanged /\ last /\ Return(<<>>)
     \/ ~protocolChanged /\ ~last /\ CountAndFollow(answer)

(* GetGuests, with decodeGuestNextCursor: a null cursor ends the list, a   *)
(* blank one is an error.                                                  *)
TakeGuests(answer) ==
  LET data == answer.items # <<>>
      last == answer.next \in {Absent, Null}
      protocolChanged ==
        \/ answer.next = Blank
        \/ data /\ (PageBound \/ ItemBound(answer.items))
        \/ ~last /\ (~data \/ Repeated(answer.next))
  IN
  /\ method = "GetGuests"
  /\ \/ protocolChanged /\ Fail("protocol_changed")
     \/ ~protocolChanged /\ last /\ Return(answer.items)
     \/ ~protocolChanged /\ ~last /\ CountAndFollow(answer)

(* listFirestoreDocuments: a missing, null or empty page token ends it.    *)
TakeDocuments(answer) ==
  LET last == answer.next \in {Absent, Null, Blank} IN
  /\ method = "ListDocuments"
  /\ \/ last /\ Return(answer.items)
     \/ ~last /\ Follow(answer)

FirstPageOnly(answer) == Len(answer.items) > PageSize          \* mutant
NotTheOnlyPage(answer) ==
  answer.next \notin {Absent, Blank} \/ Len(answer.items) > PageSize

(* GetCohostRequests *)
TakeCohostRequests(answer) ==
  /\ method = "GetCohostRequests"
  /\ \/ NotTheOnlyPage(answer) /\ Fail("protocol_changed")
     \/ ~NotTheOnlyPage(answer) /\ Return(answer.items)

(* The bound on the one read that has none; an orderly remote never needs  *)
(* more than one request per item and one for the end.                     *)
Asking ==
  /\ pc = "request"
  /\ method = "ListDocuments" =>
       Len(asked) < MaxRequests + (IF remote = "odd" THEN 0 ELSE Len(collection))

(* A request is answered. *)
Answered ==
  /\ Asking
  /\ \E answer \in Answers :
       \/ TakeContacts(answer)
       \/ TakeGuests(answer)
       \/ TakeDocuments(answer)
       \/ TakeCohostRequests(answer)
  /\ asked' = Append(asked, cursor)
  /\ UNCHANGED <<method, remote, collection>>

(* A request fails, or its answer is refused before it is taken: the       *)
(* transport, 401 with the reviewed body for contacts, and for an odd      *)
(* remote a status, a content type, a body or an item.                     *)
Refused ==
  /\ Asking
  /\ \/ Fail("unavailable")
     \/ method = "GetContacts" /\ Fail("unauthenticated")
     \/ remote = "odd" /\ Fail("protocol_changed")
  /\ asked' = Append(asked, cursor)
  /\ UNCHANGED <<method, remote, collection>>

Next == Answered \/ Refused

(* Every request ends: http.go gives it 30 seconds. *)
Spec == Init /\ [][Next]_vars /\ WF_vars(Next)
=============================================================================
