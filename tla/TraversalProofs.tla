--------------------------- MODULE TraversalProofs ---------------------------
(***************************************************************************)
(* Proofs, for any collection, any page size and any page bound, of what   *)
(* MCTraversal checks on small instances.                                  *)
(***************************************************************************)
EXTENDS TraversalProps, SequenceTheorems, TLAPS

Counting == method \in {"GetContacts", "GetGuests"}

(* Each counted request but the last brought a data page. *)
CountInv ==
  /\ Counting => /\ Len(got) <= MaxCatalog
                 /\ Len(asked) <= MaxPages + 1
                 /\ pc = "request" => Len(asked) = pages
  /\ method = "GetCohostRequests" =>
       IF pc = "request" THEN asked = <<>> /\ got = <<>> /\ cursor = None
                         ELSE Len(asked) <= 1 /\ Len(got) <= PageSize
  /\ pc \in Errors => got = <<>>

(* The next cursor has not been asked with: all that were are in seen. *)
AskedInv ==
  Counting =>
    /\ \A i \in 1 .. Len(asked) : asked[i] \in seen \cup {None}
    /\ \A i, j \in 1 .. Len(asked) : asked[i] = asked[j] => i = j
    /\ pc = "request" => /\ cursor \in seen \cup {None}
                         /\ \A i \in 1 .. Len(asked) : asked[i] # cursor

(* What a remote that lists in order has given so far is a prefix. *)
OrderInv ==
  remote # "odd" =>
    /\ pc = "request" => /\ cursor \in Nat \cup {None}
                         /\ Position <= Len(collection)
                         /\ got = SubSeq(collection, 1, Position)
                         /\ \A c \in seen : c \in Nat /\ c <= Position
    /\ pc = "done" => got = collection

(* A full remote has filled every page but perhaps the last. *)
FullInv ==
  remote = "full" =>
    /\ pc = "request" /\ Counting => Position = Least(pages * PageSize, Len(collection))
    /\ Fits => pc # "protocol_changed"

(* The inductive invariant. *)
ReadInv == TypeOK /\ CountInv /\ AskedInv /\ OrderInv /\ FullInv

-----------------------------------------------------------------------------
LEMMA CatalogType == MaxCatalog \in Nat /\ MaxCatalog >= PageSize
<1>1. PICK s \in Nat, n \in Nat : PageSize = s + 1 /\ MaxPages = n + 1
  <2>1. PageSize - 1 \in Nat /\ MaxPages - 1 \in Nat
    BY LimitAssumption
  <2>. QED BY <2>1, LimitAssumption
<1>2. (s + 1) * (n + 1) = s * n + s + n + 1
  BY Z3
<1>3. s * n \in Nat
  BY Z3
<1>. QED BY <1>1, <1>2, <1>3 DEF MaxCatalog

(* A full page more still keeps within the pages that the collection takes. *)
LEMMA PagesLeft ==
  ASSUME NEW n \in Nat, n * PageSize < MaxCatalog
  PROVE  /\ n + 1 <= MaxPages
         /\ (n + 1) * PageSize = n * PageSize + PageSize
         /\ n * PageSize \in Nat
         /\ n * PageSize + PageSize <= MaxCatalog
<1>. PageSize \in Nat /\ PageSize >= 1 /\ MaxPages \in Nat
  BY LimitAssumption
<1>1. n * PageSize \in Nat /\ (n + 1) * PageSize = n * PageSize + PageSize
  BY Z3
<1>2. n < MaxPages
  <2>1. SUFFICES ASSUME n >= MaxPages PROVE FALSE
    OBVIOUS
  <2>2. PICK d \in Nat : n = MaxPages + d
    BY <2>1
  <2>3. n * PageSize = PageSize * MaxPages + d * PageSize /\ d * PageSize >= 0
    BY <2>2, Z3
  <2>. QED BY <2>3 DEF MaxCatalog
<1>3. PICK d \in Nat : MaxPages = n + 1 + d
  BY <1>2
<1>4. PageSize * MaxPages = (n + 1) * PageSize + d * PageSize /\ d * PageSize >= 0
  BY <1>3, Z3
<1>. QED BY <1>1, <1>2, <1>4 DEF MaxCatalog

(* What a page of a remote that lists in order holds. *)
LEMMA InOrder ==
  ASSUME TypeOK, OrderInv, pc = "request", remote # "odd", NEW answer \in Answers
  PROVE  \E n \in Nat :
           /\ n <= PageSize /\ Position \in Nat
           /\ Position + n <= Len(collection)
           /\ n = 0 <=> Position = Len(collection)
           /\ answer.items = SubSeq(collection, Position + 1, Position + n)
           /\ Len(answer.items) = n
           /\ answer.next \in NextForms(n)
           /\ remote = "full" => n = Least(PageSize, Rest)
<1>1. /\ Position \in Nat /\ Len(collection) \in Nat
      /\ Position <= Len(collection) /\ Rest \in Nat
      /\ collection \in Seq(Items)
  BY CollectionAssumption DEF TypeOK, OrderInv, Position, Rest
<1>2. PICK n \in Sizes : answer \in [items: {SubSeq(collection, Position + 1, Position + n)},
                                     next: NextForms(n)]
  BY DEF Answers
<1>3. /\ n \in Nat /\ n <= PageSize /\ n <= Rest
      /\ n = 0 <=> Rest = 0
      /\ remote = "full" => n = Least(PageSize, Rest)
  BY <1>1, <1>2, LimitAssumption DEF Sizes, Least
<1>4. Len(SubSeq(collection, Position + 1, Position + n)) = n
  BY <1>1, <1>3 DEF Rest
<1>. QED BY <1>1, <1>2, <1>3, <1>4 DEF Rest

(* A page and what came before it. *)
LEMMA Joins ==
  ASSUME NEW c \in Seq(Items), NEW m \in Nat, NEW n \in Nat, m + n <= Len(c)
  PROVE  SubSeq(c, 1, m) \o SubSeq(c, m + 1, m + n) = SubSeq(c, 1, m + n)
<1>1. 1 \in 1 .. Len(c) + 1 /\ m \in 1 - 1 .. Len(c) /\ m + n \in m .. Len(c)
  OBVIOUS
<1>. QED BY <1>1, ConcatAdjacentSubSeq

LEMMA AnswerType ==
  ASSUME TypeOK, pc = "request", OrderInv, NEW answer \in Answers
  PROVE  /\ answer.items \in Seq(Items)
         /\ answer.next \in Nat \cup {Absent, Null, Blank}
<1>1. CASE remote = "odd"
  BY <1>1, OddAssumption DEF Answers
<1>2. CASE remote # "odd"
  <2>1. PICK n \in Nat :
           /\ Position \in Nat
           /\ Position + n <= Len(collection)
           /\ answer.items = SubSeq(collection, Position + 1, Position + n)
           /\ answer.next \in NextForms(n)
    BY <1>2, InOrder
  <2>2. NextForms(n) \subseteq Nat \cup {Absent, Null, Blank}
    BY <2>1 DEF NextForms, EndForms, TypeOK, Methods
  <2>3. collection \in Seq(Items)
    BY CollectionAssumption DEF TypeOK
  <2>. QED BY <2>1, <2>2, <2>3
<1>. QED BY <1>1, <1>2

-----------------------------------------------------------------------------
LEMMA ReadInit == Init => ReadInv
<1>. SUFFICES ASSUME Init PROVE ReadInv
  OBVIOUS
<1>0. collection \in Seq(Items) /\ PageSize \in Nat /\ MaxPages \in Nat /\ MaxCatalog \in Nat
  BY CollectionAssumption, LimitAssumption, CatalogType DEF Init
<1>1. TypeOK
  BY <1>0 DEF Init, TypeOK, Errors
<1>2. CountInv /\ AskedInv
  BY <1>0 DEF Init, CountInv, AskedInv, Counting, Errors
<1>3. Position = 0 /\ Len(collection) \in Nat
  BY <1>0 DEF Init, Position
<1>4. OrderInv
  <2>1. SubSeq(collection, 1, 0) = <<>>
    BY <1>0
  <2>. QED BY <1>0, <1>3, <2>1 DEF Init, OrderInv
<1>5. FullInv
  <2>1. 0 * PageSize = 0
    BY <1>0
  <2>. QED BY <1>3, <2>1 DEF Init, FullInv, Least
<1>. QED BY <1>1, <1>2, <1>4, <1>5 DEF ReadInv
-----------------------------------------------------------------------------
(* A request is over: the read fails, ends, or goes on. *)
Requested ==
  /\ pc = "request"
  /\ asked' = Append(asked, cursor)
  /\ UNCHANGED <<method, remote, collection>>

LEMMA AskedType ==
  ASSUME TypeOK, Requested
  PROVE  /\ asked' \in Seq(Nat \cup {None, Blank})
         /\ Len(asked') = Len(asked) + 1 /\ Len(asked) \in Nat
         /\ \A i \in 1 .. Len(asked) : asked'[i] = asked[i]
         /\ asked'[Len(asked) + 1] = cursor
BY DEF TypeOK, Requested

LEMMA AskedDistinct ==
  ASSUME ReadInv, Requested, Counting
  PROVE  /\ \A i \in 1 .. Len(asked') : asked'[i] \in seen \cup {None}
         /\ \A i, j \in 1 .. Len(asked') : asked'[i] = asked'[j] => i = j
<1>1. /\ Len(asked') = Len(asked) + 1 /\ Len(asked) \in Nat
      /\ \A i \in 1 .. Len(asked) : asked'[i] = asked[i]
      /\ asked'[Len(asked) + 1] = cursor
  BY AskedType DEF ReadInv
<1>2. \A i \in 1 .. Len(asked') : i \in 1 .. Len(asked) \/ i = Len(asked) + 1
  BY <1>1
<1>3. AskedInv /\ pc = "request"
  BY DEF ReadInv, Requested
<1>. QED BY <1>1, <1>2, <1>3 DEF AskedInv

LEMMA FailStep ==
  ASSUME ReadInv, Requested, NEW error \in Errors, Fail(error),
         remote = "full" /\ Fits => error # "protocol_changed"
  PROVE  ReadInv'
<1>1. TypeOK /\ CountInv /\ AskedInv
  BY DEF ReadInv
<1>2. TypeOK'
  BY <1>1, AskedType DEF TypeOK, Fail, Requested
<1>3. CountInv'
  <2>1. Len(<<>>) = 0 /\ MaxCatalog \in Nat /\ PageSize \in Nat /\ error # "request"
    BY CatalogType, LimitAssumption DEF Errors
  <2>2. Len(asked) \in Nat /\ Len(asked') = Len(asked) + 1
    BY <1>1, AskedType
  <2>3. Counting => Len(asked) = pages /\ pages <= MaxPages /\ pages \in Nat /\ MaxPages \in Nat
    BY <1>1, LimitAssumption DEF CountInv, TypeOK, Requested
  <2>4. method = "GetCohostRequests" => Len(asked) = 0
    BY <1>1 DEF CountInv, Requested
  <2>. QED BY <2>1, <2>2, <2>3, <2>4 DEF CountInv, Fail, Requested, Counting
<1>4. AskedInv'
  <2>1. Counting => /\ \A i \in 1 .. Len(asked') : asked'[i] \in seen \cup {None}
                    /\ \A i, j \in 1 .. Len(asked') : asked'[i] = asked'[j] => i = j
    BY AskedDistinct
  <2>. QED BY <2>1 DEF AskedInv, Fail, Requested, Counting, Errors
<1>5. OrderInv' /\ FullInv'
  BY DEF OrderInv, FullInv, Fits, Fail, Requested, Errors
<1>. QED BY <1>2, <1>3, <1>4, <1>5 DEF ReadInv

LEMMA ReturnStep ==
  ASSUME ReadInv, Requested, NEW items \in Seq(Items), Return(items),
         remote # "odd" => got \o items = collection,
         Counting => Len(items) <= MaxCatalog - Len(got),
         method = "GetCohostRequests" => Len(items) <= PageSize
  PROVE  ReadInv'
<1>1. TypeOK /\ CountInv /\ AskedInv
  BY DEF ReadInv
<1>2. got \in Seq(Items) /\ got \o items \in Seq(Items) /\ Len(got \o items) = Len(got) + Len(items)
  BY <1>1 DEF TypeOK
<1>3. TypeOK'
  BY <1>1, <1>2, AskedType DEF TypeOK, Return, Requested
<1>4. CountInv'
  <2>1. MaxCatalog \in Nat /\ PageSize \in Nat /\ MaxPages \in Nat
    BY CatalogType, LimitAssumption
  <2>2. Len(asked) \in Nat /\ Len(asked') = Len(asked) + 1
    BY <1>1, AskedType
  <2>3. Counting => Len(asked) = pages /\ pages <= MaxPages /\ pages \in Nat
    BY <1>1 DEF CountInv, TypeOK, Requested
  <2>4. method = "GetCohostRequests" => Len(asked) = 0 /\ Len(got) = 0
    BY <1>1 DEF CountInv, Requested
  <2>. QED BY <1>2, <2>1, <2>2, <2>3, <2>4 DEF CountInv, Return, Requested, Counting, Errors
<1>5. AskedInv'
  <2>1. Counting => /\ \A i \in 1 .. Len(asked') : asked'[i] \in seen \cup {None}
                    /\ \A i, j \in 1 .. Len(asked') : asked'[i] = asked'[j] => i = j
    BY AskedDistinct
  <2>. QED BY <2>1 DEF AskedInv, Return, Requested, Counting
<1>6. OrderInv' /\ FullInv'
  BY DEF OrderInv, FullInv, Fits, Return, Requested
<1>. QED BY <1>3, <1>4, <1>5, <1>6 DEF ReadInv

(* A page in order moves the position by its items and joins the prefix.   *)
LEMMA Advance ==
  ASSUME ReadInv, Requested, NEW answer \in Answers, remote # "odd",
         answer.next \in Nat \cup {Blank}, method # "GetCohostRequests",
         cursor' = answer.next, got' = got \o answer.items,
         method = "ListDocuments" => answer.next # Blank
  PROVE  /\ Position' \in Nat /\ Position \in Nat /\ Len(collection) \in Nat
         /\ Position <= Position' /\ Position' <= Len(collection)
         /\ Position = Len(collection) \/ Position < Position'
         /\ Position' = answer.next
         /\ got' = SubSeq(collection, 1, Position')
         /\ remote = "full" => Position' = Position + Least(PageSize, Rest)
<1>0. TypeOK /\ OrderInv /\ pc = "request" /\ collection \in Seq(Items) /\ collection' = collection
  BY CollectionAssumption DEF ReadInv, Requested, TypeOK
<1>1. PICK n \in Nat :
           /\ n <= PageSize /\ Position \in Nat
           /\ Position + n <= Len(collection)
           /\ n = 0 <=> Position = Len(collection)
           /\ answer.items = SubSeq(collection, Position + 1, Position + n)
           /\ answer.next \in NextForms(n)
           /\ remote = "full" => n = Least(PageSize, Rest)
  BY <1>0, InOrder
<1>2. answer.next = Position + n
  <2>1. answer.next \notin {Absent, Null} /\ Position + n \in Nat
    BY <1>1, CursorAssumption
  <2>2. CASE method = "GetContacts"
    BY <1>1, <2>1, <2>2 DEF NextForms, EndForms
  <2>3. CASE method = "GetGuests"
    BY <1>1, <2>1, <2>3 DEF NextForms, EndForms
  <2>4. CASE method = "ListDocuments"
    BY <1>1, <2>1, <2>4 DEF NextForms, EndForms
  <2>. QED BY <1>0, <2>2, <2>3, <2>4 DEF TypeOK, Methods
<1>3. Position' = answer.next
  BY <1>1, <1>2, CursorAssumption DEF Position
<1>4. got = SubSeq(collection, 1, Position)
  BY <1>0 DEF OrderInv
<1>5. got' = SubSeq(collection, 1, Position + n)
  BY <1>0, <1>1, <1>4, Joins
<1>6. Len(collection) \in Nat
  BY <1>0
<1>7. Position' = Position + n /\ Position' = answer.next
  BY <1>2, <1>3
<1>8. got' = SubSeq(collection, 1, Position')
  BY <1>5, <1>7
<1>9. /\ Position' \in Nat /\ Position <= Position' /\ Position' <= Len(collection)
      /\ Position = Len(collection) \/ Position < Position'
  BY <1>1, <1>6, <1>7
<1>10. remote = "full" => Position' = Position + Least(PageSize, Rest)
  BY <1>1, <1>7
<1>. QED BY <1>1, <1>6, <1>7, <1>8, <1>9, <1>10

LEMMA CountStep ==
  ASSUME ReadInv, Requested, NEW answer \in Answers, Counting,
         answer.next \in Nat \cup {Blank},
         ~PageBound, ~ItemBound(answer.items), ~Repeated(answer.next),
         CountAndFollow(answer)
  PROVE  ReadInv'
<1>1. /\ TypeOK /\ CountInv /\ AskedInv /\ OrderInv /\ FullInv /\ pc = "request"
      /\ method # "GetCohostRequests" /\ method # "ListDocuments"
  BY DEF ReadInv, Requested, Counting
<1>2. /\ pages \in Nat /\ pages + 1 <= MaxPages /\ MaxPages \in Nat /\ MaxCatalog \in Nat
      /\ PageSize \in Nat /\ PageSize >= 1
  BY <1>1, LimitAssumption, CatalogType DEF TypeOK, PageBound
<1>3. /\ answer.items \in Seq(Items) /\ got \in Seq(Items) /\ got' \in Seq(Items)
      /\ Len(got') = Len(got) + Len(answer.items) /\ Len(got') \in Nat
      /\ Len(got') <= MaxCatalog
  <2>1. answer.items \in Seq(Items) /\ got \in Seq(Items) /\ got' = got \o answer.items
    BY <1>1, AnswerType DEF TypeOK, CountAndFollow
  <2>2. Len(answer.items) \in Nat /\ Len(got) \in Nat
    BY <2>1
  <2>3. Len(answer.items) <= MaxCatalog - Len(got)
    BY <1>2, <2>2 DEF ItemBound
  <2>. QED BY <1>2, <2>1, <2>2, <2>3
<1>4. TypeOK'
  <2>1. cursor' \in Nat \cup {None, Blank}
    BY DEF CountAndFollow
  <2>2. pages' \in 0 .. MaxPages
    BY <1>2 DEF CountAndFollow
  <2>3. seen' \subseteq Nat \cup {Blank}
    BY <1>1 DEF TypeOK, CountAndFollow
  <2>4. asked' \in Seq(Nat \cup {None, Blank})
    BY <1>1, AskedType
  <2>. QED BY <1>1, <1>3, <2>1, <2>2, <2>3, <2>4 DEF TypeOK, CountAndFollow, Requested
<1>5. CountInv'
  <2>1. Len(asked) = pages /\ Len(asked') = pages + 1 /\ pages' = pages + 1
    BY <1>1, AskedType DEF CountInv, CountAndFollow, Requested
  <2>. QED BY <1>1, <1>2, <1>3, <2>1 DEF CountInv, CountAndFollow, Requested, Errors
<1>6. AskedInv'
  <2>1. /\ \A i \in 1 .. Len(asked') : asked'[i] \in seen \cup {None}
        /\ \A i, j \in 1 .. Len(asked') : asked'[i] = asked'[j] => i = j
    BY AskedDistinct
  <2>2. answer.next \notin seen \cup {None} /\ cursor' = answer.next /\ seen' = seen \cup {answer.next}
    BY CursorAssumption DEF Repeated, CountAndFollow
  <2>. QED BY <2>1, <2>2 DEF AskedInv
<1>7. ASSUME remote # "odd"
      PROVE  /\ Position' \in Nat /\ Position \in Nat /\ Len(collection) \in Nat
             /\ Position <= Position' /\ Position' <= Len(collection)
             /\ Position = Len(collection) \/ Position < Position'
             /\ Position' = answer.next
             /\ got' = SubSeq(collection, 1, Position')
             /\ remote = "full" => Position' = Position + Least(PageSize, Rest)
  BY <1>1, <1>7, Advance DEF CountAndFollow
<1>8. OrderInv'
  <2>1. SUFFICES ASSUME remote # "odd" PROVE OrderInv'
    BY DEF OrderInv, Requested
  <2>2. \A c \in seen : c \in Nat /\ c <= Position
    BY <1>1, <2>1 DEF OrderInv
  <2>3. seen' = seen \cup {answer.next} /\ collection' = collection /\ pc' = "request"
    BY <1>1 DEF CountAndFollow, Requested
  <2>4. \A c \in seen' : c \in Nat /\ c <= Position'
    <3>. QED BY <1>7, <2>1, <2>2, <2>3
  <2>5. cursor' \in Nat
    BY <1>7, <2>1 DEF CountAndFollow
  <2>. QED BY <1>7, <2>1, <2>3, <2>4, <2>5 DEF OrderInv
<1>9. FullInv'
  <2>1. SUFFICES ASSUME remote = "full" PROVE FullInv'
    BY DEF FullInv, Requested
  <2>2. Position = Least(pages * PageSize, Len(collection))
    BY <1>1, <2>1 DEF FullInv
  <2>3. Position' = Position + Least(PageSize, Len(collection) - Position)
    BY <1>7, <2>1 DEF Rest
  <2>4. Position' = Least((pages + 1) * PageSize, Len(collection))
    <3> DEFINE full == pages * PageSize
    <3>1. (pages + 1) * PageSize = full + PageSize /\ full \in Nat
      BY <1>2, Z3
    <3>2. Position = Least(full, Len(collection))
      BY <2>2
    <3> HIDE DEF full
    <3>3. Position \in Nat /\ Len(collection) \in Nat
      BY <1>7, <2>1
    <3>4. Position + Least(PageSize, Len(collection) - Position)
            = Least(full + PageSize, Len(collection))
      <4>1. CASE full < Len(collection)
        BY <1>2, <3>1, <3>2, <3>3, <4>1 DEF Least
      <4>2. CASE ~(full < Len(collection))
        BY <1>2, <3>1, <3>2, <3>3, <4>2 DEF Least
      <4>. QED BY <4>1, <4>2
    <3>. QED BY <2>3, <3>1, <3>4
  <2>5. pages' = pages + 1 /\ collection' = collection /\ pc' = "request"
    BY <1>1 DEF CountAndFollow, Requested
  <2>. QED BY <2>4, <2>5 DEF FullInv, Counting
<1>. QED BY <1>4, <1>5, <1>6, <1>8, <1>9 DEF ReadInv

LEMMA FollowStep ==
  ASSUME ReadInv, Requested, NEW answer \in Answers, method = "ListDocuments",
         answer.next \in Nat, Follow(answer)
  PROVE  ReadInv'
<1>1. TypeOK /\ OrderInv /\ pc = "request"
  BY DEF ReadInv, Requested
<1>2. got' \in Seq(Items)
  <2>1. answer.items \in Seq(Items) /\ got \in Seq(Items) /\ got' = got \o answer.items
    BY <1>1, AnswerType DEF TypeOK, Follow
  <2>. QED BY <2>1
<1>3. TypeOK'
  BY <1>1, <1>2, AskedType DEF TypeOK, Follow, Requested
<1>4. CountInv' /\ AskedInv' /\ FullInv'
  BY <1>1 DEF CountInv, AskedInv, FullInv, Counting, Follow, Requested, Errors
<1>5. OrderInv'
  <2>1. SUFFICES ASSUME remote # "odd" PROVE OrderInv'
    BY DEF OrderInv, Requested
  <2>2. answer.next # Blank
    BY CursorAssumption
  <2>3. /\ Position' \in Nat /\ Position \in Nat /\ Len(collection) \in Nat
        /\ Position <= Position' /\ Position' <= Len(collection)
        /\ got' = SubSeq(collection, 1, Position')
    BY <2>1, <2>2, Advance DEF Follow
  <2>4. \A c \in seen : c \in Nat /\ c <= Position
    BY <1>1, <2>1 DEF OrderInv
  <2>5. seen' = seen /\ collection' = collection /\ pc' = "request"
    BY <1>1 DEF Follow, Requested
  <2>6. \A c \in seen' : c \in Nat /\ c <= Position'
    <3>. QED BY <2>3, <2>4, <2>5
  <2>7. cursor' \in Nat
    BY DEF Follow
  <2>. QED BY <2>3, <2>5, <2>6, <2>7 DEF OrderInv
<1>. QED BY <1>3, <1>4, <1>5 DEF ReadInv

-----------------------------------------------------------------------------
(* A full page is within the bounds while the collection is. *)
LEMMA PageFits ==
  ASSUME ReadInv, pc = "request", remote = "full", Fits, Counting, NEW answer \in Answers
  PROVE  /\ answer.items # <<>> => ~PageBound /\ ~ItemBound(answer.items)
         /\ answer.next \in Nat => answer.items # <<>> /\ ~Repeated(answer.next)
         /\ method = "GetContacts" =>
              answer.next \in Nat \cup {Absent} /\ (answer.next = Absent => answer.items = <<>>)
         /\ answer.next \in Nat \cup {Absent, Null}
<1>1. TypeOK /\ OrderInv /\ FullInv /\ remote # "odd"
  BY DEF ReadInv
<1>2. PICK n \in Nat :
           /\ n <= PageSize /\ Position \in Nat
           /\ Position + n <= Len(collection)
           /\ n = 0 <=> Position = Len(collection)
           /\ answer.items = SubSeq(collection, Position + 1, Position + n)
           /\ Len(answer.items) = n
           /\ answer.next \in NextForms(n)
  BY <1>1, InOrder
<1>3. answer.items = <<>> <=> n = 0
  <2>1. answer.items \in Seq(Items)
    BY <1>1, AnswerType
  <2>. QED BY <1>2, <2>1, EmptySeq
<1>4. \/ answer.next = Position + n /\ n > 0
      \/ answer.next \in EndForms[method] /\ (n > 0 => method # "GetContacts")
  <2>1. n > 0 \/ ~(n < Rest)
    BY <1>2 DEF Rest
  <2>. QED BY <1>2, <2>1 DEF NextForms
<1>5. /\ EndForms[method] \subseteq {Absent, Null}
      /\ method = "GetContacts" => EndForms[method] = {Absent}
  BY DEF Counting, EndForms
<1>6. ASSUME n > 0 PROVE ~PageBound /\ ~ItemBound(answer.items)
  <2>1. Position = Least(pages * PageSize, Len(collection)) /\ Position < Len(collection)
    BY <1>1, <1>2, <1>6 DEF FullInv
  <2>2. Len(collection) <= MaxCatalog
    BY DEF Fits, Counting
  <2>3. pages \in Nat /\ Len(collection) \in Nat /\ pages * PageSize \in Nat
    <3>1. pages \in Nat /\ PageSize \in Nat
      BY <1>1, LimitAssumption DEF TypeOK
    <3>2. pages * PageSize \in Nat
      BY <3>1, Z3
    <3>. QED BY <1>1, <3>1, <3>2, CollectionAssumption DEF TypeOK
  <2>4. pages * PageSize < MaxCatalog /\ Position = pages * PageSize
    BY <2>1, <2>2, <2>3, CatalogType DEF Least
  <2>5. pages + 1 <= MaxPages /\ pages * PageSize + PageSize <= MaxCatalog
    BY <2>3, <2>4, PagesLeft
  <2>6. Len(got) = Position
    BY <1>1, <1>2, <2>3, CollectionAssumption DEF OrderInv, TypeOK
  <2>. QED BY <1>2, <2>3, <2>4, <2>5, <2>6, LimitAssumption, CatalogType DEF PageBound, ItemBound
<1>7. ASSUME n > 0 PROVE Position + n \notin seen
  BY <1>1, <1>2, <1>7 DEF OrderInv
<1>8. answer.items # <<>> => ~PageBound /\ ~ItemBound(answer.items)
  BY <1>3, <1>6
<1>9. answer.next \in Nat => n > 0 /\ ~Repeated(answer.next)
  BY <1>4, <1>5, <1>7, CursorAssumption DEF Repeated
<1>10. answer.next \in Nat \cup {Absent, Null}
  BY <1>2, <1>4, <1>5
<1>11. method = "GetContacts" =>
         answer.next \in Nat \cup {Absent} /\ (answer.next = Absent => n = 0)
  BY <1>2, <1>4, <1>5, CursorAssumption
<1>. QED BY <1>3, <1>8, <1>9, <1>10, <1>11

(* A read of a remote that lists in order returns the whole collection.    *)
LEMMA LastPage ==
  ASSUME ReadInv, pc = "request", remote # "odd", NEW answer \in Answers,
         answer.next \in {Absent, Null, Blank}
  PROVE  got \o answer.items = collection
<1>1. TypeOK /\ OrderInv /\ collection \in Seq(Items)
  BY CollectionAssumption DEF ReadInv, TypeOK
<1>2. PICK n \in Nat :
           /\ Position \in Nat /\ Position + n <= Len(collection)
           /\ answer.items = SubSeq(collection, Position + 1, Position + n)
           /\ answer.next \in NextForms(n)
  BY <1>1, InOrder
<1>3. n = Rest
  <2>1. Position + n # answer.next
    BY <1>2, CursorAssumption
  <2>. QED BY <1>2, <2>1 DEF NextForms
<1>4. Position + n = Len(collection)
  BY <1>1, <1>2, <1>3 DEF Rest
<1>5. got = SubSeq(collection, 1, Position)
  BY <1>1 DEF OrderInv
<1>6. got \o answer.items = SubSeq(collection, 1, Len(collection))
  BY <1>1, <1>2, <1>4, <1>5, Joins
<1>. QED BY <1>1, <1>6, SubSeqFull

LEMMA ContactsStep ==
  ASSUME ReadInv, Requested, NEW answer \in Answers, TakeContacts(answer)
  PROVE  ReadInv'
<1> DEFINE data == answer.items # <<>>
           last == answer.next = Absent
           protocolChanged ==
             \/ answer.next = Null
             \/ last = data
             \/ ~last /\ (PageBound \/ ItemBound(answer.items) \/ Repeated(answer.next))
<1>1. /\ TypeOK /\ OrderInv /\ CountInv /\ pc = "request" /\ Counting
      /\ method = "GetContacts"
  BY DEF ReadInv, Requested, TakeContacts, Counting
<1>2. answer.items \in Seq(Items) /\ answer.next \in Nat \cup {Absent, Null, Blank}
  BY <1>1, AnswerType
<1>3. CASE protocolChanged /\ Fail("protocol_changed")
  <2>1. ~(remote = "full" /\ Fits)
    <3>1. SUFFICES ASSUME remote = "full", Fits PROVE ~protocolChanged
      BY <1>3
    <3>2. /\ answer.items # <<>> => ~PageBound /\ ~ItemBound(answer.items)
          /\ answer.next \in Nat => answer.items # <<>> /\ ~Repeated(answer.next)
          /\ answer.next \in Nat \cup {Absent}
          /\ answer.next = Absent => answer.items = <<>>
      BY <1>1, <3>1, PageFits
    <3>. QED BY <3>2, CursorAssumption
  <2>. QED BY <1>3, <2>1, FailStep DEF Errors
<1>4. CASE ~protocolChanged /\ last /\ Return(<<>>)
  <2>1. answer.items = <<>>
    BY <1>4
  <2>2. remote # "odd" => got \o <<>> = collection
    BY <1>1, <1>4, <2>1, LastPage
  <2>3. Len(<<>>) = 0 /\ <<>> \in Seq(Items) /\ Len(<<>>) <= MaxCatalog - Len(got)
    BY <1>1, CatalogType DEF CountInv, TypeOK
  <2>. QED BY <1>1, <1>4, <2>2, <2>3, ReturnStep
<1>5. CASE ~protocolChanged /\ ~last /\ CountAndFollow(answer)
  BY <1>1, <1>2, <1>5, CountStep
<1>. QED BY <1>3, <1>4, <1>5 DEF TakeContacts

LEMMA GuestsStep ==
  ASSUME ReadInv, Requested, NEW answer \in Answers, TakeGuests(answer)
  PROVE  ReadInv'
<1> DEFINE data == answer.items # <<>>
           last == answer.next \in {Absent, Null}
           protocolChanged ==
             \/ answer.next = Blank
             \/ data /\ (PageBound \/ ItemBound(answer.items))
             \/ ~last /\ (~data \/ Repeated(answer.next))
<1>1. /\ TypeOK /\ OrderInv /\ CountInv /\ pc = "request" /\ Counting
      /\ method = "GetGuests"
  BY DEF ReadInv, Requested, TakeGuests, Counting
<1>2. answer.items \in Seq(Items) /\ answer.next \in Nat \cup {Absent, Null, Blank}
  BY <1>1, AnswerType
<1>3. CASE protocolChanged /\ Fail("protocol_changed")
  <2>1. ~(remote = "full" /\ Fits)
    <3>1. SUFFICES ASSUME remote = "full", Fits PROVE ~protocolChanged
      BY <1>3
    <3>2. /\ answer.items # <<>> => ~PageBound /\ ~ItemBound(answer.items)
          /\ answer.next \in Nat => answer.items # <<>> /\ ~Repeated(answer.next)
          /\ answer.next \in Nat \cup {Absent, Null}
      BY <1>1, <3>1, PageFits
    <3>. QED BY <3>2, CursorAssumption
  <2>. QED BY <1>3, <2>1, FailStep DEF Errors
<1>4. CASE ~protocolChanged /\ last /\ Return(answer.items)
  <2>1. remote # "odd" => got \o answer.items = collection
    BY <1>1, <1>4, LastPage
  <2>2. Len(answer.items) <= MaxCatalog - Len(got)
    <3>1. MaxCatalog \in Nat /\ Len(got) \in Nat /\ Len(got) <= MaxCatalog /\ Len(answer.items) \in Nat
      BY <1>1, <1>2, CatalogType DEF CountInv, TypeOK
    <3>2. data => ~(Len(answer.items) > MaxCatalog - Len(got))
      BY <1>4 DEF ItemBound
    <3>3. ~data => Len(answer.items) = 0
      OBVIOUS
    <3>. QED BY <3>1, <3>2, <3>3
  <2>. QED BY <1>1, <1>2, <1>4, <2>1, <2>2, ReturnStep
<1>5. CASE ~protocolChanged /\ ~last /\ CountAndFollow(answer)
  BY <1>1, <1>2, <1>5, CountStep
<1>. QED BY <1>3, <1>4, <1>5 DEF TakeGuests

LEMMA DocumentsStep ==
  ASSUME ReadInv, Requested, NEW answer \in Answers, TakeDocuments(answer)
  PROVE  ReadInv'
<1>1. /\ TypeOK /\ OrderInv /\ pc = "request"
      /\ method = "ListDocuments" /\ ~Counting
  BY DEF ReadInv, Requested, TakeDocuments, Counting
<1>2. answer.items \in Seq(Items) /\ answer.next \in Nat \cup {Absent, Null, Blank}
  BY <1>1, AnswerType
<1>3. CASE answer.next \in {Absent, Null, Blank} /\ Return(answer.items)
  BY <1>1, <1>2, <1>3, LastPage, ReturnStep
<1>4. CASE answer.next \notin {Absent, Null, Blank} /\ Follow(answer)
  BY <1>1, <1>2, <1>4, FollowStep
<1>. QED BY <1>3, <1>4 DEF TakeDocuments

LEMMA CohostRequestsStep ==
  ASSUME ReadInv, Requested, NEW answer \in Answers, TakeCohostRequests(answer)
  PROVE  ReadInv'
<1>1. /\ TypeOK /\ OrderInv /\ CountInv /\ pc = "request"
      /\ method = "GetCohostRequests" /\ ~Counting
  BY DEF ReadInv, Requested, TakeCohostRequests, Counting
<1>2. answer.items \in Seq(Items) /\ answer.next \in Nat \cup {Absent, Null, Blank}
  BY <1>1, AnswerType
<1>3. CASE NotTheOnlyPage(answer) /\ Fail("protocol_changed")
  <2>1. ~(remote = "full" /\ Fits)
    <3>1. SUFFICES ASSUME remote = "full", Fits PROVE ~NotTheOnlyPage(answer)
      BY <1>3
    <3>2. PICK n \in Nat :
             /\ n <= PageSize /\ Position \in Nat
             /\ Position + n <= Len(collection)
             /\ Len(answer.items) = n
             /\ answer.next \in NextForms(n)
             /\ remote = "full" => n = Least(PageSize, Rest)
      BY <1>1, <3>1, InOrder
    <3>3. Position = 0 /\ Len(collection) <= PageSize
      BY <1>1, <3>1 DEF CountInv, Position, Fits
    <3>4. n = Rest
      <4>1. Len(collection) \in Nat /\ PageSize \in Nat
        BY <1>1, CollectionAssumption, LimitAssumption DEF TypeOK
      <4>. QED BY <3>1, <3>2, <3>3, <4>1 DEF Least, Rest
    <3>5. answer.next \in {Absent, Blank}
      <4>1. Rest \in Nat
        BY <3>4
      <4>. QED BY <1>1, <3>2, <3>4, <4>1 DEF NextForms, EndForms
    <3>. QED BY <3>2, <3>5, LimitAssumption DEF NotTheOnlyPage
  <2>. QED BY <1>3, <2>1, FailStep DEF Errors
<1>4. CASE ~NotTheOnlyPage(answer) /\ Return(answer.items)
  <2>1. answer.next \in {Absent, Blank} /\ Len(answer.items) <= PageSize
    BY <1>2, <1>4, LimitAssumption DEF NotTheOnlyPage
  <2>2. remote # "odd" => got \o answer.items = collection
    BY <1>1, <2>1, LastPage
  <2>. QED BY <1>1, <1>2, <1>4, <2>1, <2>2, ReturnStep
<1>. QED BY <1>3, <1>4 DEF TakeCohostRequests

LEMMA ReadStep == ReadInv /\ [Next]_vars => ReadInv'
<1>. SUFFICES ASSUME ReadInv, [Next]_vars PROVE ReadInv'
  OBVIOUS
<1>1. CASE Answered
  <2>1. PICK answer \in Answers :
          \/ TakeContacts(answer) \/ TakeGuests(answer)
          \/ TakeDocuments(answer) \/ TakeCohostRequests(answer)
    BY <1>1 DEF Answered
  <2>2. Requested
    BY <1>1 DEF Answered, Asking, Requested
  <2>. QED BY <2>1, <2>2, ContactsStep, GuestsStep, DocumentsStep, CohostRequestsStep
<1>2. CASE Refused
  <2>1. Requested
    BY <1>2 DEF Refused, Asking, Requested
  <2>2. PICK error \in Errors : Fail(error) /\ (error = "protocol_changed" => remote = "odd")
    BY <1>2 DEF Refused, Errors
  <2>. QED BY <2>1, <2>2, FailStep
<1>3. CASE UNCHANGED vars
  BY <1>3 DEF vars, ReadInv, TypeOK, CountInv, AskedInv, OrderInv, FullInv, Counting, Position, Fits
<1>. QED BY <1>1, <1>2, <1>3 DEF Next

(* The inductive invariant holds. *)
THEOREM ReadInvariant == Spec => []ReadInv
BY ReadInit, ReadStep, PTL DEF Spec

(* Type correctness: Traversal's variables stay in their domains. *)
THEOREM ReadTypes == Spec => []TypeOK
<1>1. ReadInv => TypeOK
  BY DEF ReadInv
<1>. QED BY <1>1, ReadInvariant, PTL

(* For any collection and any pages of a remote that lists in order, a     *)
(* read returns all of it or nothing (the four page loops).                *)
THEOREM NothingTruncated == Spec => []WholeOrNothing
<1>1. ReadInv => WholeOrNothing
  BY DEF ReadInv, CountInv, OrderInv, WholeOrNothing
<1>. QED BY <1>1, ReadInvariant, PTL

(* For any bounds and any remote, the work of a bounded read is bounded    *)
(* (contacts.go:102, guests.go:117, cohosts.go:179).                       *)
THEOREM BoundedWork == Spec => []WorkIsBounded
<1>1. ASSUME ReadInv PROVE WorkIsBounded
  <2>1. Counting => Len(got) <= MaxCatalog /\ Len(asked) <= MaxPages + 1
    BY <1>1 DEF ReadInv, CountInv
  <2>2. method = "GetCohostRequests" => Len(asked) <= 1 /\ Len(got) <= PageSize
    BY <1>1, LimitAssumption DEF ReadInv, CountInv
  <2>. QED BY <2>1, <2>2 DEF WorkIsBounded, Counting
<1>. QED BY <1>1, ReadInvariant, PTL

(* Against any remote, contacts and guests never ask twice with one cursor *)
(* (contacts.go:119, guests.go:139).                                       *)
THEOREM EachPageOnce == Spec => []NoPageTwice
<1>1. ReadInv => NoPageTwice
  BY DEF ReadInv, AskedInv, NoPageTwice, Counting
<1>. QED BY <1>1, ReadInvariant, PTL

(* For any page size and page bound, the bounds accept every collection    *)
(* that fits them, to the last item.                                       *)
THEOREM BoundsAreExact == Spec => []FitsIsTaken
<1>1. ReadInv => FitsIsTaken
  BY DEF ReadInv, FullInv, FitsIsTaken
<1>. QED BY <1>1, ReadInvariant, PTL
=============================================================================
