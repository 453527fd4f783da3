-------------------------- MODULE CollectionProofs --------------------------
(***************************************************************************)
(* Proofs, for any listings, any number of invocations and any limits, of  *)
(* what MCCollection checks on small instances.                            *)
(***************************************************************************)
EXTENDS CollectionProps, SequenceTheorems, WellFoundedInduction, TLAPS

Whole(line, pg) == View[line.filter][pg.content]

(* A cursor anyone can be given: it opens, and the pages that lead to it   *)
(* are a proper prefix of the listing it was made from.                    *)
Sound(c) ==
  /\ c \in Cursor
  /\ c.key = keyFile
  /\ c.offset \in 1 .. Len(View[c.filter][c.digest]) - 1
  /\ c.trail = SubSeq(View[c.filter][c.digest], 1, c.offset)

Given(c) == c \notin {None, Malformed}

(* A command line past decodeCursor, and its page.                         *)
Continues(line) == line.cursor # None => /\ line.cursor # Malformed
                                         /\ line.cursor.filter = line.filter
PageOf(line, pg) ==
  /\ pg.from = IF line.cursor = None THEN 0 ELSE line.cursor.offset
  /\ line.cursor # None => line.cursor.digest = pg.content
  /\ pg.from <= Len(Whole(line, pg))
  /\ pg.to = Least(pg.from + line.limit, Len(Whole(line, pg)))

(* What each process has at each point. *)
PlaceInv ==
  \A p \in Proc :
    /\ pc[p] = "start" => ask[p] = None /\ key[p] = None
    /\ pc[p] \notin {"start", "crashed"} => ask[p] # None
    /\ pc[p] \in {"start", "open", "fetch"} => page[p] = None
    /\ pc[p] \in {"key", "link", "reread", "open"} /\ page[p] = None
         => ask[p].cursor # None
    /\ pc[p] = "seal" => page[p] # None
    /\ page[p] # None => ask[p] # None
    /\ pc[p] # "done" => answer[p] = NoAnswer
    /\ pc[p] = "link" => key[p] \in Nat

(* A key in use is the one in the file. *)
Loaded(p) == pc[p] \in {"open", "seal"} \/ (pc[p] = "fetch" /\ key[p] # None)
KeyInv == \A p \in Proc : Loaded(p) => keyFile \in Nat /\ key[p] = keyFile

CursorInv ==
  \A p \in Proc :
    /\ answer[p].next # None => Sound(answer[p].next)
    /\ ask[p] # None /\ Given(ask[p].cursor) => Sound(ask[p].cursor)

PageInv ==
  \A p \in Proc :
    /\ pc[p] = "fetch" \/ page[p] # None => Continues(ask[p])
    /\ page[p] # None => PageOf(ask[p], page[p])
    /\ page[p] # None /\ pc[p] \in {"key", "link", "reread", "seal"}
         => page[p].to < Len(Whole(ask[p], page[p]))

AnswerInv ==
  \A p \in Proc :
    /\ answer[p].code = "OK" =>
         /\ page[p] # None
         /\ answer[p].trail = SubSeq(Whole(ask[p], page[p]), 1, page[p].to)
         /\ IF answer[p].next = None
            THEN page[p].to = Len(Whole(ask[p], page[p]))
            ELSE page[p].to < Len(Whole(ask[p], page[p]))
         /\ answer[p].next # None => answer[p].next.offset = page[p].to
    /\ answer[p].next # None => answer[p].code = "OK"
    /\ answer[p].code = "CURSOR_INVALID" => ask[p].cursor = Malformed

(* The inductive invariant. *)
ListInv == TypeOK /\ PlaceInv /\ KeyInv /\ CursorInv /\ PageInv /\ AnswerInv

-----------------------------------------------------------------------------
(* What a line shows of contents is a sequence of items. *)
LEMMA ViewType ==
  ASSUME NEW f \in Filters, NEW c \in Contents
  PROVE  View[f][c] \in Seq(Items) /\ Len(View[f][c]) \in Nat
BY ViewAssumption

(* The page joins what was printed before it. *)
LEMMA PageJoins ==
  ASSUME NEW p \in Proc, NEW pg \in Page, ask[p] \in Line,
         Given(ask[p].cursor) => Sound(ask[p].cursor),
         Continues(ask[p]), PageOf(ask[p], pg)
  PROVE  /\ Trail(p, pg) = SubSeq(Whole(ask[p], pg), 1, pg.to)
         /\ pg.to \in pg.from .. Len(Whole(ask[p], pg))
         /\ pg.to < Len(Whole(ask[p], pg)) => pg.to > pg.from
         /\ Before(ask[p].cursor) = SubSeq(Whole(ask[p], pg), 1, pg.from)
         /\ Trail(p, pg) \in Seq(Items)
<1> DEFINE whole == Whole(ask[p], pg)
<1>1. whole \in Seq(Items) /\ Len(whole) \in Nat
  BY ViewType DEF Whole, Line, Page
<1>2. pg.from \in 0 .. Len(whole) /\ pg.to \in Nat
  BY <1>1 DEF PageOf, Page
<1>3. /\ pg.to \in pg.from .. Len(whole)
      /\ pg.to < Len(whole) => pg.to > pg.from
  <2>1. ask[p].limit \in Nat \ {0}
    BY LimitAssumption DEF Line
  <2>2. pg.to = Least(pg.from + ask[p].limit, Len(whole))
    BY DEF PageOf
  <2> HIDE DEF whole
  <2>3. QED
    BY <1>1, <1>2, <2>1, <2>2 DEF Least
<1>4. Before(ask[p].cursor) = SubSeq(whole, 1, pg.from)
  <2>1. CASE ask[p].cursor = None
    <3>1. pg.from = 0
      BY <2>1 DEF PageOf
    <3>2. SubSeq(whole, 1, 0) = <<>>
      BY SubSeqEmpty
    <3>3. QED
      BY <2>1, <3>1, <3>2 DEF Before
  <2>2. CASE ask[p].cursor # None
    BY <2>2 DEF PageOf, Continues, Sound, Before, Given, Whole
  <2>3. QED
    BY <2>1, <2>2
<1>5. SubSeq(whole, 1, pg.from) \o SubSeq(whole, pg.from + 1, pg.to) = SubSeq(whole, 1, pg.to)
  <2> HIDE DEF whole
  <2>1. 1 \in 1 .. Len(whole) + 1 /\ pg.from \in (1 - 1) .. Len(whole) /\ pg.to \in pg.from .. Len(whole)
    BY <1>1, <1>2, <1>3
  <2>2. QED
    BY <1>1, <2>1, ConcatAdjacentSubSeq
<1>6. Trail(p, pg) = SubSeq(whole, 1, pg.to)
  BY <1>4, <1>5 DEF Trail, Whole
<1>7. SubSeq(whole, 1, pg.to) \in Seq(Items)
  <2> HIDE DEF whole
  <2>1. \A i \in 1 .. pg.to : whole[i] \in Items
    BY <1>1, <1>2, <1>3
  <2>2. QED
    BY <1>2, <2>1, SubSeqProperties
<1>8. QED
  BY <1>3, <1>4, <1>6, <1>7
(* A failure prints no page and no cursor. *)
LEMMA FailureType ==
  ASSUME NEW code \in Codes
  PROVE  /\ Failure(code) \in [code: Codes, trail: Seq(Items), next: Cursor \cup {None}]
         /\ Failure(code).code = code /\ Failure(code).next = None
<1>1. <<>> \in Seq(Items)
  BY EmptySeq
<1>2. QED
  BY <1>1 DEF Failure

(* What an invocation is at when it fetches or seals. *)
LEMMA FetchedLine ==
  ASSUME ListInv, NEW p \in Proc, pc[p] \in {"fetch", "seal"}
  PROVE  /\ ask[p] \in Line
         /\ Given(ask[p].cursor) => Sound(ask[p].cursor)
         /\ Continues(ask[p])
<1>1. ask[p] \in Line
  BY DEF ListInv, TypeOK, PlaceInv
<1>2. ask[p] # None
  BY DEF ListInv, PlaceInv
<1>3. Continues(ask[p])
  BY DEF ListInv, PageInv, PlaceInv
<1>4. QED
  BY <1>1, <1>2, <1>3 DEF ListInv, CursorInv

LEMMA ListInit == Init => ListInv
<1> SUFFICES ASSUME Init PROVE ListInv
  OBVIOUS
<1>1. NoAnswer \in [code: Codes, trail: Seq(Items), next: Cursor \cup {None}]
      /\ NoAnswer.code = "none" /\ NoAnswer.next = None
  BY FailureType DEF NoAnswer, Codes
<1>2. TypeOK
  BY <1>1 DEF Init, TypeOK
<1>3. PlaceInv
  BY DEF Init, PlaceInv
<1>4. KeyInv
  BY DEF Init, KeyInv, Loaded
<1>5. CursorInv /\ PageInv /\ AnswerInv
  BY <1>1 DEF Init, CursorInv, PageInv, AnswerInv
<1>6. QED
  BY <1>2, <1>3, <1>4, <1>5 DEF ListInv

-----------------------------------------------------------------------------
(* Beginning a listing: the line is of this program, its cursor of anyone. *)
LEMMA StartStep ==
  ASSUME ListInv, NEW p \in Proc, Start(p)
  PROVE  ListInv'
<1> USE DEF ListInv
<1>1. PICK f \in Filters, l \in Nat \ {0}, c \in Printed \cup {None, Malformed} :
        /\ ask' = [ask EXCEPT ![p] = [filter |-> f, limit |-> l, cursor |-> c]]
        /\ Goto(p, IF c = None THEN "fetch" ELSE "key")
  BY LimitAssumption DEF Start
<1>2. Given(c) => Sound(c)
  BY DEF Printed, CursorInv, Given
<1>3. c \in Token
  BY <1>2 DEF Token, Given, Sound
<1>4. ask'[p] = [filter |-> f, limit |-> l, cursor |-> c] /\ ask'[p] \in Line
  BY <1>1, <1>3 DEF TypeOK, Line
<1>5. ask'[p] # None
  BY <1>4, SentinelAssumption
<1>6. pc[p] = "start" /\ page[p] = None /\ key[p] = None /\ answer[p] = NoAnswer
  BY DEF Start, PlaceInv
<1>7. UNCHANGED <<content, keyFile, made, key, page, answer>>
  BY DEF Start
<1>8. TypeOK'
  BY <1>1, <1>4, <1>7 DEF TypeOK, Goto
<1>9. PlaceInv'
  BY <1>1, <1>4, <1>5, <1>6, <1>7 DEF TypeOK, PlaceInv, Goto
<1>10. KeyInv'
  BY <1>1, <1>6, <1>7 DEF KeyInv, Loaded, Goto, TypeOK
<1>11. CursorInv'
  BY <1>1, <1>2, <1>4, <1>7 DEF CursorInv, Sound, TypeOK
<1>12. PageInv'
  BY <1>1, <1>4, <1>6, <1>7 DEF PageInv, TypeOK, Goto, Continues
<1>13. AnswerInv'
  <2>1. NoAnswer.code = "none" /\ NoAnswer.next = None
    BY DEF NoAnswer, Failure
  <2>2. QED
    BY <1>1, <1>6, <1>7, <2>1 DEF AnswerInv, TypeOK
<1>14. QED
  BY <1>8, <1>9, <1>10, <1>11, <1>12, <1>13

(* An invocation ends with a failure: it leaves everything else alone. *)
LEMMA FailureStep ==
  ASSUME ListInv, NEW p \in Proc, NEW code \in Codes \ {"OK"},
         pc[p] \notin {"start", "crashed"},
         code = "CURSOR_INVALID" => ask[p].cursor = Malformed,
         Finish(p, Failure(code)),
         UNCHANGED <<content, keyFile, made, ask, key, page>>
  PROVE  ListInv'
<1> USE DEF ListInv
<1> DEFINE a == Failure(code)
<1>1. /\ a \in [code: Codes, trail: Seq(Items), next: Cursor \cup {None}]
      /\ a.code = code /\ a.next = None
  BY FailureType
<1> HIDE DEF a
<1>2. pc' = [pc EXCEPT ![p] = "done"] /\ answer' = [answer EXCEPT ![p] = a]
  BY DEF Finish, Goto, a
<1>3. TypeOK'
  BY <1>1, <1>2 DEF TypeOK
<1>4. PlaceInv'
  BY <1>2 DEF TypeOK, PlaceInv
<1>5. KeyInv'
  BY <1>2 DEF TypeOK, KeyInv, Loaded
<1>6. CursorInv'
  BY <1>1, <1>2 DEF TypeOK, CursorInv, Sound
<1>7. PageInv'
  BY <1>2 DEF TypeOK, PageInv
<1>8. AnswerInv'
  BY <1>1, <1>2 DEF TypeOK, AnswerInv
<1>9. QED
  BY <1>3, <1>4, <1>5, <1>6, <1>7, <1>8

(* An invocation has the key of the file. *)
LEMMA KeyStep ==
  ASSUME ListInv, NEW p \in Proc, pc[p] \in {"key", "reread"},
         keyFile \in Nat,
         key' = [key EXCEPT ![p] = keyFile], Goto(p, WithKey(p)),
         UNCHANGED <<content, keyFile, made, ask, page, answer>>
  PROVE  ListInv'
<1> USE DEF ListInv
<1>1. pc' = [pc EXCEPT ![p] = IF page[p] = None THEN "open" ELSE "seal"]
  BY DEF Goto, WithKey
<1>2. TypeOK'
  BY <1>1 DEF TypeOK
<1>3. PlaceInv'
  BY <1>1 DEF TypeOK, PlaceInv
<1>4. KeyInv'
  BY <1>1 DEF TypeOK, KeyInv, Loaded
<1>5. CursorInv'
  BY DEF TypeOK, CursorInv, Sound
<1>6. PageInv'
  BY <1>1 DEF TypeOK, PageInv
<1>7. AnswerInv'
  BY DEF AnswerInv
<1>8. QED
  BY <1>2, <1>3, <1>4, <1>5, <1>6, <1>7

LEMMA ReadKeyStep ==
  ASSUME ListInv, NEW p \in Proc, ReadKey(p)
  PROVE  ListInv'
<1>1. CASE keyFile # None /\ ValidKey(keyFile)
            /\ key' = [key EXCEPT ![p] = keyFile] /\ Goto(p, WithKey(p))
            /\ UNCHANGED <<made, answer>>
  <2>1. keyFile \in Nat /\ pc[p] = "key" /\ UNCHANGED <<content, keyFile, ask, page>>
    BY <1>1 DEF ListInv, TypeOK, ValidKey, ReadKey
  <2>2. QED
    BY <1>1, <2>1, KeyStep
<1>2. CASE keyFile = None /\ made' = made + 1
            /\ key' = [key EXCEPT ![p] = made + 1] /\ Goto(p, "link")
            /\ UNCHANGED answer
  <2> USE DEF ListInv
  <2>1. /\ pc[p] = "key" /\ UNCHANGED <<content, keyFile, ask, page, answer>>
        /\ pc' = [pc EXCEPT ![p] = "link"]
    BY <1>2 DEF ReadKey, Goto
  <2>2. TypeOK'
    BY <1>2, <2>1 DEF TypeOK
  <2>3. PlaceInv'
    BY <1>2, <2>1 DEF TypeOK, PlaceInv
  <2>4. KeyInv'
    BY <1>2, <2>1 DEF TypeOK, KeyInv, Loaded
  <2>5. CursorInv'
    BY <2>1 DEF CursorInv, Sound
  <2>6. PageInv'
    BY <2>1 DEF TypeOK, PageInv
  <2>7. AnswerInv'
    BY <2>1 DEF AnswerInv
  <2>8. QED
    BY <2>2, <2>3, <2>4, <2>5, <2>6, <2>7
<1>3. CASE Finish(p, Failure("INTERNAL_FAILURE")) /\ UNCHANGED <<made, key>>
  BY <1>3, FailureStep DEF ReadKey, Codes
<1>4. QED
  BY <1>1, <1>2, <1>3 DEF ReadKey

(* The file gets its key once: before that there is no cursor to lose. *)
LEMMA LinkKeyStep ==
  ASSUME ListInv, NEW p \in Proc, LinkKey(p)
  PROVE  ListInv'
<1> USE DEF ListInv
<1>1. CASE keyFile = None /\ keyFile' = key[p] /\ Goto(p, WithKey(p))
            /\ UNCHANGED <<key, answer>>
  <2>1. /\ pc[p] = "link" /\ key[p] \in Nat
        /\ UNCHANGED <<content, made, ask, key, page, answer>>
        /\ pc' = [pc EXCEPT ![p] = IF page[p] = None THEN "open" ELSE "seal"]
    BY <1>1 DEF LinkKey, Goto, WithKey, PlaceInv
  <2>2. keyFile \notin Nat
    BY <1>1, SentinelAssumption
  <2>3. \A c : ~Sound(c)
    BY <2>2 DEF Sound, Cursor
  <2>4. TypeOK'
    BY <1>1, <2>1 DEF TypeOK
  <2>5. PlaceInv'
    BY <2>1 DEF TypeOK, PlaceInv
  <2>6. KeyInv'
    BY <1>1, <2>1, <2>2 DEF TypeOK, KeyInv, Loaded
  <2>7. CursorInv'
    BY <2>1, <2>3 DEF CursorInv
  <2>8. PageInv'
    BY <2>1 DEF TypeOK, PageInv
  <2>9. AnswerInv'
    BY <2>1 DEF AnswerInv
  <2>10. QED
    BY <2>4, <2>5, <2>6, <2>7, <2>8, <2>9
<1>2. CASE keyFile # None /\ key' = [key EXCEPT ![p] = None] /\ Goto(p, "reread")
            /\ UNCHANGED <<keyFile, answer>>
  <2>1. /\ pc[p] = "link"
        /\ UNCHANGED <<content, keyFile, made, ask, page, answer>>
        /\ pc' = [pc EXCEPT ![p] = "reread"]
    BY <1>2 DEF LinkKey, Goto
  <2>2. TypeOK'
    BY <1>2, <2>1 DEF TypeOK
  <2>3. PlaceInv'
    BY <1>2, <2>1 DEF TypeOK, PlaceInv
  <2>4. KeyInv'
    BY <1>2, <2>1 DEF TypeOK, KeyInv, Loaded
  <2>5. CursorInv'
    BY <2>1 DEF CursorInv, Sound
  <2>6. PageInv'
    BY <2>1 DEF TypeOK, PageInv
  <2>7. AnswerInv'
    BY <2>1 DEF AnswerInv
  <2>8. QED
    BY <2>2, <2>3, <2>4, <2>5, <2>6, <2>7
<1>3. CASE Finish(p, Failure("INTERNAL_FAILURE")) /\ UNCHANGED <<keyFile, key>>
  BY <1>3, FailureStep DEF LinkKey, Codes
<1>4. QED
  BY <1>1, <1>2, <1>3 DEF LinkKey

LEMMA RereadKeyStep ==
  ASSUME ListInv, NEW p \in Proc, RereadKey(p)
  PROVE  ListInv'
<1>1. CASE keyFile # None /\ ValidKey(keyFile)
            /\ key' = [key EXCEPT ![p] = keyFile] /\ Goto(p, WithKey(p))
            /\ UNCHANGED answer
  <2>1. keyFile \in Nat /\ pc[p] = "reread"
        /\ UNCHANGED <<content, keyFile, made, ask, page>>
    BY <1>1 DEF ListInv, TypeOK, ValidKey, RereadKey
  <2>2. QED
    BY <1>1, <2>1, KeyStep
<1>2. CASE Finish(p, Failure("INTERNAL_FAILURE")) /\ UNCHANGED key
  BY <1>2, FailureStep DEF RereadKey, Codes
<1>3. QED
  BY <1>1, <1>2 DEF RereadKey

(* A sound cursor opens; what does not open was never printed. *)
LEMMA OpenCursorStep ==
  ASSUME ListInv, NEW p \in Proc, OpenCursor(p)
  PROVE  ListInv'
<1> DEFINE c == ask[p].cursor
<1> USE DEF ListInv
<1>1. /\ pc[p] = "open" /\ page[p] = None /\ ask[p] # None /\ c # None
      /\ key[p] = keyFile /\ keyFile \in Nat
      /\ UNCHANGED <<content, keyFile, made, ask, key, page>>
  BY DEF OpenCursor, PlaceInv, KeyInv, Loaded
<1>2. c # Malformed => c \in Cursor /\ c.key = key[p]
  BY <1>1 DEF CursorInv, Given, Sound
<1>3. CASE ~Opens(c, key[p]) /\ Finish(p, Failure("CURSOR_INVALID"))
  <2>1. c = Malformed
    BY <1>2, <1>3 DEF Opens
  <2>2. QED
    BY <1>1, <1>3, <2>1, FailureStep DEF Codes
<1>4. CASE Finish(p, Failure("CURSOR_FILTER_MISMATCH"))
  BY <1>1, <1>4, FailureStep DEF Codes
<1>5. CASE Opens(c, key[p]) /\ SameFilter(c, ask[p].filter) /\ Goto(p, "fetch")
            /\ UNCHANGED answer
  <2>1. pc' = [pc EXCEPT ![p] = "fetch"] /\ Continues(ask[p])
    BY <1>5 DEF Goto, Continues, Opens, SameFilter
  <2>2. TypeOK'
    BY <1>1, <1>5, <2>1 DEF TypeOK
  <2>3. PlaceInv'
    BY <1>1, <1>5, <2>1 DEF TypeOK, PlaceInv
  <2>4. KeyInv'
    BY <1>1, <2>1 DEF TypeOK, KeyInv, Loaded
  <2>5. CursorInv'
    BY <1>1, <1>5 DEF CursorInv, Sound
  <2>6. PageInv'
    BY <1>1, <2>1 DEF TypeOK, PageInv
  <2>7. AnswerInv'
    BY <1>1, <1>5 DEF AnswerInv
  <2>8. QED
    BY <2>2, <2>3, <2>4, <2>5, <2>6, <2>7
<1>6. QED
  BY <1>3, <1>4, <1>5 DEF OpenCursor

-----------------------------------------------------------------------------
(* An invocation prints a page: the last one, or one with a cursor. *)
LEMMA SuccessStep ==
  ASSUME ListInv, NEW p \in Proc, pc[p] \in {"fetch", "seal"},
         NEW pg \in Page, PageOf(ask[p], pg),
         NEW next \in Cursor \cup {None},
         next = None => pg.to = Len(Whole(ask[p], pg)),
         next # None => /\ Sound(next) /\ next.offset = pg.to
                        /\ pg.to < Len(Whole(ask[p], pg)),
         Finish(p, Success(p, pg, next)),
         page' = [page EXCEPT ![p] = pg],
         UNCHANGED <<content, keyFile, made, ask, key>>
  PROVE  ListInv'
<1> USE DEF ListInv
<1>1. /\ ask[p] \in Line /\ Continues(ask[p])
      /\ Given(ask[p].cursor) => Sound(ask[p].cursor)
  BY FetchedLine
<1>2. /\ Trail(p, pg) = SubSeq(Whole(ask[p], pg), 1, pg.to)
      /\ Trail(p, pg) \in Seq(Items)
  BY <1>1, PageJoins
<1> DEFINE a == Success(p, pg, next)
<1>3. /\ a \in [code: Codes, trail: Seq(Items), next: Cursor \cup {None}]
      /\ a.code = "OK" /\ a.trail = Trail(p, pg) /\ a.next = next
  BY <1>2 DEF Success, Codes
<1> HIDE DEF a
<1>4. pc' = [pc EXCEPT ![p] = "done"] /\ answer' = [answer EXCEPT ![p] = a]
  BY DEF Finish, Goto, a
<1>5. pg # None /\ ask[p] # None
  BY <1>1, SentinelAssumption
<1>6. TypeOK'
  BY <1>3, <1>4 DEF TypeOK
<1>7. PlaceInv'
  BY <1>4, <1>5 DEF TypeOK, PlaceInv
<1>8. KeyInv'
  BY <1>4 DEF TypeOK, KeyInv, Loaded
<1>9. CursorInv'
  BY <1>3, <1>4 DEF TypeOK, CursorInv, Sound
<1>10. PageInv'
  BY <1>1, <1>4, <1>5 DEF TypeOK, PageInv
<1>11. AnswerInv'
  BY <1>2, <1>3, <1>4, <1>5 DEF TypeOK, AnswerInv
<1>12. QED
  BY <1>6, <1>7, <1>8, <1>9, <1>10, <1>11

(* The page is of the contents just read, and of the snapshot of the       *)
(* cursor it continues.                                                    *)
LEMMA FetchStep ==
  ASSUME ListInv, NEW p \in Proc, Fetch(p)
  PROVE  ListInv'
<1> USE DEF ListInv
<1> DEFINE c == ask[p].cursor
           size == Len(View[ask[p].filter][content])
           offset == IF c = None THEN 0 ELSE c.offset
           to == Least(offset + ask[p].limit, size)
           pg == [content |-> content, from |-> offset, to |-> to]
           resumed == c # None => SameSnapshot(c, content) /\ offset <= size
<1>1. /\ pc[p] = "fetch" /\ page[p] = None
      /\ UNCHANGED <<content, keyFile, made, ask, key>>
  BY DEF Fetch, PlaceInv
<1>2. /\ ask[p] \in Line /\ Continues(ask[p])
      /\ Given(c) => Sound(c)
  BY <1>1, FetchedLine
<1>3. size \in Nat /\ ask[p].limit \in Nat \ {0} /\ content \in Contents
  BY <1>2, LimitAssumption, ViewType DEF Line, TypeOK
<1>4. c # None => c \in Cursor /\ c.filter = ask[p].filter /\ Sound(c)
  BY <1>2 DEF Continues, Given, Sound
<1>5. offset \in Nat
  BY <1>4 DEF Cursor
<1>6. ASSUME c # None, SameSnapshot(c, content) PROVE offset <= size
  BY <1>3, <1>4, <1>6 DEF SameSnapshot, Sound
<1>7. CASE c # None /\ ~SameSnapshot(c, content)
            /\ Finish(p, Failure("CURSOR_SNAPSHOT_CHANGED")) /\ UNCHANGED page
  BY <1>1, <1>7, FailureStep DEF Codes
<1>8. CASE c # None /\ SameSnapshot(c, content) /\ offset > size
  <2> HIDE DEF offset, size
  <2>1. offset <= size
    BY <1>6, <1>8
  <2>2. QED
    BY <1>3, <1>5, <1>8, <2>1
<1>9. CASE resumed /\ page' = [page EXCEPT ![p] = pg]
            /\ IF HasMore(to, size)
               THEN Goto(p, IF key[p] = None THEN "key" ELSE "seal") /\ UNCHANGED answer
               ELSE Finish(p, Success(p, pg, None))
  <2>1. offset <= size
    <3>1. CASE c = None
      BY <1>3, <3>1
    <3>2. CASE c # None
      BY <1>9, <3>2
    <3>3. QED
      BY <3>1, <3>2
  <2>2. to \in Nat /\ to <= size
    <3> HIDE DEF offset, size
    <3>1. QED
      BY <1>3, <1>5 DEF Least
  <2>3. pg \in Page
    BY <1>3, <1>5, <2>2 DEF Page
  <2>4. PageOf(ask[p], pg)
    BY <1>9, <2>1 DEF PageOf, Whole, SameSnapshot
  <2>5. Whole(ask[p], pg) = View[ask[p].filter][content] /\ pg.to = to
    BY DEF Whole
  <2>6. CASE ~HasMore(to, size)
    <3>1. to = size
      <4> HIDE DEF to, size
      <4>1. QED
        BY <1>3, <2>2, <2>6 DEF HasMore
    <3>2. pg.to = Len(Whole(ask[p], pg))
      BY <2>5, <3>1
    <3>3. Finish(p, Success(p, pg, None))
      BY <1>9, <2>6
    <3>4. page' = [page EXCEPT ![p] = pg]
      BY <1>9
    <3> HIDE DEF pg
    <3>5. QED
      BY <1>1, <2>3, <2>4, <3>2, <3>3, <3>4, SuccessStep
  <2>7. CASE HasMore(to, size)
    <3>1. pg.to < Len(Whole(ask[p], pg))
      BY <2>5, <2>7 DEF HasMore
    <3>2. /\ pc' = [pc EXCEPT ![p] = IF key[p] = None THEN "key" ELSE "seal"]
          /\ page' = [page EXCEPT ![p] = pg]
          /\ UNCHANGED answer
      BY <1>9, <2>7 DEF Goto
    <3>3. pg # None
      BY <2>3, SentinelAssumption
    <3> HIDE DEF pg
    <3>4. TypeOK'
      BY <1>1, <2>3, <3>2 DEF TypeOK
    <3>5. PlaceInv'
      BY <1>1, <3>2, <3>3 DEF TypeOK, PlaceInv
    <3>6. KeyInv'
      BY <1>1, <3>2 DEF TypeOK, KeyInv, Loaded
    <3>7. CursorInv'
      BY <1>1, <3>2 DEF CursorInv, Sound
    <3>8. PageInv'
      BY <1>1, <1>2, <2>4, <3>1, <3>2 DEF TypeOK, PageInv
    <3>9. AnswerInv'
      <4>1. answer[p].code = "none" /\ answer[p].next = None
        BY <1>1 DEF PlaceInv, NoAnswer, Failure
      <4>2. QED
        BY <1>1, <3>2, <4>1 DEF TypeOK, AnswerInv
    <3>10. QED
      BY <3>4, <3>5, <3>6, <3>7, <3>8, <3>9
  <2>8. QED
    BY <2>6, <2>7
<1>10. QED
  BY <1>7, <1>8, <1>9 DEF Fetch

(* A cursor is sealed with the key of the file, and leads on. *)
LEMMA SealStep ==
  ASSUME ListInv, NEW p \in Proc, Seal(p)
  PROVE  ListInv'
<1> USE DEF ListInv
<1> DEFINE pg == page[p]
           next == [key |-> key[p], digest |-> pg.content, filter |-> ask[p].filter,
                    offset |-> pg.to, trail |-> Trail(p, pg)]
<1>1. /\ pc[p] = "seal" /\ UNCHANGED <<content, keyFile, made, ask, key, page>>
      /\ pg # None /\ ask[p] # None
      /\ keyFile \in Nat /\ key[p] = keyFile
  BY DEF Seal, PlaceInv, KeyInv, Loaded
<1>2. pg \in Page /\ PageOf(ask[p], pg) /\ pg.to < Len(Whole(ask[p], pg))
  BY <1>1 DEF TypeOK, PageInv
<1>3. /\ ask[p] \in Line /\ Continues(ask[p])
      /\ Given(ask[p].cursor) => Sound(ask[p].cursor)
  BY <1>1, FetchedLine
<1>4. /\ Trail(p, pg) = SubSeq(Whole(ask[p], pg), 1, pg.to)
      /\ Trail(p, pg) \in Seq(Items)
      /\ pg.to > pg.from
  BY <1>2, <1>3, PageJoins
<1>5. Len(Whole(ask[p], pg)) \in Nat /\ pg.to \in Nat /\ pg.from \in Nat
  BY <1>2, <1>3, ViewType DEF Whole, Line, Page
<1>6. pg.to \in 1 .. Len(Whole(ask[p], pg)) - 1
  BY <1>2, <1>4, <1>5
<1>7. next \in Cursor
  BY <1>1, <1>2, <1>3, <1>4 DEF Cursor, Page, Line
<1>8. Sound(next)
  BY <1>1, <1>4, <1>6, <1>7 DEF Sound, Whole
<1>9. CASE Finish(p, Failure("INTERNAL_FAILURE"))
  BY <1>1, <1>9, FailureStep DEF Codes
<1>10. CASE Finish(p, Success(p, pg, next))
  <2>1. next # None /\ next.offset = pg.to
    BY <1>7, SentinelAssumption
  <2>2. page' = [page EXCEPT ![p] = pg]
    BY <1>1 DEF TypeOK
  <2> HIDE DEF next
  <2>3. QED
    BY <1>1, <1>2, <1>7, <1>8, <1>10, <2>1, <2>2, SuccessStep
<1>11. QED
  BY <1>9, <1>10 DEF Seal

LEMMA CrashStep ==
  ASSUME ListInv, NEW p \in Proc, Crash(p)
  PROVE  ListInv'
<1> USE DEF ListInv
<1>1. /\ pc' = [pc EXCEPT ![p] = "crashed"]
      /\ UNCHANGED <<content, keyFile, made, ask, key, page, answer>>
      /\ pc[p] # "done"
  BY DEF Crash, Goto
<1>2. TypeOK' /\ PlaceInv'
  BY <1>1 DEF TypeOK, PlaceInv
<1>3. KeyInv'
  BY <1>1 DEF TypeOK, KeyInv, Loaded
<1>4. CursorInv' /\ AnswerInv'
  BY <1>1 DEF CursorInv, Sound, AnswerInv
<1>5. PageInv'
  BY <1>1 DEF TypeOK, PageInv
<1>6. QED
  BY <1>2, <1>3, <1>4, <1>5

LEMMA ChangeStep ==
  ASSUME ListInv, Change \/ UNCHANGED vars
  PROVE  ListInv'
<1> USE DEF ListInv
<1>1. /\ content' \in Contents
      /\ UNCHANGED <<keyFile, made, pc, ask, key, page, answer>>
  BY DEF Change, vars, TypeOK
<1>2. TypeOK' /\ PlaceInv' /\ KeyInv'
  BY <1>1 DEF TypeOK, PlaceInv, KeyInv, Loaded
<1>3. CursorInv' /\ PageInv' /\ AnswerInv'
  BY <1>1 DEF CursorInv, Sound, PageInv, AnswerInv
<1>4. QED
  BY <1>2, <1>3

-----------------------------------------------------------------------------
(* The inductive invariant holds: every printed cursor is sealed with the  *)
(* key in the file and stands for a proper prefix of one listing.          *)
THEOREM ListInvariant == Spec => []ListInv
<1>1. Init => ListInv
  BY ListInit
<1>2. ListInv /\ [Next]_vars => ListInv'
  <2> SUFFICES ASSUME ListInv, [Next]_vars PROVE ListInv'
    OBVIOUS
  <2>1. ASSUME NEW p \in Proc, Start(p) PROVE ListInv'
    BY <2>1, StartStep
  <2>2. ASSUME NEW p \in Proc, ReadKey(p) PROVE ListInv'
    BY <2>2, ReadKeyStep
  <2>3. ASSUME NEW p \in Proc, LinkKey(p) PROVE ListInv'
    BY <2>3, LinkKeyStep
  <2>4. ASSUME NEW p \in Proc, RereadKey(p) PROVE ListInv'
    BY <2>4, RereadKeyStep
  <2>5. ASSUME NEW p \in Proc, OpenCursor(p) PROVE ListInv'
    BY <2>5, OpenCursorStep
  <2>6. ASSUME NEW p \in Proc, FetchFails(p) PROVE ListInv'
    BY <2>6, FailureStep DEF FetchFails, Codes
  <2>7. ASSUME NEW p \in Proc, Fetch(p) PROVE ListInv'
    BY <2>7, FetchStep
  <2>8. ASSUME NEW p \in Proc, Seal(p) PROVE ListInv'
    BY <2>8, SealStep
  <2>9. ASSUME NEW p \in Proc, Crash(p) PROVE ListInv'
    BY <2>9, CrashStep
  <2>10. CASE Change \/ UNCHANGED vars
    BY <2>10, ChangeStep
  <2>11. QED
    BY <2>1, <2>2, <2>3, <2>4, <2>5, <2>6, <2>7, <2>8, <2>9, <2>10 DEF Next
<1>3. QED
  BY <1>1, <1>2, PTL DEF Spec

(* Every variable stays in its domain; no process uses a file without key. *)
THEOREM ListTypes == Spec => []TypeOK
<1>1. ListInv => TypeOK
  BY DEF ListInv
<1>2. QED
  BY <1>1, ListInvariant, PTL

(* A printed page follows those of its chain in one listing, and its       *)
(* cursor leads further into it.                                           *)
LEMMA PrintedPage ==
  ASSUME ListInv, NEW p \in Proc, answer[p].code = "OK"
  PROVE  /\ answer[p].trail = SubSeq(Listed(p), 1, page[p].to)
         /\ Len(answer[p].trail) = page[p].to
         /\ answer[p].next = None => answer[p].trail = Listed(p)
         /\ answer[p].next # None => /\ answer[p].next.offset = page[p].to
                                     /\ page[p].to < Len(Listed(p))
                                     /\ page[p].to > Len(Before(ask[p].cursor))
<1> DEFINE pg == page[p]
           whole == Listed(p)
<1>1. /\ pg # None /\ ask[p] # None
      /\ answer[p].trail = SubSeq(whole, 1, pg.to)
      /\ answer[p].next = None => pg.to = Len(whole)
      /\ answer[p].next # None => pg.to < Len(whole) /\ answer[p].next.offset = pg.to
  BY DEF ListInv, AnswerInv, PlaceInv, Listed, Whole
<1>2. /\ pg \in Page /\ ask[p] \in Line /\ Continues(ask[p]) /\ PageOf(ask[p], pg)
      /\ Given(ask[p].cursor) => Sound(ask[p].cursor)
  BY <1>1 DEF ListInv, TypeOK, PageInv, CursorInv
<1>3. whole = Whole(ask[p], pg)
  BY DEF Listed, Whole
<1>4. whole \in Seq(Items) /\ Len(whole) \in Nat
  BY <1>2, ViewType DEF Listed, Line, Page
<1>5. /\ pg.to \in pg.from .. Len(whole)
      /\ pg.to < Len(whole) => pg.to > pg.from
      /\ Before(ask[p].cursor) = SubSeq(whole, 1, pg.from)
  BY <1>2, <1>3, PageJoins
<1>6. pg.from \in Nat /\ pg.to \in Nat
  BY <1>2 DEF Page
<1> HIDE DEF whole
<1>7. \A n \in 0 .. Len(whole) : Len(SubSeq(whole, 1, n)) = n
  BY <1>4
<1>8. Len(answer[p].trail) = pg.to /\ Len(Before(ask[p].cursor)) = pg.from
  <2>1. pg.from \in 0 .. Len(whole) /\ pg.to \in 0 .. Len(whole)
    BY <1>4, <1>5, <1>6
  <2>2. /\ Len(SubSeq(whole, 1, pg.to)) = pg.to
        /\ Len(SubSeq(whole, 1, pg.from)) = pg.from
    BY <1>7, <2>1
  <2>3. QED
    BY <1>1, <1>5, <2>2
<1>9. SubSeq(whole, 1, Len(whole)) = whole
  BY <1>4, SubSeqFull
<1>10. QED
  BY <1>1, <1>5, <1>8, <1>9 DEF whole

(* Pages along a chain of cursors join to one listing, whatever changed    *)
(* between them, and make up all of it when there is no further cursor.    *)
THEOREM PagesAreOneListing == Spec => []PagesJoin
<1>1. ListInv => PagesJoin
  BY PrintedPage DEF PagesJoin
<1>2. QED
  BY <1>1, ListInvariant, PTL

(* Following cursors comes to an end. *)
THEOREM CursorsLeadOn == Spec => []CursorsAdvance
<1>1. ASSUME ListInv PROVE CursorsAdvance
  <2> SUFFICES ASSUME NEW p \in Proc, answer[p].next # None
               PROVE  /\ answer[p].next.offset = Len(answer[p].trail)
                      /\ answer[p].next.offset > Len(Before(ask[p].cursor))
                      /\ answer[p].next.offset < Len(Listed(p))
    BY DEF CursorsAdvance
  <2>1. answer[p].code = "OK"
    BY <1>1 DEF ListInv, AnswerInv
  <2>2. QED
    BY <1>1, <2>1, PrintedPage
<1>2. QED
  BY <1>1, ListInvariant, PTL

(* A printed cursor is never called malformed, however many invocations    *)
(* raced to create the key.                                                *)
THEOREM CursorsOpen == Spec => []GenuineCursorOpens
<1>1. ListInv => GenuineCursorOpens
  BY DEF ListInv, AnswerInv, GenuineCursorOpens
<1>2. QED
  BY <1>1, ListInvariant, PTL
-----------------------------------------------------------------------------
(* Induction over the naturals, for one set at a time. *)
LEMMA LeastNat ==
  ASSUME NEW T \in SUBSET Nat, T # {}
  PROVE  \E m \in T : \A k \in T : m <= k
<1>1. IsWellFoundedOn({ss \in Nat \X Nat : ss[1] < ss[2]}, Nat)
  BY NatLessThanWellFounded DEF OpToRel
<1>2. \E x \in T : \A y \in T : ~(<<y, x>> \in {ss \in Nat \X Nat : ss[1] < ss[2]})
  BY <1>1, WFMin
<1>3. PICK m \in T : \A k \in T : ~(k < m)
  BY <1>2
<1>4. QED
  BY <1>3

LEMMA SetInduction ==
  ASSUME NEW T \in SUBSET Nat, 0 \in T, NEW top \in Nat, \A n \in T : n < top => n + 1 \in T
  PROVE  0 .. top \subseteq T
<1> SUFFICES ASSUME (0 .. top) \ T # {} PROVE FALSE
  OBVIOUS
<1> DEFINE rest == (0 .. top) \ T
<1>1. rest \in SUBSET Nat /\ rest # {}
  OBVIOUS
<1>2. PICK m \in rest : \A k \in rest : m <= k
  <2> HIDE DEF rest
  <2>1. QED
    BY <1>1, LeastNat
<1>3. m \in 1 .. top
  BY <1>2
<1>4. m - 1 \in T
  <2>1. m - 1 \in 0 .. top /\ ~(m <= m - 1)
    BY <1>3
  <2>2. QED
    BY <1>2, <2>1
<1>5. m - 1 < top /\ m - 1 + 1 = m
  BY <1>3
<1>6. QED
  BY <1>2, <1>4, <1>5

(* The listing of contacts is made entry by entry. *)
Nobody == [seen |-> {}, kept |-> <<>>]

LEMMA ProgressStep ==
  ASSUME NEW query, NEW catalog \in Seq(Items)
  PROVE  ContactProgress(query, catalog) =
           [n \in 0 .. Len(catalog) |->
              IF n = 0 THEN Nobody
              ELSE NextContact(ContactProgress(query, catalog)[n - 1], catalog[n], query)]
<1> DEFINE size == Len(catalog)
           Follows(done, top) ==
             done = [n \in 0 .. top |-> IF n = 0 THEN Nobody
                                        ELSE NextContact(done[n - 1], catalog[n], query)]
           T == {top \in Nat : \E done : Follows(done, top)}
<1>1. size \in Nat
  OBVIOUS
<1>2. 0 \in T
  <2>1. Follows([n \in 0 .. 0 |-> Nobody], 0)
    OBVIOUS
  <2>2. QED
    BY <2>1
<1>3. ASSUME NEW top \in T PROVE top + 1 \in T
  <2>1. PICK done : Follows(done, top)
    BY <1>3
  <2> DEFINE more == [n \in 0 .. top + 1 |-> IF n <= top THEN done[n]
                                             ELSE NextContact(done[top], catalog[n], query)]
  <2>2. \A n \in 0 .. top : done[n] = IF n = 0 THEN Nobody
                                      ELSE NextContact(done[n - 1], catalog[n], query)
    BY <2>1
  <2>3. \A n \in 0 .. top : more[n] = done[n]
    OBVIOUS
  <2>4. more[top + 1] = NextContact(done[top], catalog[top + 1], query)
    OBVIOUS
  <2> HIDE DEF more
  <2>5. ASSUME NEW n \in 0 .. top + 1
        PROVE  more[n] = IF n = 0 THEN Nobody ELSE NextContact(more[n - 1], catalog[n], query)
    <3>1. CASE n = 0
      BY <2>2, <2>3, <3>1
    <3>2. CASE n \in 1 .. top
      BY <2>2, <2>3, <3>2
    <3>3. CASE n = top + 1
      BY <2>3, <2>4, <3>3
    <3>4. QED
      BY <3>1, <3>2, <3>3
  <2>6. Follows(more, top + 1)
    BY <2>5 DEF more
  <2>7. QED
    BY <2>6
<1> HIDE DEF T
<1>4. size \in T
  <2>1. T \in SUBSET Nat
    BY DEF T
  <2>2. 0 .. size \subseteq T
    BY <1>1, <1>2, <1>3, <2>1, SetInduction
  <2>3. QED
    BY <1>1, <2>2
<1>5. \E done : Follows(done, size)
  BY <1>4 DEF T
<1>6. ContactProgress(query, catalog) = CHOOSE done : Follows(done, size)
  BY DEF ContactProgress, Nobody
<1>7. Follows(ContactProgress(query, catalog), size)
  BY <1>5, <1>6
<1>8. QED
  BY <1>7
(* What the first n entries have come to: their identities, and the first  *)
(* entry of each identity if it matches.                                   *)
FirstKept(c, n, kept) == \A i \in DOMAIN kept : \E k \in 1 .. n : kept[i] = c[k] /\ IsFirst(c, k)
KeptOnce(kept) == \A i, j \in DOMAIN kept : kept[i].id = kept[j].id => i = j
NoneMissing(query, c, n, kept) ==
  \A k \in 1 .. n : IsFirst(c, k) /\ Matches(c[k], query) => \E i \in DOMAIN kept : kept[i] = c[k]
Once(query, c, n, done) ==
  /\ done.seen = {c[k].id : k \in 1 .. n}
  /\ done.kept \in Seq(Items)
  /\ FirstKept(c, n, done.kept) /\ KeptOnce(done.kept)
  /\ NoneMissing(query, c, n, done.kept)

LEMMA OnceStep ==
  ASSUME NEW query, NEW c \in Seq(Items), NEW n \in Nat, n < Len(c),
         NEW done, Once(query, c, n, done)
  PROVE  Once(query, c, n + 1, NextContact(done, c[n + 1], query))
<1> DEFINE x == c[n + 1]
           kept == done.kept
<1>1. n + 1 \in 1 .. Len(c) /\ x \in Items
  OBVIOUS
<1>2. {c[k].id : k \in 1 .. n + 1} = {c[k].id : k \in 1 .. n} \cup {x.id}
  <2>1. 1 .. n + 1 = (1 .. n) \cup {n + 1}
    OBVIOUS
  <2>2. QED
    BY <2>1
<1>3. IsFirst(c, n + 1) <=> x.id \notin done.seen
  BY DEF IsFirst, Once
<1>4. FirstKept(c, n + 1, kept)
  <2>1. 1 .. n \subseteq 1 .. n + 1
    OBVIOUS
  <2>2. QED
    BY <2>1 DEF Once, FirstKept
<1>5. ASSUME NEW k \in 1 .. n + 1, k # n + 1, IsFirst(c, k), Matches(c[k], query)
      PROVE  \E i \in DOMAIN kept : kept[i] = c[k]
  <2>1. k \in 1 .. n
    BY <1>5
  <2>2. QED
    BY <1>5, <2>1 DEF Once, NoneMissing
<1>6. CASE x.id \in done.seen
  <2>1. NextContact(done, x, query) = done
    BY <1>6 DEF NextContact
  <2>2. NoneMissing(query, c, n + 1, kept)
    BY <1>3, <1>5, <1>6 DEF NoneMissing
  <2>3. done.seen = {c[k].id : k \in 1 .. n + 1}
    BY <1>2, <1>6 DEF Once
  <2>4. QED
    BY <1>4, <2>1, <2>2, <2>3 DEF Once
<1>7. CASE x.id \notin done.seen /\ ~Matches(x, query)
  <2>1. NextContact(done, x, query) = [seen |-> done.seen \cup {x.id}, kept |-> kept]
    BY <1>7 DEF NextContact
  <2>2. NoneMissing(query, c, n + 1, kept)
    BY <1>5, <1>7 DEF NoneMissing
  <2>3. QED
    BY <1>2, <1>4, <2>1, <2>2 DEF Once
<1>8. CASE x.id \notin done.seen /\ Matches(x, query)
  <2> DEFINE more == Append(kept, x)
  <2>1. NextContact(done, x, query) = [seen |-> done.seen \cup {x.id}, kept |-> more]
    BY <1>8 DEF NextContact
  <2>2. kept \in Seq(Items) /\ Len(kept) \in Nat
    BY DEF Once
  <2>3. /\ more \in Seq(Items)
        /\ DOMAIN more = 1 .. Len(kept) + 1
        /\ \A i \in 1 .. Len(kept) : more[i] = kept[i]
        /\ more[Len(kept) + 1] = x
    BY <1>1, <2>2
  <2>4. DOMAIN kept = 1 .. Len(kept)
    BY <2>2
  <2> HIDE DEF more, kept
  <2>5. \A i \in DOMAIN more : i \in DOMAIN kept \/ i = Len(kept) + 1
    BY <2>2, <2>3, <2>4
  <2>6. FirstKept(c, n + 1, more)
    <3> SUFFICES ASSUME NEW i \in DOMAIN more
                 PROVE  \E k \in 1 .. n + 1 : more[i] = c[k] /\ IsFirst(c, k)
      BY DEF FirstKept
    <3>1. CASE i \in DOMAIN kept
      BY <1>4, <2>3, <2>4, <3>1 DEF FirstKept
    <3>2. CASE i = Len(kept) + 1
      BY <1>3, <1>8, <2>3, <3>2
    <3>3. QED
      BY <2>5, <3>1, <3>2
  <2>7. \A i \in DOMAIN kept : more[i] = kept[i] /\ kept[i].id # x.id
    <3> SUFFICES ASSUME NEW i \in DOMAIN kept PROVE more[i] = kept[i] /\ kept[i].id # x.id
      OBVIOUS
    <3>1. \E k \in 1 .. n : kept[i] = c[k]
      BY DEF Once, FirstKept, kept
    <3>2. kept[i].id \in done.seen
      BY <3>1 DEF Once
    <3>3. QED
      BY <1>8, <2>3, <2>4, <3>2
  <2>8. KeptOnce(more)
    <3> SUFFICES ASSUME NEW i \in DOMAIN more, NEW j \in DOMAIN more, more[i].id = more[j].id
                 PROVE  i = j
      BY DEF KeptOnce
    <3>1. CASE i \in DOMAIN kept /\ j \in DOMAIN kept
      BY <2>7, <3>1 DEF Once, KeptOnce, kept
    <3>2. CASE i = Len(kept) + 1 \/ j = Len(kept) + 1
      BY <2>3, <2>5, <2>7, <3>2
    <3>3. QED
      BY <2>5, <3>1, <3>2
  <2>9. NoneMissing(query, c, n + 1, more)
    <3> SUFFICES ASSUME NEW k \in 1 .. n + 1, IsFirst(c, k), Matches(c[k], query)
                 PROVE  \E i \in DOMAIN more : more[i] = c[k]
      BY DEF NoneMissing
    <3>1. CASE k = n + 1
      <4>1. Len(kept) + 1 \in DOMAIN more
        BY <2>2, <2>3
      <4>2. QED
        BY <2>3, <3>1, <4>1
    <3>2. CASE k # n + 1
      <4>1. PICK i \in DOMAIN kept : kept[i] = c[k]
        BY <1>5, <3>2
      <4>2. i \in DOMAIN more
        BY <2>2, <2>3, <2>4
      <4>3. QED
        BY <2>7, <4>1, <4>2
    <3>3. QED
      BY <3>1, <3>2
  <2>10. QED
    BY <1>2, <2>1, <2>3, <2>6, <2>8, <2>9 DEF Once
<1>9. QED
  BY <1>6, <1>7, <1>8

(* Every identity is in the listing of contacts once, by its first entry,  *)
(* if that matches.                                                        *)
LEMMA ContactsOnce ==
  ASSUME NEW query, NEW c \in Seq(Items)
  PROVE  LET kept == ContactListing(query, c)
         IN  /\ kept \in Seq(Items)
             /\ FirstKept(c, Len(c), kept) /\ KeptOnce(kept)
             /\ NoneMissing(query, c, Len(c), kept)
<1> DEFINE size == Len(c)
           progress == ContactProgress(query, c)
           T == {n \in 0 .. size : Once(query, c, n, progress[n])}
<1>1. size \in Nat
  OBVIOUS
<1>2. \A n \in 0 .. size :
        progress[n] = IF n = 0 THEN Nobody ELSE NextContact(progress[n - 1], c[n], query)
  BY <1>1, ProgressStep
<1> HIDE DEF progress
<1>3. 0 \in T
  <2>1. progress[0] = Nobody
    BY <1>1, <1>2
  <2>2. Once(query, c, 0, Nobody)
    <3>1. <<>> \in Seq(Items) /\ DOMAIN <<>> = {}
      OBVIOUS
    <3>2. 1 .. 0 = {}
      OBVIOUS
    <3>3. Nobody.seen = {c[k].id : k \in 1 .. 0} /\ Nobody.kept = <<>>
      BY <3>2 DEF Nobody
    <3>4. QED
      BY <3>1, <3>2, <3>3 DEF Once, FirstKept, KeptOnce, NoneMissing
  <2>3. QED
    BY <1>1, <2>1, <2>2
<1>4. ASSUME NEW n \in T, n < size PROVE n + 1 \in T
  <2>1. n \in Nat /\ n + 1 \in 0 .. size /\ n + 1 # 0 /\ (n + 1) - 1 = n
    BY <1>1, <1>4
  <2>2. progress[n + 1] = NextContact(progress[n], c[n + 1], query)
    BY <1>2, <2>1
  <2>3. QED
    BY <1>4, <2>1, <2>2, OnceStep
<1> HIDE DEF T
<1>5. 0 .. size \subseteq T
  <2>1. T \in SUBSET Nat
    BY DEF T
  <2>2. QED
    BY <1>1, <1>3, <1>4, <2>1, SetInduction
<1>6. Once(query, c, size, progress[size])
  BY <1>1, <1>5 DEF T
<1>7. ContactListing(query, c) = progress[size].kept
  BY DEF ContactListing, progress
<1>8. QED
  BY <1>6, <1>7 DEF Once

(* The first entry of an identity is the only one that is first.           *)
LEMMA FirstEntries ==
  ASSUME NEW c \in Seq(Items), NEW k \in DOMAIN c
  PROVE  /\ IsFirst(c, k) => FirstEntry(c, c[k].id) = c[k]
         /\ \E i \in DOMAIN c : IsFirst(c, i) /\ FirstEntry(c, c[k].id) = c[i]
<1> DEFINE same == {i \in DOMAIN c : c[i].id = c[k].id}
<1>1. DOMAIN c \in SUBSET Nat /\ \A i \in DOMAIN c : 1 .. i - 1 \subseteq DOMAIN c
  OBVIOUS
<1>2. PICK m \in same : \A i \in same : m <= i
  <2>1. same \in SUBSET Nat /\ k \in same
    BY <1>1
  <2> HIDE DEF same
  <2>2. QED
    BY <2>1, LeastNat
<1>3. m \in DOMAIN c /\ c[m].id = c[k].id /\ IsFirst(c, m)
  <2>1. ASSUME NEW j \in 1 .. m - 1 PROVE c[j].id # c[m].id
    <3>1. j \in DOMAIN c /\ ~(m <= j)
      BY <1>1, <1>2
    <3>2. QED
      BY <1>2, <3>1
  <2>2. QED
    BY <1>2, <2>1 DEF IsFirst
<1>4. ASSUME NEW i \in DOMAIN c, NEW j \in DOMAIN c, c[i].id = c[j].id,
             IsFirst(c, i), IsFirst(c, j)
      PROVE  i = j
  <2>1. i \in Nat /\ j \in Nat /\ i >= 1 /\ j >= 1
    OBVIOUS
  <2>2. ~(i < j) /\ ~(j < i)
    BY <1>4, <2>1 DEF IsFirst
  <2>3. QED
    BY <2>1, <2>2
<1> DEFINE first == CHOOSE i \in DOMAIN c : c[i].id = c[k].id /\ IsFirst(c, i)
<1>5. first \in DOMAIN c /\ c[first].id = c[k].id /\ IsFirst(c, first)
  BY <1>3
<1>6. FirstEntry(c, c[k].id) = c[first]
  BY DEF FirstEntry
<1> HIDE DEF first
<1>7. IsFirst(c, k) => first = k
  BY <1>4, <1>5
<1>8. QED
  BY <1>5, <1>6, <1>7

(* The pages of contacts list each identity once, by its first entry.      *)
THEOREM ContactsListedOnce == Spec => []IdentityOnce
<1>1. ASSUME ListInv PROVE IdentityOnce
  <2> SUFFICES ASSUME NEW p \in Proc, answer[p].code = "OK",
                      ask[p].filter.command = "contacts.list"
               PROVE  LET t == answer[p].trail
                          c == page[p].content
                      IN /\ \A i, j \in DOMAIN t : t[i].id = t[j].id => i = j
                         /\ \A i \in DOMAIN t : t[i] = FirstEntry(c, t[i].id)
                         /\ answer[p].next = None =>
                              \A i \in DOMAIN c :
                                LET x == FirstEntry(c, c[i].id)
                                IN Matches(x, ask[p].filter.query) => \E j \in DOMAIN t : t[j] = x
    BY DEF IdentityOnce
  <2> DEFINE t == answer[p].trail
             c == page[p].content
             query == ask[p].filter.query
             whole == Listed(p)
  <2>1. /\ t = SubSeq(whole, 1, page[p].to)
        /\ answer[p].next = None => t = whole
    BY <1>1, PrintedPage
  <2>2. ask[p] \in Line /\ page[p] \in Page /\ page[p].to \in 0 .. Len(whole)
    <3>1. page[p] # None /\ ask[p] # None
      BY <1>1 DEF ListInv, AnswerInv, PlaceInv
    <3>2. /\ ask[p] \in Line /\ page[p] \in Page
          /\ Given(ask[p].cursor) => Sound(ask[p].cursor)
          /\ Continues(ask[p]) /\ PageOf(ask[p], page[p])
      BY <1>1, <3>1 DEF ListInv, TypeOK, CursorInv, PageInv
    <3>3. page[p].to \in page[p].from .. Len(whole) /\ page[p].from \in Nat
      BY <3>2, PageJoins DEF Listed, Whole, Page
    <3>4. whole \in Seq(Items) /\ Len(whole) \in Nat
      BY <3>2, ViewType DEF Listed, Line, Page
    <3> HIDE DEF whole
    <3>5. QED
      BY <3>2, <3>3, <3>4
  <2>3. c \in Seq(Items) /\ whole = ContactListing(query, c)
    <3>1. ask[p].filter \in Filters /\ c \in Contents
      BY <2>2 DEF Line, Page
    <3>2. whole = Shown(ask[p].filter, c) /\ c \in Seq(Items)
      BY <3>1, ListingAssumption DEF Listed
    <3>3. QED
      BY <3>2 DEF Shown
  <2> HIDE DEF c, whole, t, query
  <2>4. /\ whole \in Seq(Items)
        /\ FirstKept(c, Len(c), whole) /\ KeptOnce(whole)
        /\ NoneMissing(query, c, Len(c), whole)
    BY <2>3, ContactsOnce
  <2>5. DOMAIN t \subseteq DOMAIN whole /\ \A i \in DOMAIN t : t[i] = whole[i]
    BY <2>1, <2>2, <2>4
  <2>6. DOMAIN c = 1 .. Len(c)
    BY <2>3
  <2>7. \A i, j \in DOMAIN t : t[i].id = t[j].id => i = j
    BY <2>4, <2>5 DEF KeptOnce
  <2>8. \A i \in DOMAIN t : t[i] = FirstEntry(c, t[i].id)
    <3> SUFFICES ASSUME NEW i \in DOMAIN t PROVE t[i] = FirstEntry(c, t[i].id)
      OBVIOUS
    <3>1. PICK k \in DOMAIN c : whole[i] = c[k] /\ IsFirst(c, k)
      BY <2>4, <2>5, <2>6 DEF FirstKept
    <3>2. FirstEntry(c, c[k].id) = c[k]
      BY <2>3, <3>1, FirstEntries
    <3>3. QED
      BY <2>5, <3>1, <3>2
  <2>9. ASSUME answer[p].next = None, NEW i \in DOMAIN c, Matches(FirstEntry(c, c[i].id), query)
        PROVE  \E j \in DOMAIN t : t[j] = FirstEntry(c, c[i].id)
    <3>1. PICK k \in DOMAIN c : IsFirst(c, k) /\ FirstEntry(c, c[i].id) = c[k]
      BY <2>3, FirstEntries
    <3>2. \E j \in DOMAIN whole : whole[j] = c[k]
      BY <2>4, <2>6, <2>9, <3>1 DEF NoneMissing
    <3>3. t = whole
      BY <2>1, <2>9
    <3>4. QED
      BY <3>1, <3>2, <3>3
  <2>10. QED
    BY <2>7, <2>8, <2>9 DEF t, c, query
<1>2. QED
  BY <1>1, ListInvariant, PTL
=============================================================================
