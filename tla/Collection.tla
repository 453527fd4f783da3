----------------------------- MODULE Collection -----------------------------
(***************************************************************************)
(* Listing commands and their cursors.  A listing reads the whole remote   *)
(* collection, prints one page of it and, when there is more, a cursor:    *)
(* digest, filter and next offset, sealed with the key in cursor.key.      *)
(* Later invocations, each a process of its own, continue from cursors     *)
(* that earlier ones printed, while the collection changes and first       *)
(* invocations race to create the key (internal/app: app.go, posters.go,   *)
(* events.go, guests.go, cursor_key.go).                                   *)
(***************************************************************************)
EXTENDS Integers, Sequences

CONSTANTS
  Proc,       \* the invocations
  Filters,    \* the commands with their normalized queries
  Contents,   \* what the remote collection may hold
  Items,      \* what a listing shows
  View,       \* View[f][c]: what filter f shows of contents c, in order
  Limits,     \* Limits[f]: the values of --limit that are given with filter f
  None,       \* no key, no cursor, no page, no command line yet
  BadKey,     \* cursor.key does not hold a key
  Malformed   \* a --cursor that was never printed

ASSUME ViewAssumption == View \in [Filters -> [Contents -> Seq(Items)]]
ASSUME LimitAssumption == Limits \in [Filters -> SUBSET (Nat \ {0})]

(* A cursor.  trail is history, no part of the token: the items printed on *)
(* the pages that lead to it.                                              *)
Cursor == [key: Nat, digest: Contents, filter: Filters, offset: Nat, trail: Seq(Items)]

Token == Cursor \cup {None, Malformed}
Line == [filter: Filters, limit: Nat \ {0}, cursor: Token]
Page == [content: Contents, from: Nat, to: Nat]

ASSUME SentinelAssumption ==
  /\ None \notin Nat \cup Cursor \cup Line \cup Page
  /\ BadKey \notin Nat \cup {None}
  /\ Malformed \notin Cursor \cup {None}

VARIABLES
  content,   \* what the remote collection holds
  keyFile,   \* cursor.key
  made,      \* the number of keys made so far: random keys never repeat
  pc,        \* pc[p]: where p is
  ask,       \* ask[p]: p's command line: its filter, limit and cursor
  key,       \* key[p]: the key p has loaded, or is about to link
  page,      \* page[p]: the contents p has read, and its page of them
  answer     \* answer[p]: what p printed; trail, again, is history

vars == <<content, keyFile, made, pc, ask, key, page, answer>>

Failure(code) == [code |-> code, trail |-> <<>>, next |-> None]
NoAnswer == Failure("none")

(* The cursors that can be given: what anyone has printed, or a token that *)
(* nobody has.                                                             *)
Printed == {answer[p].next : p \in Proc} \ {None}

Least(a, b) == IF a < b THEN a ELSE b

-----------------------------------------------------------------------------
Init ==
  /\ content \in Contents
  /\ keyFile \in {None, BadKey, 0}
  /\ made = 0
  /\ pc = [p \in Proc |-> "start"]
  /\ ask = [p \in Proc |-> None]
  /\ key = [p \in Proc |-> None]
  /\ page = [p \in Proc |-> None]
  /\ answer = [p \in Proc |-> NoAnswer]

Goto(p, point) == pc' = [pc EXCEPT ![p] = point]

Finish(p, a) == Goto(p, "done") /\ answer' = [answer EXCEPT ![p] = a]

(* A listing begins: with a cursor it needs the key first. *)
Start(p) ==
  /\ pc[p] = "start"
  /\ \E f \in Filters, c \in Printed \cup {None, Malformed} : \E l \in Limits[f] :
        /\ ask' = [ask EXCEPT ![p] = [filter |-> f, limit |-> l, cursor |-> c]]
        /\ Goto(p, IF c = None THEN "fetch" ELSE "key")
  /\ UNCHANGED <<content, keyFile, made, key, page, answer>>

(* Where the key is needed: to open a cursor, or to seal one. *)
WithKey(p) == IF page[p] = None THEN "open" ELSE "seal"

TrustKey(file) == TRUE                                         \* mutant
ValidKey(file) == file # BadKey

(* Key: the file is read; when it does not exist, a random key is written  *)
(* to a temporary file.                                                    *)
ReadKey(p) ==
  /\ pc[p] = "key"
  /\ \/ /\ keyFile # None /\ ValidKey(keyFile)
        /\ key' = [key EXCEPT ![p] = keyFile]
        /\ Goto(p, WithKey(p))
        /\ UNCHANGED <<made, answer>>
     \/ /\ keyFile = None
        /\ made' = made + 1
        /\ key' = [key EXCEPT ![p] = made + 1]
        /\ Goto(p, "link")
        /\ UNCHANGED answer
     \/ /\ Finish(p, Failure("INTERNAL_FAILURE"))
        /\ UNCHANGED <<made, key>>
  /\ UNCHANGED <<content, keyFile, ask, page>>

RenameKey(p) ==                                                \* mutant
  /\ pc[p] = "link"
  /\ keyFile' = key[p]
  /\ Goto(p, WithKey(p))
  /\ UNCHANGED <<content, made, ask, key, page, answer>>

(* Key: link(2) gives the temporary file its name unless the name is taken *)
(* by then.                                                                *)
LinkKey(p) ==
  /\ pc[p] = "link"
  /\ \/ /\ keyFile = None
        /\ keyFile' = key[p]
        /\ Goto(p, WithKey(p))
        /\ UNCHANGED <<key, answer>>
     \/ /\ keyFile # None
        /\ key' = [key EXCEPT ![p] = None]
        /\ Goto(p, "reread")
        /\ UNCHANGED <<keyFile, answer>>
     \/ /\ Finish(p, Failure("INTERNAL_FAILURE"))
        /\ UNCHANGED <<keyFile, key>>
  /\ UNCHANGED <<content, made, ask, page>>

(* Key: the winner's key is read. *)
RereadKey(p) ==
  /\ pc[p] = "reread"
  /\ \/ /\ keyFile # None /\ ValidKey(keyFile)
        /\ key' = [key EXCEPT ![p] = keyFile]
        /\ Goto(p, WithKey(p))
        /\ UNCHANGED answer
     \/ /\ Finish(p, Failure("INTERNAL_FAILURE"))
        /\ UNCHANGED key
  /\ UNCHANGED <<content, keyFile, made, ask, page>>

-----------------------------------------------------------------------------
Opens(c, k) == c # Malformed /\ c.key = k

AnyFilter(c, f) == TRUE                                        \* mutant
SameFilter(c, f) == c.filter = f

(* decodeCursor: the token must open with this key and be of this command  *)
(* and query.                                                              *)
OpenCursor(p) ==
  /\ pc[p] = "open"
  /\ LET c == ask[p].cursor IN
     \/ /\ ~Opens(c, key[p])
        /\ Finish(p, Failure("CURSOR_INVALID"))
     \/ /\ Opens(c, key[p])
        /\ IF SameFilter(c, ask[p].filter)
           THEN Goto(p, "fetch") /\ UNCHANGED answer
           ELSE Finish(p, Failure("CURSOR_FILTER_MISMATCH"))
  /\ UNCHANGED <<content, keyFile, made, ask, key, page>>

(* The session is acquired and the collection read, or one of the two      *)
(* fails.                                                                  *)
FetchFails(p) ==
  /\ pc[p] = "fetch"
  /\ Finish(p, Failure("NOT_READ"))
  /\ UNCHANGED <<content, keyFile, made, ask, key, page>>

MoreInclusive(to, size) == to <= size                          \* mutant
HasMore(to, size) == to < size

Before(c) == IF c = None THEN <<>> ELSE c.trail
Trail(p, pg) ==
  Before(ask[p].cursor)
    \o SubSeq(View[ask[p].filter][pg.content], pg.from + 1, pg.to)

Success(p, pg, next) == [code |-> "OK", trail |-> Trail(p, pg), next |-> next]

AnySnapshot(c, digest) == TRUE                                 \* mutant
SameSnapshot(c, digest) == c.digest = digest

(* cursorSnapshotOffset and the page: a cursor of another snapshot is      *)
(* refused; the last page is printed at once, any other waits for its      *)
(* cursor to be sealed.                                                    *)
Fetch(p) ==
  /\ pc[p] = "fetch"
  /\ LET c == ask[p].cursor
         size == Len(View[ask[p].filter][content])
         offset == IF c = None THEN 0 ELSE c.offset
         resumed == c # None => SameSnapshot(c, content) /\ offset <= size
         to == Least(offset + ask[p].limit, size)
         pg == [content |-> content, from |-> offset, to |-> to]
     IN
     \/ /\ c # None /\ ~SameSnapshot(c, content)
        /\ Finish(p, Failure("CURSOR_SNAPSHOT_CHANGED"))
        /\ UNCHANGED page
     \/ /\ c # None /\ SameSnapshot(c, content) /\ offset > size
        /\ Finish(p, Failure("CURSOR_INVALID"))
        /\ UNCHANGED page
     \/ /\ resumed
        /\ page' = [page EXCEPT ![p] = pg]
        /\ IF HasMore(to, size)
           THEN Goto(p, IF key[p] = None THEN "key" ELSE "seal") /\ UNCHANGED answer
           ELSE Finish(p, Success(p, pg, None))
  /\ UNCHANGED <<content, keyFile, made, ask, key>>

(* nextCursor *)
Seal(p) ==
  /\ pc[p] = "seal"
  /\ \/ Finish(p, Failure("INTERNAL_FAILURE"))
     \/ Finish(p, Success(p, page[p],
                    [key |-> key[p], digest |-> page[p].content,
                     filter |-> ask[p].filter, offset |-> page[p].to,
                     trail |-> Trail(p, page[p])]))
  /\ UNCHANGED <<content, keyFile, made, ask, key, page>>

-----------------------------------------------------------------------------
(* A process is killed: what it has printed and linked stays. *)
Crash(p) ==
  /\ pc[p] \notin {"done", "crashed"}
  /\ Goto(p, "crashed")
  /\ UNCHANGED <<content, keyFile, made, ask, key, page, answer>>

(* The remote collection changes, perhaps back to what it was. *)
Change ==
  /\ content' \in Contents \ {content}
  /\ UNCHANGED <<keyFile, made, pc, ask, key, page, answer>>

Next ==
  \/ \E p \in Proc :
        \/ Start(p) \/ ReadKey(p) \/ LinkKey(p) \/ RereadKey(p) \/ OpenCursor(p)
        \/ FetchFails(p) \/ Fetch(p) \/ Seal(p) \/ Crash(p)
  \/ Change

Spec == Init /\ [][Next]_vars
=============================================================================
