--------------------------- MODULE CollectionProps ---------------------------
(***************************************************************************)
(* What following the cursors of a listing promises.                       *)
(***************************************************************************)
EXTENDS Collection, Listing

(* What the remote holds are entries, and a filter shows of them what its  *)
(* command does.                                                           *)
ASSUME ListingAssumption ==
  /\ Contents \subseteq Seq(Items)
  /\ \A f \in Filters, c \in Contents : View[f][c] = Shown(f, c)

Codes == {"none", "OK", "NOT_READ", "INTERNAL_FAILURE", "CURSOR_INVALID",
          "CURSOR_FILTER_MISMATCH", "CURSOR_SNAPSHOT_CHANGED"}

(* Every variable stays in its domain: no process works with a file that   *)
(* holds no key.                                                           *)
TypeOK ==
  /\ content \in Contents
  /\ keyFile \in Nat \cup {None, BadKey}
  /\ made \in Nat
  /\ pc \in [Proc -> {"start", "key", "link", "reread", "open", "fetch", "seal",
                      "done", "crashed"}]
  /\ ask \in [Proc -> Line \cup {None}]
  /\ key \in [Proc -> Nat \cup {None}]
  /\ page \in [Proc -> Page \cup {None}]
  /\ answer \in [Proc -> [code: Codes, trail: Seq(Items), next: Cursor \cup {None}]]

Listed(p) == View[ask[p].filter][page[p].content]

(* The pages along a chain of cursors, printed by different processes with *)
(* different limits while the collection changes, are together a prefix of *)
(* one listing, the one the last of them has read: nothing is skipped,     *)
(* repeated or merged.  Without a further cursor they are all of it.       *)
PagesJoin ==
  \A p \in Proc : answer[p].code = "OK" =>
    /\ answer[p].trail = SubSeq(Listed(p), 1, Len(answer[p].trail))
    /\ answer[p].next = None => answer[p].trail = Listed(p)

(* Following cursors comes to an end: each leads further into the listing, *)
(* and none to an empty page.                                              *)
CursorsAdvance ==
  \A p \in Proc : answer[p].next # None =>
    /\ answer[p].next.offset = Len(answer[p].trail)
    /\ answer[p].next.offset > Len(Before(ask[p].cursor))
    /\ answer[p].next.offset < Len(Listed(p))

(* Contacts: the pages along a chain of cursors list each identity once,   *)
(* by its first entry, and every identity whose first entry matches when   *)
(* no cursor is left (docs/CLI-PRODUCT-CONTRACT.md:941-943).               *)
IsFirst(c, i) == \A j \in 1 .. i - 1 : c[j].id # c[i].id
FirstEntry(c, id) == c[CHOOSE i \in DOMAIN c : c[i].id = id /\ IsFirst(c, i)]
IdentityOnce ==
  \A p \in Proc :
    answer[p].code = "OK" /\ ask[p].filter.command = "contacts.list" =>
      LET t == answer[p].trail
          c == page[p].content
      IN /\ \A i, j \in DOMAIN t : t[i].id = t[j].id => i = j
         /\ \A i \in DOMAIN t : t[i] = FirstEntry(c, t[i].id)
         /\ answer[p].next = None =>
              \A i \in DOMAIN c :
                LET x == FirstEntry(c, c[i].id)
                IN Matches(x, ask[p].filter.query) => \E j \in DOMAIN t : t[j] = x

(* A cursor that was printed can be opened by whoever is given it: first   *)
(* invocations that race for the key agree on one.                         *)
GenuineCursorOpens ==
  \A p \in Proc : answer[p].code = "CURSOR_INVALID" => ask[p].cursor = Malformed
=============================================================================
