------------------------------- MODULE Listing -------------------------------
(***************************************************************************)
(* What each listing command shows of the remote collection it has read    *)
(* (internal/app: app.go, posters.go, contacts.go, events.go, guests.go).  *)
(*                                                                         *)
(* An entry is a record: id is its private identity, hits are the queries  *)
(* its name (for a poster, its tags and categories too) contains, and      *)
(* anchored says that it is a guest another guest brought along.           *)
(***************************************************************************)
EXTENDS Integers, Sequences

NoQuery == "no query"

Matches(x, query) == query = NoQuery \/ query \in x.hits

(* filterPosters *)
PosterListing(query, catalog) == SelectSeq(catalog, LAMBDA x : Matches(x, query))

(* filterContacts: the first entry of an identity counts, whether it       *)
(* matches the query or not.                                               *)
AnyEntry(done, x, query) ==                                    \* mutant
  IF x.id \in done.seen \/ ~Matches(x, query) THEN done
  ELSE [seen |-> done.seen \cup {x.id}, kept |-> Append(done.kept, x)]
NextContact(done, x, query) ==
  IF x.id \in done.seen THEN done
  ELSE [seen |-> done.seen \cup {x.id},
        kept |-> IF Matches(x, query) THEN Append(done.kept, x) ELSE done.kept]
ContactProgress(query, catalog) ==
  LET done[n \in 0 .. Len(catalog)] ==
        IF n = 0 THEN [seen |-> {}, kept |-> <<>>]
        ELSE NextContact(done[n - 1], catalog[n], query)
  IN done
ContactListing(query, catalog) == ContactProgress(query, catalog)[Len(catalog)].kept

(* projectGuestList *)
GuestListing(catalog) == SelectSeq(catalog, LAMBDA x : ~x.anchored)

(* The listing of a filter: a command and its normalized query. *)
Shown(filter, catalog) ==
  CASE filter.command \in {"posters.list", "events.list"} -> catalog
    [] filter.command = "posters.search" -> PosterListing(filter.query, catalog)
    [] filter.command = "contacts.list" -> ContactListing(filter.query, catalog)
    [] filter.command = "guests.list" -> GuestListing(catalog)
=============================================================================
