---------------------------- MODULE MCCollection ----------------------------
(* A small collection and its listings for TLC. *)
EXTENDS CollectionProps, TLC

Filter(command, query) == [command |-> command, query |-> query]
Everyone == Filter("contacts.list", NoQuery)
Some == Filter("contacts.list", "q")
Posters == Filter("posters.search", "q")
GuestsOfEvent == Filter("guests.list", "event")
MCFilters == {Everyone, Some, Posters, GuestsOfEvent}

(* Pages of one, pages that end with the listing, and short last pages.    *)
MCLimits == [f \in MCFilters |-> IF f \in {Everyone, Posters} THEN {1} ELSE {2}]

Entry(id, hits, anchored) == [id |-> id, hits |-> hits, anchored |-> anchored]
Ann == Entry("a", {"q"}, FALSE)
Ben == Entry("b", {}, TRUE)
Ben2 == Entry("b", {"q"}, FALSE)
Cyd == Entry("c", {"q"}, FALSE)
MCItems == {Ann, Ben, Ben2, Cyd}

(* Two entries are of one identity, and only the second of them matches    *)
(* the query; one entry is an anchored guest.                              *)
MCContents == {<<Ann, Ben, Ben2, Cyd>>, <<Ben2, Ann, Ben>>}

MCView == [f \in Filters |-> [c \in Contents |-> Shown(f, c)]]

Symmetry == Permutations(Proc)
=============================================================================
