------------------------------ MODULE Pagination ------------------------------
(***************************************************************************)
(* The pages of a list (util/pagination.go).  An int wraps around at       *)
(* MaxInt, 2^63 - 1 where Tensor runs; the page of a request may be any    *)
(* int, as pageParser converts it from an unsigned number, and limitParser *)
(* keeps the limit between MinLimit and MaxLimit.                          *)
(***************************************************************************)
EXTENDS Integers

CONSTANTS MaxInt, MinLimit, MaxLimit

ASSUME PaginationAssumption ==
    /\ MaxInt \in Nat \ {0}
    /\ MinLimit \in Nat \ {0} /\ MaxLimit \in Nat /\ MinLimit <= MaxLimit

MinInt == -MaxInt - 1

Wrap(i) == ((i - MinInt) % (2 * (MaxInt + 1))) + MinInt

Limits == MinLimit .. MaxLimit
Pages == MinInt .. MaxInt

AtMost(n, count) == IF n > count THEN count ELSE n

(* Wrong: the first page is page 0. *)
OffsetFromZero(limit, page) ==
    IF page <= 1 THEN 0 ELSE Wrap(limit * page)

Offset(limit, page) ==
    IF page <= 1 THEN 0 ELSE Wrap(limit * (page - 1))

(* math.Ceil of the quotient. *)
TotalPages(limit, count) == (count + limit - 1) \div limit

(* The request is answered with 404. *)
HasPage(limit, page, count) ==
    /\ TotalPages(limit, count) > 0
    /\ page <= 0 \/ page > TotalPages(limit, count)

Skip(limit, page, count) == AtMost(Offset(limit, page), count)

(* Wrong: the last page is as long as the others. *)
EndOfFullPage(limit, page, count) == Skip(limit, page, count) + limit

End(limit, page, count) == AtMost(Skip(limit, page, count) + limit, count)

(* The positions, from 0, of the items on a page. *)
Shown(limit, page, count) == Skip(limit, page, count) .. (End(limit, page, count) - 1)

--------------------------------------------------------------------------------

(* Handlers slice a list of count items with the bounds of the page.  They  *)
(* are bounds of the list (a slice panics otherwise), whatever page was     *)
(* asked for; except that for an empty list HasPage rejects no page, and    *)
(* the offset of a huge one wraps around (util/pagination.go:40).           *)
InBounds(count) ==
    \A limit \in Limits, page \in Pages :
        ~HasPage(limit, page, count) =>
            \/ /\ 0 <= Skip(limit, page, count)
               /\ Skip(limit, page, count) <= End(limit, page, count)
               /\ End(limit, page, count) <= count
            \/ count = 0 /\ Offset(limit, page) # limit * (page - 1)

(* The pages of a list show each of its items once. *)
ShowsAll(count) ==
    \A limit \in Limits : \A item \in 0 .. (count - 1) :
        \E page \in 1 .. TotalPages(limit, count) :
            /\ ~HasPage(limit, page, count)
            /\ item \in Shown(limit, page, count)
            /\ \A other \in (1 .. TotalPages(limit, count)) \ {page} :
                   item \notin Shown(limit, other, count)

================================================================================
