------------------------------ MODULE Listing ------------------------------
(***************************************************************************)
(* The readers that page through a list of a stack or of gcom, while people *)
(* add, remove, move and change its rows between two pages                  *)
(* (collector/sources).  Five of them take a count for their witness of     *)
(* completeness: `panels', `public' and `accounts' the totalCount of each   *)
(* page, `dashboards' the count of the inventory, read before.  `policies'  *)
(* and `networks' follow the service's continuations, region by region.     *)
(***************************************************************************)
EXTENDS Integers, FiniteSets, Sequences, FiniteSetsExt

CONSTANTS
    Id,          \* rows
    Regions,     \* the regions of policies and networks, in order
    PageSize,
    MaxPages,
    MaxChanges   \* bound: changes of the list while it is read

Counted == {"panels", "public", "accounts"}
Continued == {"policies", "networks"}
Sources == Counted \cup Continued \cup {"dashboards"}
Places == 1 .. Len(Regions)

VARIABLES
    src,       \* the reader
    hidden,    \* how many rows its credential is not shown: none if it covers every folder
    rows,      \* region -> the list as the service would give it to that credential
    signing,   \* rows whose scopes hold set:pdc-signing
    list,      \* what the reader has so far
    result,    \* what it returns: that the list is unavailable, or how many it found
    since      \* ghost: what has happened to the list since the reading began

vars == <<src, hidden, rows, signing, list, result, since>>

\* A list with one row more or less, and a set as a list (the three of SequencesExt that are needed:
\* the rest of it in their context makes the proofs about Parts much slower).
InsertAt(s, i, x) == SubSeq(s, 1, i - 1) \o <<x>> \o SubSeq(s, i, Len(s))
RemoveAt(s, i) == SubSeq(s, 1, i - 1) \o SubSeq(s, i + 1, Len(s))
SetToSeq(S) == CHOOSE f \in [1 .. Cardinality(S) -> S] : IsInjective(f)

NoTotal == -1
Start == [pc |-> "coverage", place |-> 1, page |-> 1, seen |-> <<>>, total |-> NoTotal,
          followed |-> {}, matches |-> {}]
Pending == [state |-> "pending", count |-> 0]

All(lists) == UNION {{<<p, lists[p][i]>> : i \in DOMAIN lists[p]} : p \in Places}
Quiet(lists) == [came |-> FALSE, went |-> FALSE, moved |-> FALSE, changes |-> 0,
                 stayed |-> All(lists), sizes |-> {Len(lists[1])}]

TypeOK ==
    /\ src \in Sources /\ hidden \in 0 .. PageSize /\ signing \subseteq Id
    /\ \A p \in Places : rows[p] \in Seq(Id) /\ IsInjective(rows[p])
    /\ list.pc \in {"coverage", "page", "done"} /\ list.place \in Places
    /\ list.page \in Nat \ {0} /\ list.total \in -1 .. Cardinality(Id) + PageSize
    /\ list.seen \in Seq(Places \X Id) /\ list.followed \subseteq Nat \ {0}
    /\ list.matches \subseteq Id \X BOOLEAN
    /\ result \in [state : {"pending", "unavailable", "available"}, count : Nat]
    /\ since.changes \in 0 .. MaxChanges
    /\ since.stayed \subseteq Places \X Id /\ since.sizes \subseteq 0 .. Cardinality(Id)

\* The first n rows, and in a second region some of the same.  A stack filters its lists by what the
\* credential may see, and answers 200; gcom's lists are the organisation's.  The inventory's
\* dashboardCnt is what `total' begins with, and counts what is hidden too.
Init ==
    /\ src \in Sources
    /\ hidden \in IF src \in Continued THEN {0} ELSE 0 .. PageSize
    /\ \E n \in 0 .. Cardinality(Id), m \in IF src \in Continued THEN 0 .. PageSize ELSE {0} :
           rows = [p \in Places |-> [i \in 1 .. IF p = 1 THEN n ELSE m |-> i]]
    /\ signing \in IF src = "networks" THEN {{}, {1, 2}} ELSE {{}}
    /\ list = [Start EXCEPT !.pc = IF src = "panels" THEN "coverage" ELSE "page",
                            !.total = IF src = "dashboards" THEN Len(rows[1]) + hidden ELSE NoTotal]
    /\ result = Pending
    /\ since = Quiet(rows)

-----------------------------------------------------------------------------
(* People *)

\* Something is changed while the list is being read: to a credential that is not shown a folder, what
\* is moved there has gone.
Change(place, row, name) ==
    /\ list.pc # "done" /\ since.changes < MaxChanges
    /\ rows' = [rows EXCEPT ![place] = row]
    /\ since' = [since EXCEPT
           ![name] = TRUE, !.changes = @ + 1,
           !.stayed = @ \cap All(rows'), !.sizes = @ \cup {Len(rows'[1])}]
    /\ UNCHANGED <<src, hidden, list, result>>

Add == \E p \in Places : \E x \in Id \ Range(rows[p]), i \in 1 .. Len(rows[p]) + 1 :
    /\ src \notin Continued => p = 1
    /\ Change(p, InsertAt(rows[p], i, x), "came") /\ UNCHANGED signing
Drop == \E p \in Places : \E i \in DOMAIN rows[p] :
    Change(p, RemoveAt(rows[p], i), "went") /\ UNCHANGED signing
\* A row gets another name and with it another place.
Rename == \E p \in Places : \E i, j \in DOMAIN rows[p] :
    /\ i # j
    /\ Change(p, InsertAt(RemoveAt(rows[p], i), j, rows[p][i]), "moved") /\ UNCHANGED signing
Rescope == src = "networks" /\ \E x \in Id :
    /\ Change(1, rows[1], "moved")
    /\ signing' = IF x \in signing THEN signing \ {x} ELSE signing \cup {x}

-----------------------------------------------------------------------------
(* The service *)

Shown == rows[list.place]
Batch == SubSeq(Shown, (list.page - 1) * PageSize + 1, Min({list.page * PageSize, Len(Shown)}))

-----------------------------------------------------------------------------
(* The readers *)

Become(next) == list' = next /\ UNCHANGED result
Refuse ==
    /\ list' = [Start EXCEPT !.pc = "done"]
    /\ result' = [state |-> "unavailable", count |-> 0]
Complete(seen, n) ==
    /\ list' = [Start EXCEPT !.pc = "done", !.seen = seen]
    /\ result' = [state |-> "available", count |-> n]

\* Mutant: a row that comes twice is taken twice.
NeverRepeated(batch) == FALSE

\* A row of the batch has come before, or comes twice.
Repeated(batch) ==
    \E i \in DOMAIN batch :
        \/ <<list.place, batch[i]>> \in Range(list.seen)
        \/ \E j \in 1 .. i - 1 : batch[i] = batch[j]

Taken(batch) == list.seen \o [i \in DOMAIN batch |-> <<list.place, batch[i]>>]
NextPage(seen, total) ==
    Become([list EXCEPT !.page = @ + 1, !.seen = seen, !.total = total])

\* The transport fails, a status is refused, or a body is not what it should be.
Unreadable == Refuse

\* The panels' credential must be seen to cover every folder, before a page is read: no other reader
\* asks what its credential may see.
Coverage ==
    /\ list.pc = "coverage"
    /\ \/ Unreadable
       \/ hidden = 0 /\ Become([list EXCEPT !.pc = "page"])

\* fetch_library_panels: each page has just the rows that are missing from its total.
PanelsPage ==
    LET total == IF list.total = NoTotal THEN Len(Shown) ELSE list.total
        seen == Taken(Batch)
    IN  /\ src = "panels"
        /\ IF \/ Len(Shown) # total \/ Repeated(Batch)
              \/ Len(Batch) # Min({PageSize, total - Len(list.seen)})
           THEN Refuse
           ELSE IF Len(seen) = total THEN Complete(seen, total)
           ELSE IF list.page = MaxPages THEN Refuse
           ELSE NextPage(seen, total)

\* public_dashboards.probe_stack: pages until their rows reach the total or run out.
PublicPage ==
    LET total == IF list.page = 1 THEN Len(Shown) ELSE list.total
        seen == Taken(Batch)
        over == Len(seen) >= total \/ Batch = <<>> \/ list.page = MaxPages
    IN  /\ src = "public"
        /\ IF Len(Shown) # total \/ Repeated(Batch) THEN Refuse
           ELSE IF ~ over THEN NextPage(seen, total)
           ELSE IF Len(seen) = total THEN Complete(seen, total)
           ELSE Refuse

\* serviceaccounts.probe_stack: the same without asking whether a row comes twice.
AccountsPage ==
    LET total == IF list.total = NoTotal THEN Len(Shown) ELSE list.total
        seen == Taken(Batch)
    IN  /\ src = "accounts"
        /\ IF Len(Shown) # total \/ Len(seen) > total THEN Refuse
           ELSE IF Len(seen) = total THEN Complete(seen, total)
           ELSE IF Batch = <<>> \/ list.page = MaxPages THEN Refuse
           ELSE NextPage(seen, total)

\* probe_dashboards_stack: pages until a short one, and as many rows as the inventory had counted.
DashboardsPage ==
    LET seen == Taken(Batch)
    IN  /\ src = "dashboards"
        /\ IF Repeated(Batch) THEN Refuse
           ELSE IF Len(Batch) < PageSize
           THEN IF Len(seen) = list.total THEN Complete(seen, Len(seen)) ELSE Refuse
           ELSE IF list.page = MaxPages THEN Refuse
           ELSE NextPage(seen, list.total)

\* What a page adds to the policies: a row that came before is not taken again.  They are a dict.
Fresh == SetToSeq({x \in Range(Batch) : <<list.place, x>> \notin Range(list.seen)})

\* identities: whether a policy signs, of each page that it came in.
Matches == list.matches \cup {<<x, x \in signing>> : x \in Range(Batch)}
Signing == {x \in Id : <<x, TRUE>> \in Matches}
Contradicted == \E x \in Signing : <<x, FALSE>> \in Matches

NextPlace(seen) ==
    IF list.place < Len(Regions)
    THEN Become([Start EXCEPT !.pc = "page", !.place = list.place + 1,
                              !.seen = seen, !.matches = Matches])
    ELSE Complete(seen, IF src = "networks" THEN Cardinality(Signing) ELSE Len(seen))

\* A continuation is followed once.  networks also follows no more than so many.
Follow(page, seen) ==
    IF \/ page \in list.followed
       \/ src = "networks" /\ Cardinality(list.followed) + 1 = MaxPages
    THEN Refuse
    ELSE Become([list EXCEPT !.page = page, !.seen = seen, !.matches = Matches,
                             !.followed = @ \cup {page}])

\* fetch_access_policies, fetch_pdc_networks: a page, and on to where it points, which may be a page
\* that was read before.  networks refuses a policy that signs in one page and not in another.
ContinuedPage ==
    LET seen == Taken(Fresh) IN
    /\ src \in Continued
    /\ \/ src = "networks" /\ Contradicted /\ Refuse
       \/ /\ src = "networks" => ~ Contradicted
          /\ \/ list.page * PageSize >= Len(Shown) /\ NextPlace(seen)
             \/ list.page * PageSize < Len(Shown) /\ Follow(list.page + 1, seen)
             \/ \E page \in 1 .. list.page : Follow(page, seen)

ReadPage ==
    /\ list.pc = "page"
    /\ Unreadable \/ PanelsPage \/ PublicPage \/ AccountsPage \/ DashboardsPage \/ ContinuedPage

Next ==
    \/ Add \/ Drop \/ Rename \/ Rescope
    \/ (Coverage \/ ReadPage) /\ UNCHANGED <<src, hidden, rows, signing, since>>

Spec == Init /\ [][Next]_vars

-----------------------------------------------------------------------------
(* Properties *)

Told == result.state = "available"
Replaced == since.came /\ since.went
Undisturbed == ~ since.came /\ ~ since.went /\ ~ since.moved

\* A count that is published is one that the list, as it is shown to the credential, really had while
\* it was read, whatever was added, removed or moved between the pages.
CountWasTrue == Told /\ src \in Counted => result.count \in since.sizes

\* Whoever is not shown every row is told no list of panels ("witnessed folder-wide reader coverage is
\* required", library_panels.py:1), and one of dashboards only if others came in place of what is
\* hidden.  The public dashboards and the accounts that such a credential may see are told as if they
\* were all: their endpoints answer 200 with a filtered list (public_dashboards.py:5).
HiddenRowsAreNoticed ==
    Told /\ hidden > 0 => src \in {"public", "accounts"} \/ (src = "dashboards" /\ since.came)

\* A listing that is called available has every row that was shown all the time, unless rows came
\* and others went meanwhile, which no count can show; of policies none must have gone, and the
\* accounts must not have changed places, since nothing asks whether one came twice ("refuse to call
\* a partial response successful", public_dashboards.py:76).
NothingThatStayedIsMissed ==
    Told =>
        \/ since.stayed \subseteq Range(list.seen)
        \/ IF src \in Continued THEN since.went \/ since.moved
           ELSE Replaced \/ (src = "accounts" /\ since.moved)

\* No row is told twice.
NoRowTwice ==
    Told => \/ IsInjective(list.seen)
            \/ src = "accounts" /\ (Replaced \/ since.moved)

\* Networks are the policies of all regions that sign, each counted once.
NetworksAreCounted ==
    Told /\ src = "networks" /\ Undisturbed =>
        result.count = Cardinality({x \in signing : \E p \in Places : x \in Range(rows[p])})

\* A reader that pages through a moving list tells the truth of what it is shown, or nothing, and those
\* with a witness beside the list itself notice what they are not shown.
ListingsAreTrue ==
    TypeOK /\ CountWasTrue /\ HiddenRowsAreNoticed /\ NothingThatStayedIsMissed /\ NoRowTwice /\ NetworksAreCounted
=============================================================================
