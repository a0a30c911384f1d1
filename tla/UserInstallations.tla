-------------------------- MODULE UserInstallations --------------------------
(***************************************************************************)
(* How GOLFS looks for an installation among those a user can access:      *)
(* userCanAccessInstallation and parseNext (internal/forge/github/         *)
(* github.go).  GitHub cuts the list into pages when it is asked for one,  *)
(* and the list changes between the questions: what is on the next page    *)
(* may have moved to one already read, and the other way round.            *)
(*                                                                         *)
(* GitHub is modelled from how github.go uses it: page n holds the n-th    *)
(* PerPage entries, and links to page n + 1 if there are more.             *)
(***************************************************************************)
EXTENDS Integers, SequencesExt

CONSTANTS
  Installation, Target,
  Initial,               \* the lists the user may have at first
  PerPage, MaxPages,     \* 100 and 100
  MaxChanges             \* bound on the changes to the list

ASSUME TargetAssumption == Target \in Installation
ASSUME SizesAssumption ==
  /\ {PerPage, MaxPages} \subseteq Nat \ {0}
  /\ MaxChanges \in Nat

IsList(s) == s \in Seq(Installation) /\ IsInjective(s)

ASSUME InitialAssumption == \A s \in Initial : IsList(s)

VARIABLES
  list,      \* the installations the user can access, in GitHub's order
  page,      \* the page GOLFS asks for, and the round of its loop
  result,    \* "reading", "found", "absent", "unavailable", "failed"
  listed,    \* whether Target was listed at all times, at times, or never
  removals,  \* removals from the list during the read
  longest,   \* the length of the longest list during the read
  changes

vars == <<list, page, result, listed, removals, longest, changes>>

-----------------------------------------------------------------------------
(* GitHub                                                                  *)

Seen(s) == IF Contains(s, Target) THEN "always" ELSE "never"

Becomes(s) ==
  /\ result = "reading"
  /\ changes < MaxChanges
  /\ list' = s
  /\ changes' = changes + 1
  /\ listed' = IF Seen(s) = listed THEN listed ELSE "sometimes"
  /\ longest' = IF Len(s) > longest THEN Len(s) ELSE longest
  /\ UNCHANGED <<page, result>>

Install(i, n) ==
  /\ ~Contains(list, i)
  /\ n \in 1..(Len(list) + 1)
  /\ Becomes(InsertAt(list, n, i))
  /\ UNCHANGED removals

Uninstall(n) ==
  /\ n \in 1..Len(list)
  /\ Becomes(RemoveAt(list, n))
  /\ removals' = removals + 1

OnPage(n) ==
  {list[k] : k \in DOMAIN list \cap (PerPage * (n - 1) + 1)..(PerPage * n)}

\* The header Link: a sequence of links, each with its relation.
Link(n) ==
  LET to(rel, m) == [rel |-> rel, page |-> m]
  IN  (IF n > 1 THEN <<to("prev", n - 1)>> ELSE <<>>)
        \o (IF PerPage * n < Len(list) THEN <<to("next", n + 1)>> ELSE <<>>)
        \o <<to("first", 1)>>

-----------------------------------------------------------------------------
(* GOLFS                                                                   *)

NoPage == 0

parseNext(link) ==
  LET next == {n \in DOMAIN link : link[n].rel = "next"}
  IN  IF next = {} THEN NoPage ELSE link[Min(next)].page

Init ==
  /\ list \in Initial
  /\ page = 1
  /\ result = "reading"
  /\ listed = Seen(list)
  /\ removals = 0
  /\ longest = Len(list)
  /\ changes = 0

\* (mutant) The end of the pages is taken for the end of the list.
LastPageAbsent(next) == IF next = NoPage \/ page = MaxPages THEN "absent" ELSE "reading"

\* (mutant) One round less.
LastPageEarly(next) ==
  IF next = NoPage THEN "absent"
  ELSE IF page + 1 = MaxPages THEN "unavailable" ELSE "reading"

\* (mutant) As many rounds as there are pages.
LastPageNever(next) == IF next = NoPage THEN "absent" ELSE "reading"

\* The target is not on the page.
LastPage(next) ==
  IF next = NoPage THEN "absent"
  ELSE IF page = MaxPages THEN "unavailable" ELSE "reading"

\* One round of the loop.
Read ==
  /\ result = "reading"
  /\ IF Target \in OnPage(page)
       THEN result' = "found" /\ UNCHANGED page
       ELSE LET next == parseNext(Link(page)) IN
            /\ result' = LastPage(next)
            /\ page' = IF result' = "reading" THEN next ELSE page
  /\ UNCHANGED <<list, listed, removals, longest, changes>>

\* A request fails, and the read with it.
Fail ==
  /\ result = "reading"
  /\ result' = "failed"
  /\ UNCHANGED <<list, page, listed, removals, longest, changes>>

Next ==
  \/ \E i \in Installation, n \in 1..(Len(list) + 1) : Install(i, n)
  \/ \E n \in 1..Len(list) : Uninstall(n)
  \/ Read \/ Fail

Spec == Init /\ [][Next]_vars

-----------------------------------------------------------------------------
TypeOK ==
  /\ IsList(list)
  /\ page \in 1..MaxPages
  /\ result \in {"reading", "found", "absent", "unavailable", "failed"}
  /\ listed \in {"always", "sometimes", "never"}
  /\ {removals, longest, changes} \subseteq Nat

(***************************************************************************)
(* However the list moves from page to page while it is read               *)
(* (github.go:209-229): access is found only where there was some during   *)
(* the read; a user is refused for want of access only if the installation *)
(* was not listed all the time, or another was removed meanwhile (one that *)
(* is added before it puts it on a later page, still to come, and never    *)
(* hides it); and the reader gives up only on a list that was longer than  *)
(* all it may read.                                                        *)
(***************************************************************************)
ResultIsTrue ==
  /\ result = "found" => listed # "never"
  /\ result = "absent" => listed # "always" \/ removals > 0
  /\ result = "unavailable" => longest > PerPage * MaxPages
=============================================================================
