--------------------------- MODULE RepositoryAccess ---------------------------
(***************************************************************************)
(* Which repositories a user may link (apps/worker/src/github/client.ts):  *)
(* verifyUserRepositoryAuthorization and listUserAuthorizedRepositories    *)
(* read the user's installations of the app and the repositories of an     *)
(* installation page by page, while on GitHub installations are made,      *)
(* suspended and removed and repositories are given and taken.             *)
(*                                                                         *)
(* Abstractions.  One call: calls share nothing.  GitHub, which is external*)
(* here, lists in the order things were added, counts what it lists, and   *)
(* refuses to list the repositories of an installation that is suspended   *)
(* or not there (401, 403 and 404 are one answer to the code).             *)
(***************************************************************************)
EXTENDS Naturals, Sequences, FiniteSets, SequencesExt

CONSTANTS
  Installations, Repositories,
  PageSize, MaxPages,   \* pageSize and maxPages of the client's options
  MaxChanges,           \* bound: what changes on GitHub
  None

RepositoryAccessAssumption ==
  {PageSize, MaxPages} \subseteq Nat \ {0} /\ MaxChanges \in Nat

VARIABLES
  installations,  \* the user's installations, in their order
  suspended,
  repositories,   \* of each installation those the user has access to
  changes,
  call            \* the call; held, undisturbed: what was so while it ran

vars == <<installations, suspended, repositories, changes, call>>

Usable(i) == i \in ToSet(installations) \ suspended

Access == {a \in Installations \X Repositories :
             Usable(a[1]) /\ a[2] \in ToSet(repositories[a[1]])}

NoCall == [step |-> "idle"]

(* Some of the set, in an order.                                           *)
Lists(S) == {s \in UNION {[1..n -> S] : n \in 0..Cardinality(S)} : IsInjective(s)}

Init ==
  /\ installations \in Lists(Installations)
  /\ suspended \in SUBSET ToSet(installations)
  /\ repositories \in [Installations -> Lists(Repositories)]
  /\ changes = 0
  /\ call = NoCall

-----------------------------------------------------------------------------
Toggled(list, x) ==
  IF x \in ToSet(list)
  THEN RemoveAt(list, CHOOSE k \in DOMAIN list : list[k] = x)
  ELSE Append(list, x)

(* Something comes or goes on GitHub; before the call and after it that    *)
(* makes no difference.                                                    *)
Change ==
  /\ call.step \in {"installations", "repositories"}
  /\ changes < MaxChanges
  /\ changes' = changes + 1
  /\ \E i \in Installations, r \in Repositories :
       \/ /\ installations' = Toggled(installations, i)
          /\ UNCHANGED <<suspended, repositories>>
       \/ /\ suspended' = (suspended \ {i}) \union ({i} \ suspended)
          /\ UNCHANGED <<installations, repositories>>
       \/ /\ repositories' = [repositories EXCEPT ![i] = Toggled(@, r)]
          /\ UNCHANGED <<installations, suspended>>
  /\ call' = [call EXCEPT !.held = @ \union Access', !.undisturbed = FALSE]

-----------------------------------------------------------------------------
FirstPage == [page |-> 1, total |-> None, found |-> {}]

(* A user links a repository, with the ids asked for, or lists them all.   *)
Begin ==
  /\ call.step = "idle"
  /\ \E asked \in {None} \union (Installations \X Repositories) :
       call' = [step |-> "installations", asked |-> asked, listing |-> FirstPage,
                todo |-> {}, at |-> None, result |-> {}, answer |-> None,
                held |-> Access, undisturbed |-> TRUE]
  /\ UNCHANGED <<installations, suspended, repositories, changes>>

LastPageEarly(page, total) == page * PageSize + 1 >= total

(* The total says that nothing comes after the page.                       *)
LastPage(page, total) == page * PageSize >= total

(* What the page of a list shows.                                          *)
PageOf(list, page) ==
  {list[k] : k \in DOMAIN list \intersect ((page - 1) * PageSize + 1 .. page * PageSize)}

(* What is to be done after a page: the total stays that of the first one, *)
(* a page before the last is not empty, and there are not too many.        *)
AfterPage(listing, list) ==
  IF listing.total \notin {None, Len(list)} THEN "invalid_response"
  ELSE IF LastPage(listing.page, Len(list)) THEN "complete"
  ELSE IF PageOf(list, listing.page) = {} THEN "invalid_response"
  ELSE IF listing.page = MaxPages THEN "pagination_limit_exceeded"
  ELSE "more"

(* The listing with the page; what is unwanted is counted and left out.    *)
WithPage(listing, list, unwanted) ==
  [page |-> listing.page + 1, total |-> Len(list),
   found |-> listing.found \union (PageOf(list, listing.page) \ unwanted)]

Answer(answer) == call' = [call EXCEPT !.step = "answered", !.answer = answer]

(* The next installation whose repositories are listed.  The code takes    *)
(* them in their order, which makes no difference to what it finds.        *)
ListNext(todo, result) ==
  IF todo = {}
  THEN call' = [call EXCEPT !.step = "answered", !.answer = "listed", !.result = result]
  ELSE \E i \in todo :
         call' = [call EXCEPT !.step = "repositories", !.listing = FirstPage, !.at = i,
                              !.todo = todo \ {i}, !.result = result]

(* #listUserInstallations, one page; after the last one, what is listed    *)
(* next: the installation asked for, or all that are not suspended.        *)
ListInstallations ==
  LET after == AfterPage(call.listing, installations)
      next  == WithPage(call.listing, installations, suspended)
  IN /\ call.step = "installations"
     /\ CASE after = "more" -> call' = [call EXCEPT !.listing = next]
          [] after = "complete" ->
               IF call.asked = None THEN ListNext(next.found, {})
               ELSE IF call.asked[1] \in next.found THEN ListNext({call.asked[1]}, {})
               ELSE Answer("installation_not_authorized")
          [] OTHER -> Answer(after)
     /\ UNCHANGED <<installations, suspended, repositories, changes>>

(* #listIntersectionRepositories, one page; after the last one the answer  *)
(* of verifyUserRepositoryAuthorization, or the next installation.         *)
ListRepositories ==
  LET list  == repositories[call.at]
      after == AfterPage(call.listing, list)
      next  == WithPage(call.listing, list, {})
  IN /\ call.step = "repositories"
     /\ IF ~Usable(call.at) THEN Answer("installation_not_authorized")
        ELSE CASE after = "more" -> call' = [call EXCEPT !.listing = next]
               [] after = "complete" ->
                    IF call.asked = None
                    THEN ListNext(call.todo, call.result \union ({call.at} \X next.found))
                    ELSE Answer(IF call.asked[2] \in next.found THEN "authorized"
                                ELSE "repository_not_authorized")
               [] OTHER -> Answer(after)
     /\ UNCHANGED <<installations, suspended, repositories, changes>>

(* #userJson: GitHub cannot be reached, or answers with another failure.   *)
Unavailable ==
  /\ call.step \in {"installations", "repositories"}
  /\ Answer("github_unavailable")
  /\ UNCHANGED <<installations, suspended, repositories, changes>>

Next == Change \/ Begin \/ ListInstallations \/ ListRepositories \/ Unavailable

Spec == Init /\ [][Next]_vars

-----------------------------------------------------------------------------
(* Every variable has its type.                                            *)
TypeOK ==
  /\ IsInjective(installations) /\ ToSet(installations) \subseteq Installations
  /\ \A i \in Installations : IsInjective(repositories[i])
  /\ changes \in 0..MaxChanges
  /\ call.step \in {"installations", "repositories"} => call.listing.page \in 1..MaxPages

(* What is said to be authorized was accessible to the user at a moment of *)
(* the call, through the installation asked for; and when nothing changed  *)
(* on GitHub meanwhile, the answer is that and no other, however many      *)
(* pages it took, unless they are too many or GitHub failed                *)
(* (verifyUserRepositoryAuthorization, listUserAuthorizedRepositories).    *)
AuthorizedIsAccessible ==
  call.step = "answered" =>
    /\ call.answer = "authorized" => call.asked \in call.held
    /\ call.answer = "listed" => call.result \subseteq call.held
    /\ call.undisturbed =>
         /\ call.answer = "listed" => call.result = call.held
         /\ call.answer # "invalid_response"
         /\ call.answer \in {"installation_not_authorized", "repository_not_authorized"}
              => call.asked \notin call.held
=============================================================================
