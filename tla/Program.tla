------------------------------- MODULE Program --------------------------------
(***************************************************************************)
(* The program with the database tab of one dashboard (DatabaseTab.svelte) *)
(* over it: pages of the table, filtered and counted, which the server     *)
(* reads in two statements and which arrive in any order.  The text of the *)
(* search stands as the set of clients it matches, Clients when it is      *)
(* empty; the rows of a page are only counted, so their order is left out. *)
(***************************************************************************)
EXTENDS Handlers

CONSTANTS
  Searches, \* the texts that are searched for
  Limit,    \* rows of a page (25 in the tab, at most 500 for the server)
  MaxAsked  \* bound: pages asked for in a behaviour

ASSUME ProgramAssumption ==
  Searches \subseteq SUBSET Clients /\ Limit \in Nat \ {0} /\ MaxAsked \in Nat

VARIABLES
  dbSearch, dbStatus, dbOffset,  \* the controls: what they say now
  dbPage,    \* the page shown: what it answers, its total and its rows
  dbError, dbLoading,  \* an error is shown; the answer is waited for
  requests,  \* pages asked for, with what the server has read so far
  together,  \* history: what was asked for since nothing was under way
  typed,     \* history: the search was typed in since the last load
  asked      \* what the bound counts

controls == <<dbSearch, dbStatus, dbOffset>>
tabVars == <<controls, dbPage, dbError, dbLoading, requests, together, typed, asked>>
programVars == <<handlerVars, tabVars>>

Statuses == {"", "threat", "safe"}
NoPage == [search |-> Clients, status |-> "", offset |-> 0, total |-> 0, size |-> 0,
           moved |-> FALSE, at |-> "asked"]
Failed == [NoPage EXCEPT !.at = "failed"]
Query(page) == <<page.search, page.status, page.offset>>

ProgramInit ==
  /\ HandlersInit
  /\ dbSearch = Clients /\ dbStatus = "" /\ dbOffset = 0
  /\ dbPage = NoPage /\ dbError = FALSE /\ dbLoading = FALSE
  /\ requests = <<>> /\ together = {Query(NoPage)} /\ typed = FALSE /\ asked = 0

-----------------------------------------------------------------------------
(* The search is bound to what is typed: no page is asked for by that.     *)
TypeSearch(text) ==
  /\ Serving /\ text # dbSearch /\ dbSearch' = text /\ typed' = TRUE
  /\ UNCHANGED <<handlerVars, dbStatus, dbOffset, dbPage, dbError, dbLoading, requests,
                 together, asked>>

(* loadRecords, up to the call, by what the controls say.  The browser     *)
(* rests while the program is down: what it asks for then fails, as what   *)
(* the end interrupts does.                                                *)
LoadRecords(search, st, offset) ==
  /\ Serving /\ asked < MaxAsked /\ asked' = asked + 1
  /\ dbSearch' = search /\ dbStatus' = st /\ dbOffset' = offset
  /\ dbLoading' = TRUE /\ typed' = FALSE
  /\ LET page == [NoPage EXCEPT !.search = search, !.status = st, !.offset = offset]
     IN  /\ requests' = Append(requests, page)
         /\ together' = (IF requests = <<>> THEN {} ELSE together) \cup {Query(page)}
  /\ UNCHANGED <<handlerVars, dbPage, dbError>>

(* onMount, the search submitted, another order: the first page.           *)
handleDbSearch == LoadRecords(dbSearch, dbStatus, 0)
Clear == dbSearch # Clients /\ LoadRecords(Clients, dbStatus, 0)

handleDbStatusChange(st) == st # dbStatus /\ LoadRecords(dbSearch, st, 0)

(* The buttons are there while the tab shows rows, and go by their total;  *)
(* the offset may come from a page of another search than the one typed.   *)
Buttons ==
  {o \in {dbOffset + Limit} : o < dbPage.total}
    \cup {o \in {dbOffset - Limit} : dbOffset > 0}
handleDbPageChange ==
  /\ ~dbError /\ dbPage.size > 0
  /\ \E offset \in Buttons : LoadRecords(dbSearch, dbStatus, offset)

(* The same place once more.                                               *)
Refresh == ~dbLoading /\ LoadRecords(dbSearch, dbStatus, dbOffset)

-----------------------------------------------------------------------------
(* GET /api/v1/db/records: ListRecords counts the rows that match, then    *)
(* reads a page of them.                                                   *)
Reads(i, from, answer) ==
  /\ Serving /\ requests[i].at = from
  /\ requests' = [requests EXCEPT ![i] = answer]
  /\ UNCHANGED <<tableVars, status, phase, settings, schemaVars, readVars, starts,
                 controls, dbPage, dbError, dbLoading, together, typed, asked>>

(* Mutant of CountListed: it counts every row, whatever its status.        *)
CountsAll(i) ==
  \/ NoFault /\ Reads(i, "asked", [requests[i] EXCEPT !.at = "counted",
                           !.total = Cardinality(Matching(requests[i].search, ""))])
  \/ Fault /\ Reads(i, "asked", Failed)

CountListed(i) ==
  \/ NoFault /\ Reads(i, "asked", [requests[i] EXCEPT !.at = "counted",
                           !.total = Cardinality(Matching(requests[i].search, requests[i].status))])
  \/ Fault /\ Reads(i, "asked", Failed)

PageSize(found, offset) ==
  IF found <= offset THEN 0 ELSE IF found - offset < Limit THEN found - offset ELSE Limit

ReadListed(i) ==
  \/ NoFault /\ Reads(i, "counted", [requests[i] EXCEPT !.at = "answered",
                 !.size = PageSize(Cardinality(Matching(requests[i].search, requests[i].status)),
                                   requests[i].offset)])
  \/ Fault /\ Reads(i, "counted", Failed)

(* Mutant of Arrive: a failure is not shown.                               *)
ArrivesSilently(i) ==
  /\ Serving /\ requests[i].at \in {"answered", "failed"}
  /\ requests' = RemoveAt(requests, i) /\ dbLoading' = FALSE
  /\ dbPage' = IF requests[i].at = "failed" THEN dbPage ELSE requests[i]
  /\ UNCHANGED <<handlerVars, controls, dbError, together, typed, asked>>

(* loadRecords, from the answer on: the last to arrive is shown, whatever  *)
(* the controls say by then.                                               *)
Arrive(i) ==
  /\ Serving /\ requests[i].at \in {"answered", "failed"}
  /\ requests' = RemoveAt(requests, i) /\ dbLoading' = FALSE
  /\ dbError' = (requests[i].at = "failed")
  /\ dbPage' = IF dbError' THEN dbPage ELSE requests[i]
  /\ UNCHANGED <<handlerVars, controls, together, typed, asked>>

(* A step of the process; one that changes the table moves it under the    *)
(* pages that have been counted, one that ends it fails those not read.    *)
Beside(step) ==
  /\ step
  /\ requests' =
       [i \in DOMAIN requests |->
          CASE phase' # "serve" /\ requests[i].at # "answered" -> Failed
            [] requests[i].at = "counted" /\ rows' # rows ->
                 [requests[i] EXCEPT !.moved = TRUE]
            [] OTHER -> requests[i]]
  /\ UNCHANGED <<controls, dbPage, dbError, dbLoading, together, typed, asked>>

Browse ==
  \/ \E text \in Searches : TypeSearch(text)
  \/ \E st \in Statuses : handleDbStatusChange(st)
  \/ handleDbSearch \/ Clear \/ handleDbPageChange \/ Refresh
  \/ \E i \in DOMAIN requests :
       CountListed(i) \/ ReadListed(i) \/ Arrive(i)

ProgramNext == Beside(HandlersNext) \/ Browse

(* The dashboard asks for the status every 5 s; statements end; the        *)
(* supervisor starts what has ended.                                       *)
ProgramSpec ==
  /\ ProgramInit /\ [][ProgramNext]_programVars
  /\ WF_programVars(Beside(Starting))
  /\ WF_programVars(Beside(StatusStep)) /\ WF_programVars(Beside(Tick))

-----------------------------------------------------------------------------
(* The total and the page are of one table: unless a row was written       *)
(* between the two statements, the tab shows a full page, or what is left  *)
(* of the total at its place.                                              *)
PageFitsTotal ==
  ~dbPage.moved => dbPage.size = PageSize(dbPage.total, dbPage.offset)

(* Once nothing is under way, the tab shows a page that was asked for      *)
(* since the last time nothing was, never an older one, or an error,       *)
(* through failures and restarts: and if only one such page was asked for, *)
(* it is the page that the controls name, but for a search that was typed  *)
(* and not submitted.  Of several, the last to arrive is shown, which need *)
(* not be the one that the controls name.                                  *)
TabShowsItsPage ==
  requests = <<>> /\ ~dbError =>
    /\ Query(dbPage) \in together
    /\ together = {Query(dbPage)} =>
         /\ dbPage.status = dbStatus /\ dbPage.offset = dbOffset
         /\ typed \/ dbPage.search = dbSearch
=============================================================================
