------------------------------ MODULE LiveFeed -------------------------------
(***************************************************************************)
(* The live traffic feed of the dashboard (LiveTrafficFeed.svelte) in one  *)
(* browser: pages of the events table, asked for and answered in any       *)
(* order, and the event stream, merged into one list, newest first, while  *)
(* the user scrolls and changes the filter and the stream breaks and comes *)
(* back.  The server's side is EventLog, which EventService implements.    *)
(***************************************************************************)
EXTENDS EventLog, FiniteSets, SequencesExt

CONSTANTS
  Browser,     \* the stream of this browser
  Blocked,     \* the events whose action is block; that of the others is allow
  PageSize,    \* events in a page (50)
  Lag,         \* bound: events by which the stream may lag behind the table
  MaxAsked,    \* bound: pages asked for in a behaviour
  MaxFilters,  \* bound: changes of the filter
  MaxLosses,   \* bound: times the stream breaks
  MaxFails     \* bound: events not saved, pages that fail or are cut short

ASSUME FeedAssumption ==
  /\ Browser \in Streams /\ Blocked \subseteq Numbers
  /\ PageSize \in Nat \ {0} /\ Lag \in Nat \ {0}
  /\ {MaxAsked, MaxFilters, MaxLosses, MaxFails} \subseteq Nat

VARIABLES
  events, eventFilter, hasMore, loadingMore, oldest,  \* the component's state
  requests,    \* the pages asked for, with their answer once the server read it
  read,        \* how many of the events sent the browser has received
  lost,        \* history: ids that the browser had or missed for good
  stale,       \* history: an answer to the last filter is in this one's feed
  overtaken,   \* history: ids on their way when the first page left them out
  asked, filters, losses, fails  \* what the bounds count

pageVars == <<events, eventFilter, hasMore, loadingMore, oldest>>
countVars == <<asked, filters, losses, fails>>
feedVars == <<logVars, pageVars, requests, read, lost, stale, overtaken,
              countVars>>

(* Events logged that the stream has still to bring.                       *)
Unread == IF Browser \in open THEN Len(sent[Browser]) - read ELSE 0
Behind == IF Browser \in open THEN Unread + Len(log) - next[Browser] + 1 ELSE 0

Matches(e, filter) ==
  filter = "all" \/ filter = (IF e.n \in Blocked THEN "block" ELSE "allow")

-----------------------------------------------------------------------------
(* ORDER BY id DESC.                                                       *)
NewestFirst(found) ==
  CHOOSE list \in [1..Cardinality(found) -> found] :
    \A i, j \in DOMAIN list : i < j => list[i].id > list[j].id

(* The rows of a filter, below an id if one is given.                      *)
Wanted(before, filter) ==
  {e \in rows : (before > 0 => e.id < before) /\ Matches(e, filter)}

(* GetEvents: the newest of them, as many as a page has.                   *)
GetEvents(before, filter) ==
  LET newest == NewestFirst(Wanted(before, filter))
  IN  SubSeq(newest, 1, IF PageSize < Len(newest) THEN PageSize ELSE Len(newest))

AskFor(kind, before, filter) ==
  /\ requests' = Append(requests, [kind |-> kind, before |-> before,
                                   filter |-> filter, era |-> filters',
                                   page |-> <<>>, at |-> "asked"])
  /\ asked' = asked + 1

(* onMount: the first page is asked for; the stream is connected next.     *)
FeedInit ==
  /\ Init
  /\ events = <<>> /\ eventFilter = "all" /\ hasMore = TRUE
  /\ loadingMore = FALSE /\ oldest = 0
  /\ requests = <<[kind |-> "first", before |-> 0, filter |-> "all",
                   era |-> 0, page |-> <<>>, at |-> "asked"]>>
  /\ read = 0 /\ lost = {} /\ stale = FALSE /\ overtaken = {}
  /\ asked = 1 /\ filters = 0 /\ losses = 0 /\ fails = 0

(* setFilter                                                               *)
SetFilter(filter) ==
  /\ filter # eventFilter /\ eventFilter' = filter
  /\ filters < MaxFilters /\ filters' = filters + 1
  /\ events' = <<>> /\ hasMore' = TRUE /\ oldest' = 0
  /\ AskFor("first", 0, filter)
  /\ lost' = {} /\ stale' = FALSE /\ overtaken' = {}
  /\ UNCHANGED <<logVars, loadingMore, read, losses, fails>>

(* loadMoreEvents, up to the call                                          *)
LoadMore ==
  /\ ~loadingMore /\ hasMore /\ oldest # 0
  /\ asked < MaxAsked /\ UNCHANGED filters
  /\ AskFor("more", oldest, eventFilter)
  /\ loadingMore' = TRUE
  /\ UNCHANGED <<logVars, events, eventFilter, hasMore, oldest, read, lost, stale,
                 overtaken, losses, fails>>

(* Asked for before the filter was changed.                                *)
Stale(i) == requests[i].era # filters

IdsIn(list) == {list[j].id : j \in DOMAIN list} \ {0}

Found(i) == GetEvents(requests[i].before, requests[i].filter)

(* A first page has all that was missed before, and the pages below it go  *)
(* on from there.                                                          *)
Renews(i) == requests[i].kind = "first" /\ ~Stale(i)

Missed(i) == IF Renews(i) THEN {} ELSE lost

(* On its way to the browser: saved, logged, or written to the stream.     *)
OnItsWay(e) ==
  \/ e = saved
  \/ Browser \in open /\ \E i \in next[Browser]..Len(log) : log[i] = e
  \/ \E i \in read+1..Len(sent[Browser]) : Browser \in open /\ sent[Browser][i] = e

(* The events still on their way that a page ends above.                   *)
Overtaken(page) ==
  {e.id : e \in {d \in Wanted(0, eventFilter) :
                    OnItsWay(d) /\ page # <<>> /\ d.id < Last(page).id}}

Answer(i, page) ==
  /\ requests[i].at = "asked"
  /\ requests' = [requests EXCEPT ![i].at = "read", ![i].page = page]
  /\ overtaken' = overtaken \cup (IF Renews(i) THEN Overtaken(page) ELSE {})
  /\ UNCHANGED <<logVars, pageVars, read, stale, asked, filters, losses>>

(* The server reads the page; the answer is on its way.                    *)
ReadPage(i) == Answer(i, Found(i)) /\ lost' = Missed(i) /\ UNCHANGED fails

(* A read that fails among the rows goes unnoticed: the page is short, so  *)
(* that the feed takes it for the last one.                                *)
ReadPart(i) ==
  /\ fails < MaxFails /\ fails' = fails + 1
  /\ \E count \in 0..Len(Found(i)) - 1 :
       LET last == IF count > 0 THEN Found(i)[count].id ELSE requests[i].before
           cut == {e \in rows : last > 0 => e.id < last}
       IN  /\ Answer(i, SubSeq(Found(i), 1, count))
           /\ lost' = Missed(i) \cup {e.id : e \in cut}

(* Mutant of ArriveFirst: a full page is taken for the last one.           *)
ArriveLast(i) ==
  LET page == requests[i].page
  IN  /\ requests[i].kind = "first" /\ requests[i].at = "read"
      /\ events' = page
      /\ hasMore' = (hasMore /\ Len(page) > PageSize)
      /\ oldest' = IF page = <<>> THEN 0 ELSE Last(page).id
      /\ lost' = lost \cup {id \in IdsIn(events) : page = <<>> \/ id > page[1].id}
      /\ stale' = (stale \/ Stale(i))
      /\ requests' = RemoveAt(requests, i)
      /\ UNCHANGED <<logVars, eventFilter, loadingMore, read, overtaken, countVars>>

(* fetchInitialEvents, from the answer on: the page takes the place of     *)
(* whatever the feed shows, what the stream brought in the meantime        *)
(* included.                                                               *)
ArriveFirst(i) ==
  LET page == requests[i].page
  IN  /\ requests[i].kind = "first" /\ requests[i].at = "read"
      /\ events' = page
      /\ hasMore' = (hasMore /\ Len(page) >= PageSize)
      /\ oldest' = IF page = <<>> THEN 0 ELSE Last(page).id
      /\ lost' = lost \cup {id \in IdsIn(events) : page = <<>> \/ id > page[1].id}
      /\ stale' = (stale \/ Stale(i))
      /\ requests' = RemoveAt(requests, i)
      /\ UNCHANGED <<logVars, eventFilter, loadingMore, read, overtaken, countVars>>

(* loadMoreEvents, from the answer on.  Neither looks whether the filter   *)
(* is still the one that it asked with.                                    *)
ArriveMore(i) ==
  LET page == requests[i].page
  IN  /\ requests[i].kind = "more" /\ requests[i].at = "read"
      /\ events' = events \o page
      /\ hasMore' = (hasMore /\ Len(page) >= PageSize)
      /\ oldest' = IF page = <<>> THEN oldest ELSE Last(page).id
      /\ loadingMore' = FALSE
      /\ stale' = (stale \/ Stale(i))
      /\ requests' = RemoveAt(requests, i)
      /\ UNCHANGED <<logVars, eventFilter, read, lost, overtaken, countVars>>

(* A page that does not arrive changes nothing but the flags.              *)
NoPage(i) ==
  /\ fails < MaxFails /\ fails' = fails + 1
  /\ loadingMore' = (loadingMore /\ requests[i].kind = "first")
  /\ requests' = RemoveAt(requests, i)
  /\ UNCHANGED <<logVars, events, eventFilter, hasMore, oldest, read, lost, stale,
                 overtaken, asked, filters, losses>>

-----------------------------------------------------------------------------
(* Mutant of Receive: it does not look for the event among those shown.    *)
ReceiveAlways ==
  /\ Browser \in open /\ Unread > 0 /\ read' = read + 1
  /\ LET event == sent[Browser][read + 1]
     IN  /\ events' = <<event>> \o events
  /\ UNCHANGED <<logVars, eventFilter, hasMore, loadingMore, oldest, requests, lost,
                 stale, overtaken, countVars>>

(* onmessage: an event whose id the feed has is dropped; every event that  *)
(* could not be saved has the id 0.                                        *)
Receive ==
  /\ Browser \in open /\ Unread > 0 /\ read' = read + 1
  /\ LET event == sent[Browser][read + 1]
         known == \E i \in DOMAIN events : events[i].id = event.id
     IN  /\ events' = IF known THEN events ELSE <<event>> \o events
  /\ UNCHANGED <<logVars, eventFilter, hasMore, loadingMore, oldest, requests, lost,
                 stale, overtaken, countVars>>

(* Mutant of Connect: it goes on from where the last stream ended.         *)
ConnectWhereItEnded ==
  /\ Open(Browser)
  /\ UNCHANGED <<pageVars, requests, read, lost, stale, overtaken, countVars>>

(* connectSSE: at the start and 5 s after an error.  What was published    *)
(* meanwhile is not asked for.                                             *)
Connect ==
  /\ Open(Browser) /\ read' = 0
  /\ UNCHANGED <<pageVars, requests, lost, stale, overtaken, countVars>>

(* The stream breaks: the server's write timeout, its end, or the network. *)
Lose ==
  /\ losses < MaxLosses /\ losses' = losses + 1
  /\ lost' = lost \cup IdsIn(SubSeq(sent[Browser], read + 1, Len(sent[Browser])))
                  \cup IdsIn(SubSeq(log, next[Browser], Len(log)))
  /\ Close(Browser) /\ UNCHANGED read
  /\ UNCHANGED <<pageVars, requests, stale, overtaken, asked, filters, fails>>

-----------------------------------------------------------------------------
(* The server's side.  Events are saved in the order of their numbers.     *)
InTurn(n) == \A m \in Numbers : m < n => ~Fresh(m)

Publish(n) ==
  /\ InTurn(n) /\ Behind < Lag
  /\ \/ Save(n) /\ UNCHANGED <<lost, fails>>
     \/ /\ fails < MaxFails /\ fails' = fails + 1
        /\ \/ NotSaved(n) /\ UNCHANGED lost
           \/ SaveUnseen(n) /\ lost' = lost \cup {lastId + 1}
  /\ UNCHANGED <<pageVars, requests, read, stale, overtaken, asked, filters, losses>>

LogIt ==
  /\ Log
  /\ lost' = IF Browser \in open THEN lost ELSE lost \cup ({saved.id} \ {0})
  /\ UNCHANGED <<pageVars, requests, read, stale, overtaken, countVars>>

Stream ==
  /\ \/ Send(Browser) /\ UNCHANGED lost
     \/ Skip(Browser) /\ lost' = lost \cup ({log[next[Browser]].id} \ {0})
  /\ UNCHANGED <<pageVars, requests, read, stale, overtaken, countVars>>

FeedNext ==
  \/ \E filter \in {"all", "allow", "block"} : SetFilter(filter)
  \/ LoadMore
  \/ \E i \in DOMAIN requests :
       \/ ReadPage(i) \/ ReadPart(i)
       \/ ArriveFirst(i) \/ ArriveMore(i) \/ NoPage(i)
  \/ Receive \/ Connect \/ Lose
  \/ \E n \in Numbers : Publish(n)
  \/ LogIt \/ Stream

FeedSpec == FeedInit /\ [][FeedNext]_feedVars

-----------------------------------------------------------------------------
FeedTypeOK ==
  /\ eventFilter \in {"all", "allow", "block"}
  /\ hasMore \in BOOLEAN /\ loadingMore \in BOOLEAN
  /\ oldest \in 0..lastId /\ lost \subseteq 1..lastId /\ overtaken \subseteq 1..lastId
  /\ stale \in BOOLEAN
  /\ read \in Nat /\ Unread \in Nat

(* A place of an event that the filter shows, and that has an id.          *)
Displayed(i) ==
  i \in DOMAIN events /\ events[i].id # 0 /\ Matches(events[i], eventFilter)

(* Pages and stream, which overlap and arrive in any order, merge into one *)
(* list of falling ids, each once.  Two things break it: an answer to the  *)
(* last filter that comes after the change of filter and is merged all the *)
(* same; and an event that was still on its way when the first page, full  *)
(* of newer ones or cut short above it, was read, which goes to the top    *)
(* when it arrives and is loaded again from below.                         *)
FeedInOrder ==
  ~stale =>
    \A i, j \in DOMAIN events :
      i < j /\ Displayed(i) /\ Displayed(j) /\ events[i].id \notin overtaken =>
        events[i].id > events[j].id

(* Once its first page is there, an event of the filter that can be        *)
(* fetched is in the feed, or on its way there by the stream, or below the *)
(* point from which scrolling loads more.  The exceptions, all of them:    *)
(* the stream had skipped it, was not connected or brought it without its  *)
(* id; the first page took its place; its page was cut short; or an answer *)
(* to the last filter came after the change of filter, which moves the     *)
(* point from which more is loaded, or ends the loading for good.  Nothing *)
(* else makes a gap: no page boundary, no event that comes by both ways,   *)
(* in whatever order, no page that fails as a whole.                       *)
Loaded == oldest # 0 \/ ~hasMore

NothingElseLost ==
  Loaded /\ ~stale =>
    \A e \in rows :
      Matches(e, eventFilter) =>
        \/ e.id \in IdsIn(events) \cup lost
        \/ OnItsWay(e)
        \/ hasMore /\ e.id < oldest
=============================================================================
