----------------------------- MODULE ListingFeed -----------------------------
(***************************************************************************)
(* What the owner sees of the listings: GET /api/listings/today of         *)
(* server.js with cacheService.js behind it, and the listing table of      *)
(* DashboardPage.tsx in front of it.                                       *)
(*                                                                         *)
(* One user and one query (the page's default, min_confidence 0.2) are     *)
(* modelled, so the cache has one entry.  An entry is a copy of the        *)
(* response; writers of the table never touch it.  Redis and the memory    *)
(* used without it count as one store.  That a listing leaves the query    *)
(* four days after it was posted, the non-property filter and paging are   *)
(* left out.                                                               *)
(***************************************************************************)
EXTENDS Listings

CONSTANT Requests   \* fetches of the page that may be under way together

VARIABLES
  entry,    \* the cached response; Missing: none, or expired
  request,  \* how far each fetch is, and the rows it holds
  shown     \* the listings the page shows

feed == <<entry, request, shown>>
feedVars == <<vars, feed>>

MinConfidence == 20

(* The default of min_confidence is lost on the way to the query. *)
VisibleUngated == {m \in Messages : Exists(m)}

Visible == {m \in Messages : Exists(m) /\ row[m].listing.conf >= MinConfidence}

NoRows  == [ at |-> "idle", rows |-> {} ]
Missing == [ held |-> FALSE, rows |-> {} ]

FeedInit ==
  /\ Init
  /\ entry = Missing
  /\ request = [q \in Requests |-> NoRows]
  /\ shown = {}

At(q, place, rows) == request' = [request EXCEPT ![q] = [at |-> place, rows |-> rows]]

(* cacheService.get and set *)
CacheGet(q) == IF entry.held THEN At(q, "respond", entry.rows) ELSE At(q, "query", {})
CacheSet(rows) == entry' = [held |-> TRUE, rows |-> rows]

(***************************************************************************)
(* fetchListings: on mount, when a filter or a toggle changes, on REFRESH  *)
(* and when a refetch is done, whether or not another fetch is under way.  *)
(* The handler first looks into the cache.                                 *)
(***************************************************************************)
Fetch(q) ==
  /\ request[q].at = "idle"
  /\ CacheGet(q)
  /\ UNCHANGED <<vars, entry, shown>>

(* The SELECT: the rows at or above the confidence asked for. *)
Query(q) ==
  /\ request[q].at = "query"
  /\ At(q, "store", Visible)
  /\ UNCHANGED <<vars, entry, shown>>

(* The user's id cannot be read: an empty answer, which is not cached. *)
UserUnknown(q) ==
  /\ request[q].at = "query"
  /\ At(q, "respond", {})
  /\ UNCHANGED <<vars, entry, shown>>

(* The answer is cached, with what was read before. *)
Store(q) ==
  /\ request[q].at = "store"
  /\ CacheSet(request[q].rows)
  /\ At(q, "respond", request[q].rows)
  /\ UNCHANGED <<vars, shown>>

(* The response reaches the page; responses may overtake one another. *)
Respond(q) ==
  /\ request[q].at = "respond"
  /\ shown' = request[q].rows
  /\ At(q, "idle", {})
  /\ UNCHANGED <<vars, entry>>

(***************************************************************************)
(* A cache or database call throws (500), or the network fails: the page   *)
(* keeps what it shows.                                                    *)
(***************************************************************************)
FetchFails(q) ==
  /\ request[q].at # "idle"
  /\ At(q, "idle", {})
  /\ UNCHANGED <<vars, entry, shown>>

(* The entry's time to live is over, or Redis lost it. *)
Expire ==
  /\ entry.held
  /\ entry' = Missing
  /\ UNCHANGED <<vars, request, shown>>

FeedNext ==
  \/ Next /\ UNCHANGED feed
  \/ \E q \in Requests :
       \/ Fetch(q) \/ Query(q) \/ UserUnknown(q)
       \/ Store(q) \/ Respond(q) \/ FetchFails(q)
  \/ Expire

(***************************************************************************)
(* A handler that has started ends, its response arrives or fails, and     *)
(* time to live passes.  Nothing makes the user fetch again.               *)
(***************************************************************************)
FeedSpec ==
  /\ FeedInit
  /\ [][FeedNext]_feedVars
  /\ WF_feedVars(Expire)
  /\ \A q \in Requests :
       WF_feedVars(Query(q) \/ UserUnknown(q) \/ Store(q) \/ Respond(q) \/ FetchFails(q))

-----------------------------------------------------------------------------
(* Properties *)

FeedTypeOK ==
  /\ TypeOK
  /\ entry \in [held : BOOLEAN, rows : SUBSET Messages]
  /\ request \in [Requests -> [at : {"idle", "query", "store", "respond"},
                               rows : SUBSET Messages]]
  /\ shown \subseteq Messages

(***************************************************************************)
(* A listing that is in quarantine for good, because it was flagged or     *)
(* found implausible, leaves the page for good if the page keeps getting   *)
(* responses, though no writer invalidates the cache (nothing calls        *)
(* invalidateListings) and a fetch may store what it read before the flag. *)
(***************************************************************************)
Quarantined(m) == row[m].listing.reason # None
Answered == \E q \in Requests : Respond(q)

HiddenLeavesFeed ==
  \A m \in Messages :
    (<>[]Quarantined(m) /\ []<><<Answered>>_feedVars) => <>[](m \notin shown)
=============================================================================
