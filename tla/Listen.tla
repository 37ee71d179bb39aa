-------------------------------- MODULE Listen --------------------------------
(***************************************************************************)
(* Taking connections from peers: serve_peers, serve_one and PeerCache of  *)
(* zyris-capkit/src/transfer/listen.rs, with accept_next and establish of  *)
(* zyris-p2p/src/peer.rs.                                                  *)
(*                                                                         *)
(* One peer connects, several times at once; the account lists it or not,  *)
(* and that may change at any time.  Times are ages, counted up to the     *)
(* largest one a decision looks at.                                        *)
(***************************************************************************)
EXTENDS Naturals

CONSTANTS Tasks,        \* connections that may be served at once
          Ttl,          \* DEFAULT_DIRECTORY_TTL
          Refresh,      \* DEFAULT_REFRESH_INTERVAL
          MaxFetch      \* bound on how long the rendezvous takes to answer

ASSUME RefreshAssumption == Refresh <= Ttl

VARIABLES
    lsTask,       \* [Tasks -> where serve_one is]
    lsLock,       \* the directory mutex is held, across a fetch
    lsListed,     \* the peer is in by_endpoint
    lsFetched,    \* age of the list, Ttl for old or none
    lsAttempted,  \* age of the last attempt, Refresh for old or none
    lsFetching,   \* "no", "asked", "listed", "absent": what the rendezvous has answered
    lsReceiver,   \* connections whose receiver has its peer handle
    lsEnrolled,   \* the account has the peer
    lsSince,      \* age of the last change of that
    lsFailed,     \* history: the last attempt failed
    lsTook        \* age of the attempt under way

lsVars == <<lsTask, lsLock, lsListed, lsFetched, lsAttempted, lsFetching, lsReceiver, lsEnrolled,
            lsSince, lsFailed, lsTook>>
list == <<lsListed, lsFetched, lsAttempted, lsFetching, lsFailed, lsTook>>
account == <<lsEnrolled, lsSince>>

Places == {"none", "shaking", "finding", "locked", "fetching", "checking", "accepting", "waiting",
           "serving"}
Oldest == Ttl + MaxFetch
Older(age, cap) == IF age < cap THEN age + 1 ELSE cap

LsTypeOK ==
    /\ lsTask \in [Tasks -> Places] /\ lsReceiver \subseteq Tasks
    /\ lsFetched \in 0 .. Ttl /\ lsAttempted \in 0 .. Refresh /\ lsSince \in 0 .. Oldest
    /\ lsLock = (\E t \in Tasks : lsTask[t] \in {"locked", "fetching"})

LsInit ==
    /\ lsTask = [t \in Tasks |-> "none"] /\ lsLock = FALSE /\ lsReceiver = {}
    /\ lsListed = FALSE /\ lsFetched = Ttl /\ lsAttempted = Refresh
    /\ lsFetching = "no" /\ lsFailed = FALSE /\ lsTook = 0
    /\ lsEnrolled \in BOOLEAN /\ lsSince = Oldest

-------------------------------------------------------------------------------
(* serve_one up to the question whose peer this is *)

TaskMoves(t, from, to) == lsTask[t] = from /\ lsTask' = [lsTask EXCEPT ![t] = to]

\* accept_next spawns a task for each connection.
Arrive(t) ==
    /\ TaskMoves(t, "none", "shaking")
    /\ UNCHANGED <<lsLock, list, lsReceiver, account>>

\* establish: done, failed, on another ALPN, or over its deadline.
Establish(t) ==
    /\ TaskMoves(t, "shaking", "finding") \/ TaskMoves(t, "shaking", "none")
    /\ UNCHANGED <<lsLock, list, lsReceiver, account>>

Lock(t) ==
    /\ ~lsLock /\ TaskMoves(t, "finding", "locked") /\ lsLock' = TRUE
    /\ UNCHANGED <<list, lsReceiver, account>>

Fresh == lsFetched < Ttl

\* Slip: a list older than its time to live is asked all the same.
AnswersFromListAlways == lsListed

\* The hit that find answers at once.
AnswersFromList == Fresh /\ lsListed

MayAttempt == lsAttempted >= Refresh

\* find ends: the peer is in the list, or the connection is dropped.
Judge(t, listed) ==
    /\ lsTask' = [lsTask EXCEPT ![t] = IF listed THEN "checking" ELSE "none"]
    /\ lsLock' = FALSE

Find(t) ==
    /\ lsTask[t] = "locked"
    /\ \/ /\ AnswersFromList \/ ~MayAttempt
          /\ Judge(t, lsListed) /\ UNCHANGED list
       \/ /\ ~AnswersFromList /\ MayAttempt
          /\ TaskMoves(t, "locked", "fetching")
          /\ lsAttempted' = 0 /\ lsFetching' = "asked" /\ lsTook' = 0
          /\ UNCHANGED <<lsLock, lsListed, lsFetched, lsFailed>>
    /\ UNCHANGED <<lsReceiver, account>>

\* External: the rendezvous reads the account.
DirectoryReads ==
    /\ lsFetching = "asked"
    /\ lsFetching' = IF lsEnrolled THEN "listed" ELSE "absent"
    /\ UNCHANGED <<lsTask, lsLock, lsListed, lsFetched, lsAttempted, lsFailed, lsTook, lsReceiver,
                   account>>

\* refresh replaces the list as a whole, and keeps the old one after a failure.
Fetched(t) ==
    /\ lsTask[t] = "fetching" /\ lsFetching \in {"listed", "absent"}
    /\ lsListed' = (lsFetching = "listed") /\ lsFetched' = 0 /\ lsFailed' = FALSE
    /\ lsFetching' = "no" /\ Judge(t, lsFetching = "listed")
    /\ UNCHANGED <<lsAttempted, lsTook, lsReceiver, account>>

FetchFails(t) ==
    /\ lsTask[t] = "fetching"
    /\ lsFailed' = TRUE /\ lsFetching' = "no" /\ Judge(t, lsListed)
    /\ UNCHANGED <<lsListed, lsFetched, lsAttempted, lsTook, lsReceiver, account>>

-------------------------------------------------------------------------------
(* serve_one from there on *)

\* TofuStore::check, which refuses a key other than the pinned one.
CheckPin(t) ==
    /\ TaskMoves(t, "checking", "accepting") \/ TaskMoves(t, "checking", "none")
    /\ UNCHANGED <<lsLock, list, lsReceiver, account>>

AcceptNode(t) ==
    /\ TaskMoves(t, "accepting", "waiting") \/ TaskMoves(t, "accepting", "none")
    /\ UNCHANGED <<lsLock, list, lsReceiver, account>>

\* wait_capability; without it the connection stays, and push_offer on it refuses.
WaitPeer(t) ==
    /\ TaskMoves(t, "waiting", "serving")
    /\ lsReceiver' = lsReceiver \cup {t} \/ UNCHANGED lsReceiver
    /\ UNCHANGED <<lsLock, list, account>>

Closed(t) ==
    /\ TaskMoves(t, "serving", "none")
    /\ lsReceiver' = lsReceiver \ {t}
    /\ UNCHANGED <<lsLock, list, account>>

AccountChanges ==
    /\ lsEnrolled' = ~lsEnrolled /\ lsSince' = 0
    /\ UNCHANGED <<lsTask, lsLock, list, lsReceiver>>

\* The mutex is free for the next task at once; only the rendezvous takes time.
Passes ==
    /\ ~\E t \in Tasks : lsTask[t] \in {"finding", "locked"} /\ (lsLock => lsTask[t] = "locked")
    /\ lsFetching # "no" => lsTook < MaxFetch
    /\ lsTook' = IF lsFetching = "no" THEN 0 ELSE lsTook + 1
    /\ lsFetched' = Older(lsFetched, Ttl) /\ lsAttempted' = Older(lsAttempted, Refresh)
    /\ lsSince' = Older(lsSince, Oldest)
    /\ UNCHANGED <<lsTask, lsLock, lsListed, lsFetching, lsReceiver, lsEnrolled, lsFailed>>

LsNext ==
    \/ \E t \in Tasks : \/ Arrive(t) \/ Establish(t) \/ Lock(t) \/ Find(t) \/ Fetched(t)
                        \/ FetchFails(t) \/ CheckPin(t) \/ AcceptNode(t) \/ WaitPeer(t) \/ Closed(t)
    \/ DirectoryReads \/ AccountChanges \/ Passes

-------------------------------------------------------------------------------
\* Unless the last fetch failed, a peer that left the account longer ago than a list and
\* its fetch may last is not let in, and one that joined at least a refresh interval ago
\* is not turned away, whichever task fetched the list (find, may_attempt, refresh).
JudgedByRecentList ==
    []LsTypeOK /\
    [][\A t \in Tasks : lsTask[t] \in {"locked", "fetching"} =>
          /\ lsTask'[t] = "checking" => lsEnrolled \/ lsSince < Oldest \/ lsFailed'
          /\ lsTask'[t] = "none" => ~lsEnrolled \/ lsSince < Refresh \/ lsFailed']_lsVars
===============================================================================
