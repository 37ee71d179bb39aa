-------------------------------- MODULE SendTo --------------------------------
(***************************************************************************)
(* Sending a file: send_to of zyris-capkit/src/transfer/send.rs with the   *)
(* client slot of transfer/rendezvous.rs, down to push_offer at the peer   *)
(* (Transfer models what push_offer does with the file).                   *)
(*                                                                         *)
(* Every call names the same node and the same path.  The name may pass to *)
(* another machine, the file may change, the connection to Attacca may be  *)
(* lost and made again, and a person is asked about an unknown key.  The   *)
(* transfer id is the version of the file that was measured.               *)
(***************************************************************************)
EXTENDS Naturals, FiniteSets

CONSTANTS Callers,     \* send_to calls that may be under way at once
          Machines,    \* the machines that may hold the name: their keys
          Versions,    \* of the file
          Nobody,      \* no caller, no key
          MaxSends     \* bound on the calls

VARIABLES
    stApi,       \* Rendezvous: "none", "live", or "dead", a client of a lost connection
    stHolder,    \* the machine that holds the name
    stFile,      \* version of the file
    stPin,       \* key pinned under the name
    stCall,      \* [Callers -> the state of the call]
    stOrphans,   \* requests <<key, version>> on their way for a caller that has left
    stTaking,    \* [Machines -> [version being received -> its caller]]
    stGot,       \* history: <<key, version>> delivered
    stApproved,  \* history: keys a person said yes to
    stSends      \* calls so far

stVars == <<stApi, stHolder, stFile, stPin, stCall, stOrphans, stTaking, stGot, stApproved, stSends>>
world == <<stApi, stHolder, stFile>>
atPeer == <<stOrphans, stTaking, stGot>>
trust == <<stPin, stApproved>>

NoSend == [at |-> "idle", key |-> Nobody, ver |-> 0, ready |-> FALSE, answer |-> "none"]
NoneTaken == [v \in {} |-> Nobody]

StTypeOK ==
    /\ stApi \in {"none", "live", "dead"} /\ stPin \in Machines \cup {Nobody}
    /\ \A c \in Callers : stCall[c].key \in Machines \cup {Nobody}
    /\ \A k \in Machines : DOMAIN stTaking[k] \subseteq Versions
    /\ stOrphans \cup stGot \subseteq Machines \X Versions

StInit ==
    /\ stApi = "none" /\ stHolder \in Machines /\ stFile \in Versions
    /\ stPin = Nobody /\ stCall = [c \in Callers |-> NoSend]
    /\ stOrphans = {} /\ stTaking = [k \in Machines |-> NoneTaken]
    /\ stGot = {} /\ stApproved = {} /\ stSends = 0

-------------------------------------------------------------------------------
(* send_inner *)

At(c, where) == stCall[c].at = where
Goes(c, where) == stCall' = [stCall EXCEPT ![c].at = where]
Answer(c, answer) == stCall' = [stCall EXCEPT ![c].at = "idle", ![c].answer = answer]

SendCall(c) ==
    /\ At(c, "idle") /\ stSends < MaxSends
    /\ stCall' = [stCall EXCEPT ![c] = [NoSend EXCEPT !.at = "measuring"]]
    /\ stSends' = stSends + 1
    /\ UNCHANGED <<world, atPeer, trust>>

\* resolve_source and hash_file: the path is refused or the file is measured.
Measured(c) ==
    /\ At(c, "measuring")
    /\ \/ Answer(c, "refused")
       \/ stCall' = [stCall EXCEPT ![c].at = "reaching", ![c].ver = stFile]
    /\ UNCHANGED <<world, atPeer, trust, stSends>>

\* look_up_peer: nothing to ask, no answer, an answer about another node or one that
\* is offline, or the machine that holds the name.
LookUp(c) ==
    /\ At(c, "reaching")
    /\ \/ Answer(c, "unavailable")
       \/ stApi = "live" /\ stCall' = [stCall EXCEPT ![c].at = "authorizing", ![c].key = stHolder]
    /\ UNCHANGED <<world, atPeer, trust, stSends>>

\* authorize_peer, the lookup in the ledger
AuthorizePeer(c) ==
    /\ At(c, "authorizing")
    /\ \/ Answer(c, "pin_unavailable")
       \/ stPin = stCall[c].key /\ Goes(c, "opening")
       \/ stPin \notin {stCall[c].key, Nobody} /\ Answer(c, "changed")
       \/ stPin = Nobody /\ Goes(c, "asking")
    /\ UNCHANGED <<world, atPeer, trust, stSends>>

PersonAnswers(c) ==
    /\ At(c, "asking")
    /\ \/ Goes(c, "pinning") /\ stApproved' = stApproved \cup {stCall[c].key}
       \/ Answer(c, "not_confirmed") /\ UNCHANGED stApproved
    /\ UNCHANGED <<world, atPeer, stPin, stSends>>

\* Slip: what was pinned while the person looked is overwritten.
PinBlindly(c) ==
    /\ At(c, "pinning")
    /\ stPin' = stCall[c].key /\ Goes(c, "opening")
    /\ UNCHANGED <<world, atPeer, stApproved, stSends>>

\* pin_preapproved, which looks at the ledger again under its lock
Pin(c) ==
    /\ At(c, "pinning")
    /\ \/ Answer(c, "pin_unavailable") /\ UNCHANGED stPin
       \/ /\ stPin \in {stCall[c].key, Nobody}
          /\ stPin' = stCall[c].key /\ Goes(c, "opening")
       \/ stPin \notin {stCall[c].key, Nobody} /\ Answer(c, "changed") /\ UNCHANGED stPin
    /\ UNCHANGED <<world, atPeer, stApproved, stSends>>

\* offer_file and open: the published addresses, then discovery, then the handshake
\* and the peer's announce.  QUIC reaches the machine with that key or none.
Open(c) ==
    /\ At(c, "opening")
    /\ Answer(c, "unreachable") \/ Goes(c, "sending")
    /\ UNCHANGED <<world, atPeer, trust, stSends>>

\* serve_one at the peer learns of the announce on this link, and calls set_peer.
PeerIsReady(c) ==
    /\ At(c, "sending") /\ ~stCall[c].ready
    /\ stCall' = [stCall EXCEPT ![c].ready = TRUE]
    /\ UNCHANGED <<world, atPeer, trust, stSends>>

-------------------------------------------------------------------------------
(* push_offer at the peer *)

Take(k, v, c) ==
    stTaking' = [stTaking EXCEPT ![k] =
                    [w \in DOMAIN @ \cup {v} |-> IF w = v THEN c ELSE @[w]]]
Release(k, v) == stTaking' = [stTaking EXCEPT ![k] = [w \in DOMAIN @ \ {v} |-> @[w]]]

\* The claim comes before the look at the peer handle.
PeerTakes(c) ==
    LET k == stCall[c].key
        v == stCall[c].ver
    IN  /\ At(c, "sending")
        /\ \/ v \in DOMAIN stTaking[k] /\ Answer(c, "pending") /\ UNCHANGED stTaking
           \/ /\ v \notin DOMAIN stTaking[k] /\ stCall[c].ready
              /\ Take(k, v, c) /\ Goes(c, "waiting")
           \/ /\ v \notin DOMAIN stTaking[k] /\ ~stCall[c].ready
              /\ Answer(c, "internal") /\ UNCHANGED stTaking
        /\ UNCHANGED <<world, trust, stOrphans, stGot, stSends>>

PeerTakesOrphan(k, v) ==
    /\ <<k, v>> \in stOrphans
    /\ stOrphans' = stOrphans \ {<<k, v>>}
    /\ UNCHANGED stTaking \/ (v \notin DOMAIN stTaking[k] /\ Take(k, v, Nobody))
    /\ UNCHANGED <<world, trust, stCall, stGot, stSends>>

\* The answer finds its caller if it still waits.
Tell(k, v, answer) ==
    LET c == stTaking[k][v]
    IN  IF c = Nobody THEN UNCHANGED stCall ELSE Answer(c, answer)

PeerFinishes(k, v) ==
    /\ v \in DOMAIN stTaking[k]
    /\ Release(k, v) /\ Tell(k, v, "done")
    /\ stGot' = stGot \cup {<<k, v>>}
    /\ UNCHANGED <<world, trust, stOrphans, stSends>>

PeerFails(k, v) ==
    /\ v \in DOMAIN stTaking[k]
    /\ Release(k, v) /\ Tell(k, v, "failed")
    /\ UNCHANGED <<world, trust, stOrphans, stGot, stSends>>

-------------------------------------------------------------------------------
(* send_to *)

\* Dropping the call cancels nothing: the peer goes on.
LeavePeer(c) ==
    LET k == stCall[c].key
        v == stCall[c].ver
    IN  CASE At(c, "sending") -> stOrphans' = stOrphans \cup {<<k, v>>} /\ UNCHANGED stTaking
          [] At(c, "waiting") -> Take(k, v, Nobody) /\ UNCHANGED stOrphans
          [] OTHER -> UNCHANGED <<stOrphans, stTaking>>

\* Before the file is measured there is nothing to come back to.
Expired(c) == IF At(c, "measuring") THEN "too_slow" ELSE "pending"

\* The wire deadline, wherever send_inner is.
Deadline(c) ==
    /\ ~At(c, "idle")
    /\ Answer(c, Expired(c)) /\ LeavePeer(c)
    /\ UNCHANGED <<world, trust, stGot, stSends>>

LinkLost(c) ==
    /\ stCall[c].at \in {"sending", "waiting"}
    /\ Answer(c, "failed") /\ LeavePeer(c)
    /\ UNCHANGED <<world, trust, stGot, stSends>>

-------------------------------------------------------------------------------
(* The rendezvous connection, and the world *)

SetApi ==
    /\ stApi # "live" /\ stApi' = "live"
    /\ UNCHANGED <<stHolder, stFile, stCall, atPeer, trust, stSends>>

Disconnect ==
    /\ stApi = "live" /\ stApi' = "dead"
    /\ UNCHANGED <<stHolder, stFile, stCall, atPeer, trust, stSends>>

NameMoves ==
    /\ stHolder' \in Machines \ {stHolder}
    /\ UNCHANGED <<stApi, stFile, stCall, atPeer, trust, stSends>>

FileEdited ==
    /\ stFile' \in Versions \ {stFile}
    /\ UNCHANGED <<stApi, stHolder, stCall, atPeer, trust, stSends>>

StNext ==
    \/ \E c \in Callers :
          \/ SendCall(c) \/ Measured(c) \/ LookUp(c) \/ AuthorizePeer(c) \/ PersonAnswers(c) \/ Pin(c)
          \/ Open(c) \/ PeerIsReady(c) \/ PeerTakes(c) \/ Deadline(c) \/ LinkLost(c)
    \/ \E k \in Machines, v \in Versions :
          PeerTakesOrphan(k, v) \/ PeerFinishes(k, v) \/ PeerFails(k, v)
    \/ SetApi \/ Disconnect \/ NameMoves \/ FileEdited

-------------------------------------------------------------------------------
\* However calls overlap and the name moves, every file under it goes to one machine,
\* one that a person approved, also when its call has long been answered; a receipt that
\* is not pending is for a file that machine has, and a pending one for a file that was
\* measured, so that calling again resumes it (send_to, send_inner, authorize_peer).
SentWhereConfirmed ==
    /\ StTypeOK
    /\ Cardinality({d[1] : d \in stGot}) <= 1
    /\ \A d \in stGot \cup stOrphans : d[1] \in stApproved
    /\ \A c \in Callers :
          stCall[c].answer = "done" => <<stCall[c].key, stCall[c].ver>> \in stGot
    /\ \A c \in Callers : stCall[c].answer = "pending" => stCall[c].ver # 0
===============================================================================
