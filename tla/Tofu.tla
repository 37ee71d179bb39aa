--------------------------------- MODULE Tofu ---------------------------------
(***************************************************************************)
(* The pin ledger, TofuStore of zyris-p2p/src/tofu.rs: which key a peer    *)
(* was first seen with.  Several processes share one file.                 *)
(*                                                                         *)
(* A writer takes <ledger>.lock, reads, writes a temporary file, checks    *)
(* that the lock still holds its nonce, renames the file into place and    *)
(* removes the lock.  A process may crash anywhere and be started again.   *)
(* A lock that has grown old is broken by whoever wants it: one left       *)
(* behind by a crash, but also one of a writer that is merely slow.  Each  *)
(* file system call is a step.  Within a process the calls are serialised  *)
(* by write_lock, so a process has one of them under way.                  *)
(* Keys are compared in their canonical form, so a key is a value here;    *)
(* edits of the file by hand and loss of power are not modelled.           *)
(***************************************************************************)
EXTENDS Naturals

CONSTANTS Procs,   \* processes that share the ledger
          Slugs,   \* names of peers
          Keys,    \* endpoint ids
          NoKey,   \* no pin
          MaxCalls, MaxCrashes   \* bounds on calls begun and on crashes

Dead == "dead"      \* the owner of a lock whose process is gone
Unowned == "unowned"
Operations == [kind : {"pin"}, slug : Slugs, key : Keys] \cup [kind : {"forget"}, slug : Slugs, key : {NoKey}]

ASSUME TofuAssumption ==
    /\ NoKey \notin Keys /\ Slugs # {}
    /\ Procs \cap {Dead, Unowned} = {}

VARIABLES
    tfLedger,   \* the file: slug -> key, or NoKey
    tfLock,     \* who created <ledger>.lock, or Unowned: the nonce in it
    tfOld,      \* its age is over LOCK_STALE_THRESHOLD
    tfAt,       \* where each process stands
    tfOp,       \* what it was asked to do
    tfView,     \* the ledger it has read, with its change
    tfKept,     \* history: pins made and reported Ok, and not forgotten since
    tfStolen,   \* history: a lock was removed between its owner's last check and its rename
    tfCalls, tfCrashes

tfVars == <<tfLedger, tfLock, tfOld, tfAt, tfOp, tfView, tfKept, tfStolen,
            tfCalls, tfCrashes>>
tfBounds == <<tfCalls, tfCrashes>>

Empty == [s \in Slugs |-> NoKey]
AnOp == CHOOSE o \in Operations : o.kind = "forget"

TfTypeOK ==
    /\ tfLedger \in [Slugs -> Keys \cup {NoKey}]
    /\ tfLock \in Procs \cup {Dead, Unowned}
    /\ tfOld \in BOOLEAN
    /\ tfAt \in [Procs -> {"idle", "lookup", "confirm", "lock", "break", "read", "temp",
                           "verify", "rename", "drop", "remove"}]
    /\ tfView \in [Procs -> [Slugs -> Keys \cup {NoKey}]]
    /\ tfKept \subseteq Slugs \X Keys

TfInit ==
    /\ tfLedger = Empty
    /\ tfLock = Unowned /\ tfOld = FALSE
    /\ tfAt = [p \in Procs |-> "idle"]
    /\ tfOp = [p \in Procs |-> AnOp]
    /\ tfView = [p \in Procs |-> Empty]
    /\ tfKept = {} /\ tfStolen = FALSE
    /\ tfCalls = 0 /\ tfCrashes = 0

Go(p, at) == tfAt' = [tfAt EXCEPT ![p] = at]

\* A call ends, with nothing held.
Return(p) ==
    /\ Go(p, "idle")
    /\ tfOp' = [tfOp EXCEPT ![p] = AnOp]
    /\ tfView' = [tfView EXCEPT ![p] = Empty]

-------------------------------------------------------------------------------
\* authorize, which looks first; pin_preapproved or forget.
Call(p, op) ==
    /\ tfAt[p] = "idle" /\ tfCalls < MaxCalls
    /\ tfCalls' = tfCalls + 1
    /\ tfOp' = [tfOp EXCEPT ![p] = op]
    /\ (op.kind = "pin" /\ Go(p, "lookup")) \/ Go(p, "lock")
    /\ UNCHANGED <<tfLedger, tfLock, tfOld, tfView, tfKept, tfStolen, tfCrashes>>

\* authorize reads without a lock: a known peer is settled here, Ok or Changed.
Lookup(p) ==
    /\ tfAt[p] = "lookup"
    /\ IF tfLedger[tfOp[p].slug] = NoKey
       THEN Go(p, "confirm") /\ UNCHANGED <<tfOp, tfView>>
       ELSE Return(p)
    /\ UNCHANGED <<tfLedger, tfLock, tfOld, tfKept, tfStolen, tfBounds>>

\* confirmer.confirm, which may take as long as it likes.
Confirm(p) ==
    /\ tfAt[p] = "confirm"
    /\ \/ Go(p, "lock") /\ UNCHANGED <<tfOp, tfView>>
       \/ Return(p)   \* refused
    /\ UNCHANGED <<tfLedger, tfLock, tfOld, tfKept, tfStolen, tfBounds>>

-------------------------------------------------------------------------------
(* acquire_lock_file *)

\* create_new succeeds.
TakeLock(p) ==
    /\ tfAt[p] = "lock" /\ tfLock = Unowned
    /\ tfLock' = p /\ tfOld' = FALSE
    /\ Go(p, "read")
    /\ UNCHANGED <<tfLedger, tfOp, tfView, tfKept, tfStolen, tfBounds>>

\* The lock exists past the deadline: an error.
LockTimeout(p) ==
    /\ tfAt[p] = "lock" /\ tfLock # Unowned
    /\ Return(p)
    /\ UNCHANGED <<tfLedger, tfLock, tfOld, tfKept, tfStolen, tfBounds>>

\* break_if_stale: the age is read, and the file removed, whatever it is by then.
FindStale(p) ==
    /\ tfAt[p] = "lock" /\ tfLock # Unowned /\ tfOld
    /\ Go(p, "break")
    /\ UNCHANGED <<tfLedger, tfLock, tfOld, tfOp, tfView, tfKept, tfStolen, tfBounds>>

\* The lock file is removed under its owner.
RemoveLock ==
    /\ tfLock' = Unowned /\ tfOld' = FALSE
    /\ tfStolen' = (tfStolen \/ \E q \in Procs : tfLock = q /\ tfAt[q] = "rename")

BreakLock(p) ==
    /\ tfAt[p] = "break"
    /\ RemoveLock
    /\ Go(p, "lock")
    /\ UNCHANGED <<tfLedger, tfOp, tfView, tfKept, tfBounds>>

-------------------------------------------------------------------------------
(* The critical section *)

\* read, then the re-check: pinned already (Ok or Changed), or nothing to forget.
ReadLedger(p) ==
    /\ tfAt[p] = "read"
    /\ LET o == tfOp[p]  now == tfLedger[o.slug]
       IN IF (o.kind = "pin") = (now = NoKey)
          THEN /\ tfView' = [tfView EXCEPT ![p] = [tfLedger EXCEPT ![o.slug] = o.key]]
               /\ Go(p, "temp")
               /\ UNCHANGED tfKept
          ELSE /\ tfKept' = IF o.kind = "pin" /\ now = o.key
                            THEN tfKept \cup {<<o.slug, o.key>>} ELSE tfKept
               /\ Go(p, "drop") /\ UNCHANGED tfView
    /\ UNCHANGED <<tfLedger, tfLock, tfOld, tfOp, tfStolen, tfBounds>>

\* create_temp, which may fail; the ledger is not touched.
CreateTemp(p) ==
    /\ tfAt[p] = "temp"
    /\ Go(p, "verify") \/ Go(p, "drop")
    /\ UNCHANGED <<tfLedger, tfLock, tfOld, tfOp, tfView, tfKept, tfStolen, tfBounds>>

\* Slip: the nonce is not compared.
StillHeldUnchecked(p) == TRUE

\* The lock file holds the nonce of this acquisition.
StillHeld(p) == tfLock = p

\* verify_lock_still_held: a lock that is gone, or another's, is an error.
VerifyLock(p) ==
    /\ tfAt[p] = "verify"
    /\ Go(p, IF StillHeld(p) THEN "rename" ELSE "drop")
    /\ UNCHANGED <<tfLedger, tfLock, tfOld, tfOp, tfView, tfKept, tfStolen, tfBounds>>

\* rename and the sync of the directory; from here on the call is an Ok.
Rename(p) ==
    /\ tfAt[p] = "rename"
    /\ tfLedger' = tfView[p]
    /\ tfKept' = LET o == tfOp[p]
                 IN IF o.kind = "pin" THEN tfKept \cup {<<o.slug, o.key>>}
                                      ELSE {k \in tfKept : k[1] # o.slug}
    /\ Go(p, "drop")
    /\ UNCHANGED <<tfLock, tfOld, tfOp, tfView, tfStolen, tfBounds>>

\* Drop for LockFile: the nonce is read, then the file removed.
DropReads(p) ==
    /\ tfAt[p] = "drop"
    /\ IF StillHeld(p) THEN Go(p, "remove") /\ UNCHANGED <<tfOp, tfView>> ELSE Return(p)
    /\ UNCHANGED <<tfLedger, tfLock, tfOld, tfKept, tfStolen, tfBounds>>

DropRemoves(p) ==
    /\ tfAt[p] = "remove"
    /\ RemoveLock
    /\ Return(p)
    /\ UNCHANGED <<tfLedger, tfKept, tfBounds>>

-------------------------------------------------------------------------------
(* External *)

\* LOCK_STALE_THRESHOLD passes: the owner is dead, or slow.
LockAges ==
    /\ tfLock # Unowned /\ ~tfOld
    /\ tfOld' = TRUE
    /\ UNCHANGED <<tfLedger, tfLock, tfAt, tfOp, tfView, tfKept, tfStolen, tfBounds>>

\* A process dies and is started again; its lock stays.
Crash(p) ==
    /\ tfAt[p] # "idle" /\ tfCrashes < MaxCrashes
    /\ tfCrashes' = tfCrashes + 1
    /\ tfLock' = IF tfLock = p THEN Dead ELSE tfLock
    /\ Return(p)
    /\ UNCHANGED <<tfLedger, tfOld, tfKept, tfStolen, tfCalls>>

TfStep(p) ==
    \/ Lookup(p) \/ Confirm(p) \/ TakeLock(p) \/ LockTimeout(p) \/ FindStale(p) \/ BreakLock(p)
    \/ ReadLedger(p) \/ CreateTemp(p) \/ VerifyLock(p) \/ Rename(p)
    \/ DropReads(p) \/ DropRemoves(p)

TfNext ==
    \/ \E p \in Procs :
          \/ TfStep(p) \/ Crash(p)
          \/ \E op \in Operations : Call(p, op)
    \/ LockAges

TfSpec == TfInit /\ [][TfNext]_tfVars

-------------------------------------------------------------------------------
\* A pin that was made, or found in place, and reported Ok stays until somebody
\* forgets it: through crashes, slow writers and the breaking of their locks, but
\* for a lock that is broken in the instant between the last look at the nonce and
\* the rename (pin_preapproved re-checks under the lock; verify_lock_still_held).
PinsSurvive ==
    /\ TfTypeOK
    /\ ~tfStolen => \A k \in tfKept : tfLedger[k[1]] = k[2]
===============================================================================
